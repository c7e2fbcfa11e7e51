----------------------------- MODULE WebSession -----------------------------
(***************************************************************************)
(* Sessions opened from the browser: the websocket handlers of a terminal  *)
(* (api/term.go) or of a guacd desktop (api/guacamole.go), the observers   *)
(* that watch them, GlobalSessionManager, CloseSessionById under its one   *)
(* global mutex, the session record, the "connect" request with which the  *)
(* browser confirms a session, the administrator and the hourly sweep.     *)
(*                                                                         *)
(* Nothing keeps a browser from opening the same session twice (a reloaded *)
(* page does), so several handlers may serve one session.                  *)
(***************************************************************************)
EXTENDS Naturals, FiniteSets

CONSTANTS Sessions,     \* session identifiers
          Handlers,     \* websockets of terminals or desktops
          NoHandler,    \* no session registered
          Observers,    \* websockets that watch a session
          Admin,        \* the administrator's request, as holder of the mutex
          Mode,         \* "native" (terminal) or "guacd" (desktop)
          Faults        \* {"update"} when the database may refuse an update

ASSUME ConstantsOK ==
  /\ Sessions # {} /\ NoHandler \notin Handlers /\ Admin \notin Handlers \cup Observers
  /\ Handlers \cap Observers = {}
  /\ Mode \in {"native", "guacd"} /\ Faults \subseteq {"update"}

VARIABLES
  row,        \* row[s]: status of the session record
  manager,    \* manager[s]: handler whose session GlobalSessionManager holds
  pc, sid,    \* place of the handler, and the session it serves
  ws,         \* the handler's websocket: "none", "open" or "closed"
  connect,    \* handlers whose browser's connect request is on its way
  opc, host,  \* place of the observer, and the handler it looked up
  ows,        \* the observer's websocket
  observers,  \* observers[h]: Observer of the session of h
  closing,    \* CloseSessionById: who holds the mutex, for which session
  sweep       \* identifiers the ticker or the clear endpoint has read

handlerVars  == <<pc, sid, ws>>
observerVars == <<opc, host, ows, observers>>
vars == <<row, manager, handlerVars, connect, observerVars, closing, sweep>>

-----------------------------------------------------------------------------
Present == {"noconnect", "connecting", "connected", "disconnected"}
Free == [step |-> "free", by |-> Admin, sid |-> CHOOSE s \in Sessions : TRUE,
         found |-> NoHandler]

\* The session of the handler is, or is about to be, taken off the manager.
Attached == {"loop", "kick", "leave"} \cup (IF Mode = "guacd" THEN {"update"} ELSE {})

Go(h, p)  == pc' = [pc EXCEPT ![h] = p]
OGo(o, p) == opc' = [opc EXCEPT ![o] = p]

\* UpdateById: nothing happens to a deleted record.
SetRow(s, status) ==
  row' = IF row[s] \in Present THEN [row EXCEPT ![s] = status] ELSE row

Init ==
  /\ row = [s \in Sessions |-> "none"]
  /\ manager = [s \in Sessions |-> NoHandler]
  /\ pc = [h \in Handlers |-> "idle"] /\ sid = [h \in Handlers |-> Free.sid]
  /\ ws = [h \in Handlers |-> "none"]
  /\ connect = {}
  /\ opc = [o \in Observers |-> "idle"] /\ host = [o \in Observers |-> NoHandler]
  /\ ows = [o \in Observers |-> "none"]
  /\ observers = [h \in Handlers |-> {}]
  /\ closing = Free /\ sweep = {}

-----------------------------------------------------------------------------
(* A browser opens a session.                                              *)

\* SessionService.Create.
Create(s) ==
  /\ row[s] = "none" /\ row' = [row EXCEPT ![s] = "noconnect"]
  /\ UNCHANGED <<manager, handlerVars, connect, observerVars, closing, sweep>>

\* Altered: the browser is told that it is connected as soon as it opens.
OpenConfirming(h, s) ==
  /\ pc[h] = "idle" /\ row[s] \in Present
  /\ sid' = [sid EXCEPT ![h] = s] /\ ws' = [ws EXCEPT ![h] = "open"]
  /\ Go(h, "dial") /\ connect' = connect \cup {h}
  /\ UNCHANGED <<row, manager, observerVars, closing, sweep>>

\* The websocket is upgraded and the record found, whatever its status.
Open(h, s) ==
  /\ pc[h] = "idle" /\ row[s] \in Present
  /\ sid' = [sid EXCEPT ![h] = s] /\ ws' = [ws EXCEPT ![h] = "open"]
  /\ Go(h, "dial")
  /\ UNCHANGED <<row, manager, connect, observerVars, closing, sweep>>

\* Gateway, tunnel or database client: the terminal then updates the record
\* and registers, the desktop registers first.  Only the terminal closes its
\* websocket when it cannot connect.
Dial(h) ==
  /\ pc[h] = "dial"
  /\ \/ Go(h, IF Mode = "native" THEN "update" ELSE "register") /\ UNCHANGED ws
     \/ /\ Go(h, "over")
        /\ ws' = IF Mode = "native" THEN [ws EXCEPT ![h] = "closed"] ELSE ws
  /\ UNCHANGED <<row, manager, sid, connect, observerVars, closing, sweep>>

\* The record becomes Connecting, whatever it was.  The client that learns
\* of it (Connected message, or tunnel state) will confirm with a request.
Update(h) ==
  /\ pc[h] = "update"
  /\ \/ /\ SetRow(sid[h], "connecting")
        /\ \/ /\ Go(h, IF Mode = "native" THEN "register" ELSE "loop")
              /\ UNCHANGED ws
              /\ connect' = IF ws[h] = "open" THEN connect \cup {h} ELSE connect
           \/ /\ Mode = "native" /\ ws[h] = "closed"
              /\ Go(h, "over") /\ UNCHANGED <<ws, connect>>
     \/ /\ "update" \in Faults
        /\ Go(h, "over") /\ UNCHANGED <<row, connect>>
        /\ ws' = IF Mode = "native" THEN [ws EXCEPT ![h] = "closed"] ELSE ws
  /\ UNCHANGED <<manager, sid, observerVars, closing, sweep>>

\* GlobalSessionManager.Add, without the mutex of CloseSessionById.
Register(h) ==
  /\ pc[h] = "register"
  /\ manager' = [manager EXCEPT ![sid[h]] = h]
  /\ Go(h, IF Mode = "native" THEN "loop" ELSE "update")
  /\ UNCHANGED <<row, sid, ws, connect, observerVars, closing, sweep>>

\* SessionConnectEndpoint, whenever the request arrives.
Confirm(h) ==
  /\ h \in connect /\ connect' = connect \ {h}
  /\ SetRow(sid[h], "connected")
  /\ UNCHANGED <<manager, handlerVars, observerVars, closing, sweep>>

\* Altered: the terminal returns without closing its session.
ReadFailsReturning(h) ==
  /\ pc[h] = "loop" /\ ws[h] = "closed" /\ Go(h, "over")
  /\ UNCHANGED <<row, manager, sid, ws, connect, observerVars, closing, sweep>>

\* ReadMessage fails once the websocket is closed, by either side.
ReadFails(h) ==
  /\ pc[h] = "loop" /\ ws[h] = "closed" /\ Go(h, "leave")
  /\ UNCHANGED <<row, manager, sid, ws, connect, observerVars, closing, sweep>>

\* The remote end is gone: the terminal closes its session and reads on, the
\* desktop returns.
WriteFails(h) ==
  /\ pc[h] = "loop" /\ ws[h] = "open"
  /\ Go(h, IF Mode = "native" THEN "kick" ELSE "leave")
  /\ UNCHANGED <<row, manager, sid, ws, connect, observerVars, closing, sweep>>

\* Seen at the next read or write; what was sent before counts as read before.
ClientLeaves(h) ==
  /\ ws[h] = "open" /\ ws' = [ws EXCEPT ![h] = "closed"]
  /\ UNCHANGED <<row, manager, pc, sid, connect, observerVars, closing, sweep>>

-----------------------------------------------------------------------------
(* CloseSessionById(s), under the global mutex, for a handler, an observer *)
(* or the administrator.                                                   *)

\* The mutex is taken and Del looks the session up.
CloseLock(by, s) ==
  /\ closing.step = "free"
  /\ closing' = [step |-> "socket", by |-> by, sid |-> s, found |-> manager[s]]
  /\ UNCHANGED <<row, manager, handlerVars, connect, observerVars, sweep>>

\* Altered: the websocket of the session is left open.
CloseSocketSkipped ==
  /\ closing.step = "socket" /\ closing' = [closing EXCEPT !.step = "clear"]
  /\ UNCHANGED <<row, manager, handlerVars, connect, observerVars, sweep>>

\* Session.Close.
CloseSocket ==
  /\ closing.step = "socket" /\ closing' = [closing EXCEPT !.step = "clear"]
  /\ ws' = IF closing.found = NoHandler THEN ws ELSE [ws EXCEPT ![closing.found] = "closed"]
  /\ UNCHANGED <<row, manager, pc, sid, connect, observerVars, sweep>>

\* Observer.Clear: the observers there are at this moment.
CloseClear ==
  /\ closing.step = "clear" /\ closing' = [closing EXCEPT !.step = "delete"]
  /\ IF closing.found = NoHandler
       THEN UNCHANGED <<ows, observers>>
       ELSE /\ ows' = [o \in Observers |->
                         IF o \in observers[closing.found] THEN "closed" ELSE ows[o]]
            /\ observers' = [observers EXCEPT ![closing.found] = {}]
  /\ UNCHANGED <<row, manager, handlerVars, connect, opc, host, sweep>>

\* Altered: a handler that closes its own session leaves it registered.
CloseDeleteNothing ==
  /\ closing.step = "delete" /\ closing' = [closing EXCEPT !.step = "record"]
  /\ manager' = [manager EXCEPT ![closing.sid] = IF closing.by = @ THEN @ ELSE NoHandler]
  /\ UNCHANGED <<row, handlerVars, connect, observerVars, sweep>>

\* sessions.Delete(id), whoever is registered by now.
CloseDelete ==
  /\ closing.step = "delete" /\ closing' = [closing EXCEPT !.step = "record"]
  /\ manager' = [manager EXCEPT ![closing.sid] = NoHandler]
  /\ UNCHANGED <<row, handlerVars, connect, observerVars, sweep>>

\* DisDBSess: a Connecting record is deleted, one that is Disconnected left
\* alone; a missing one is an error nobody looks at.
EndRecord(s) ==
  row' = CASE row[s] = "connecting"                 -> [row EXCEPT ![s] = "deleted"]
           [] row[s] \in {"noconnect", "connected"} -> [row EXCEPT ![s] = "disconnected"]
           [] OTHER                                 -> row

\* The transaction ends, the mutex is released and the caller goes on: a
\* terminal that could not write reads on, everybody else returns.
CloseRecord ==
  /\ closing.step = "record" /\ closing' = Free
  /\ \/ EndRecord(closing.sid)
     \/ "update" \in Faults /\ UNCHANGED row
  /\ pc' = [h \in Handlers |->
              IF h # closing.by THEN pc[h] ELSE IF pc[h] = "kick" THEN "loop" ELSE "over"]
  /\ opc' = [o \in Observers |-> IF o = closing.by THEN "over" ELSE opc[o]]
  /\ UNCHANGED <<manager, sid, ws, connect, host, ows, observers, sweep>>

HandlerCloses(h) == pc[h] \in {"kick", "leave"} /\ CloseLock(h, sid[h])
AdminCloses(s)   == row[s] # "none" /\ CloseLock(Admin, s)

-----------------------------------------------------------------------------
(* Observers: SshMonitorEndpoint and GuacamoleMonitor.                     *)

\* The record is found (the desktop's has to be Connected), then the session.
Watch(o, s) ==
  /\ opc[o] = "idle"
  /\ row[s] \in (IF Mode = "native" THEN Present ELSE {"connected"})
  /\ manager[s] # NoHandler
  /\ host' = [host EXCEPT ![o] = manager[s]] /\ OGo(o, "join")
  /\ ows' = [ows EXCEPT ![o] = "open"]
  /\ UNCHANGED <<row, manager, handlerVars, connect, observers, closing, sweep>>

\* Observer.Add: the session may have been closed since it was looked up.
Join(o) ==
  /\ opc[o] = "join" /\ OGo(o, "watch")
  /\ observers' = [observers EXCEPT ![host[o]] = @ \cup {o}]
  /\ UNCHANGED <<row, manager, handlerVars, connect, host, ows, closing, sweep>>

\* The viewer leaves or was closed: Observer.Del, which closes it as well.
Unwatch(o) ==
  /\ opc[o] = "watch" /\ OGo(o, "over")
  /\ ows' = [ows EXCEPT ![o] = "closed"]
  /\ observers' = [observers EXCEPT ![host[o]] = @ \ {o}]
  /\ UNCHANGED <<row, manager, handlerVars, connect, host, closing, sweep>>

\* The tunnel of a desktop's observer fails: he closes the watched session.
ObserverFails(o) ==
  /\ Mode = "guacd" /\ opc[o] = "watch" /\ OGo(o, "closing")
  /\ UNCHANGED <<row, manager, handlerVars, connect, host, ows, observers, closing, sweep>>

ObserverCloses(o) == opc[o] = "closing" /\ CloseLock(o, sid[host[o]])

-----------------------------------------------------------------------------
(* Records that are removed, and the death of the process.                 *)

\* deleteUnUsedSession reads the sessions not connected: the time of a web
\* session that was never confirmed is zero, more than an hour ago.  Or
\* ClearOfflineSession reads those disconnected.
SweepRead ==
  /\ sweep = {}
  /\ \/ sweep' = {s \in Sessions : row[s] \in {"noconnect", "connecting"}}
     \/ sweep' = {s \in Sessions : row[s] = "disconnected"}
  /\ UNCHANGED <<row, manager, handlerVars, connect, observerVars, closing>>

\* DeleteById, one after the other, whatever the record is by now.
SweepDelete(s) ==
  /\ s \in sweep /\ sweep' = sweep \ {s}
  /\ SetRow(s, "deleted")
  /\ UNCHANGED <<manager, handlerVars, connect, observerVars, closing>>

\* SessionDeleteEndpoint, for a session of any status.
Delete(s) ==
  /\ row[s] \in Present /\ SetRow(s, "deleted")
  /\ UNCHANGED <<manager, handlerVars, connect, observerVars, closing, sweep>>

\* The process dies, requests under way with it, and restarts:
\* FixSessionState.
Restart ==
  /\ row' = [s \in Sessions |-> IF row[s] = "connected" THEN "disconnected" ELSE row[s]]
  /\ manager' = [s \in Sessions |-> NoHandler]
  /\ pc' = [h \in Handlers |-> IF pc[h] = "idle" THEN "idle" ELSE "over"]
  /\ ws' = [h \in Handlers |-> IF ws[h] = "none" THEN "none" ELSE "closed"]
  /\ opc' = [o \in Observers |-> IF opc[o] = "idle" THEN "idle" ELSE "over"]
  /\ ows' = [o \in Observers |-> IF ows[o] = "none" THEN "none" ELSE "closed"]
  /\ observers' = [h \in Handlers |-> {}] /\ closing' = Free /\ sweep' = {}
  /\ connect' = {}
  /\ UNCHANGED <<sid, host>>

-----------------------------------------------------------------------------
Serve(h) == Dial(h) \/ Update(h) \/ Register(h) \/ ReadFails(h)
CloseStep == CloseSocket \/ CloseClear \/ CloseDelete \/ CloseRecord

Steps ==
  \/ CloseStep \/ SweepRead
  \/ \E s \in Sessions : \/ Create(s) \/ AdminCloses(s)
                         \/ SweepDelete(s) \/ Delete(s)
  \/ \E h \in Handlers : \/ Serve(h) \/ WriteFails(h) \/ ClientLeaves(h) \/ HandlerCloses(h)
                         \/ Confirm(h)
                         \/ \E s \in Sessions : Open(h, s)
  \/ \E o \in Observers : \/ Join(o) \/ Unwatch(o) \/ ObserverFails(o) \/ ObserverCloses(o)
                          \/ \E s \in Sessions : Watch(o, s)

Next == Steps \/ Restart

Spec == Init /\ [][Next]_vars

\* Goroutines run, the writes of a close return, and a Go mutex is not
\* withheld for ever from one who waits for it.
LiveSpec ==
  /\ Init /\ [][Steps]_vars /\ WF_vars(CloseStep)
  /\ \A h \in Handlers : WF_vars(Serve(h)) /\ SF_vars(HandlerCloses(h))
  /\ \A o \in Observers : /\ WF_vars(Join(o)) /\ SF_vars(ObserverCloses(o))
                          /\ WF_vars(ows[o] = "closed" /\ Unwatch(o))

-----------------------------------------------------------------------------
(* Properties.                                                             *)

\* Every variable has its type, and an observer that goes on has a session to
\* go on with (the nil check of SshMonitorEndpoint).
TypeOK ==
  /\ row \in [Sessions -> Present \cup {"none", "deleted"}]
  /\ manager \in [Sessions -> Handlers \cup {NoHandler}]
  /\ pc \in [Handlers -> {"idle", "dial", "register", "update", "loop", "kick", "leave", "over"}]
  /\ sid \in [Handlers -> Sessions]
  /\ ws \in [Handlers -> {"none", "open", "closed"}]
  /\ connect \subseteq Handlers
  /\ opc \in [Observers -> {"idle", "join", "watch", "closing", "over"}]
  /\ host \in [Observers -> Handlers \cup {NoHandler}]
  /\ \A o \in Observers : opc[o] \in {"join", "watch", "closing"} => host[o] \in Handlers
  /\ ows \in [Observers -> {"none", "open", "closed"}]
  /\ observers \in [Handlers -> SUBSET Observers]
  /\ closing \in [step : {"free", "socket", "clear", "delete", "record"},
                   by : Handlers \cup Observers \cup {Admin}, sid : Sessions,
                   found : Handlers \cup {NoHandler}]
  /\ sweep \subseteq Sessions

\* GlobalSessionManager never holds a session whose goroutine has returned,
\* however closes of the same session by two tabs, an observer and the
\* administrator overlap with a registration (SshEndpoint returns only after
\* CloseSessionById).
NoGhost == \A s \in Sessions, h \in Handlers :
             manager[s] = h => pc[h] \in Attached /\ sid[h] = s

\* A session becomes Connected only after some handler made it Connecting:
\* the browser confirms what the server told it (SessionConnectEndpoint).
ConfirmedWasDialled ==
  \A s \in Sessions : row[s] = "connected" =>
    \E h \in Handlers : sid[h] = s /\ pc[h] \notin {"idle", "dial", "update"}

\* Whoever closes a session, the handler that was registered for it ends.
KickEnds == \A h \in Handlers :
              closing.step = "socket" /\ closing.found = h ~> pc[h] = "over"

\* A handler whose browser has left is off the manager for good.
LeaverForgotten == \A h \in Handlers :
  ws[h] = "closed" ~> [](\A s \in Sessions : manager[s] # h)
=============================================================================
