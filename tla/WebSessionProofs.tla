-------------------------- MODULE WebSessionProofs --------------------------
(***************************************************************************)
(* GlobalSessionManager never holds a session whose handler has returned,  *)
(* for any number of sessions, handlers and observers: a terminal, which   *)
(* writes its record before it registers, or a desktop, which does so      *)
(* after, while records can be written.                                    *)
(***************************************************************************)
EXTENDS WebSession, TLAPS

UpdatesOrNative == Mode = "native" \/ (Mode = "guacd" /\ "update" \notin Faults)

\* Who holds the mutex for himself is waiting for it, with his own session;
\* and once Del has run he is not registered any more.
HolderKnown ==
  closing.step # "free" /\ closing.by \in Handlers =>
    /\ pc[closing.by] \in {"kick", "leave"}
    /\ closing.sid = sid[closing.by]
    /\ closing.step = "record" => \A s \in Sessions : manager[s] # closing.by

Shape == /\ pc \in [Handlers -> {"idle", "dial", "register", "update", "loop", "kick",
                                 "leave", "over"}]
         /\ sid \in [Handlers -> Sessions]
         /\ manager \in [Sessions -> Handlers \cup {NoHandler}]
         /\ closing \in [step : {"free", "socket", "clear", "delete", "record"},
                          by : Handlers \cup Observers \cup {Admin}, sid : Sessions,
                          found : Handlers \cup {NoHandler}]

\* An observer goes on with the session it looked up, never with nil.
Hosted == /\ opc \in [Observers -> {"idle", "join", "watch", "closing", "over"}]
          /\ host \in [Observers -> Handlers \cup {NoHandler}]
          /\ \A o \in Observers : opc[o] \in {"join", "watch", "closing"} => host[o] \in Handlers

GInv == Shape /\ Hosted /\ NoGhost /\ HolderKnown

-----------------------------------------------------------------------------
\* Nothing is registered at first.
LEMMA InitGInv == Init => GInv
<1> SUFFICES ASSUME Init PROVE GInv
  OBVIOUS
<1>1. /\ Free.sid \in Sessions /\ Free.step = "free"
      /\ Free \in [step : {"free"}, by : {Admin}, sid : Sessions, found : {NoHandler}]
  BY ConstantsOK DEF Free
<1>2. Shape /\ Hosted
  BY <1>1 DEF Init, Shape, Hosted
<1>3. NoGhost /\ HolderKnown
  BY <1>1, ConstantsOK DEF Init, NoGhost, HolderKnown
<1> QED BY <1>2, <1>3 DEF GInv

\* A step that leaves the manager, the sessions and the mutex alone, and
\* whose handler is not in CloseSessionById, keeps the invariant.
LEMMA HandlerStep ==
  ASSUME GInv, UNCHANGED <<manager, sid, closing, opc, host>>, NEW h \in Handlers,
         pc[h] \notin {"kick", "leave"},
         NEW p \in {"idle", "dial", "register", "update", "loop", "kick", "leave", "over"},
         pc' = [pc EXCEPT ![h] = p], pc[h] \in Attached => p \in Attached
  PROVE  GInv'
<1>1. Shape'
  BY DEF GInv, Shape
<1>2. NoGhost'
  BY DEF GInv, Shape, NoGhost
<1>3. HolderKnown'
  BY DEF GInv, Shape, HolderKnown
<1>4. Hosted'
  BY DEF GInv, Hosted
<1> QED BY <1>1, <1>2, <1>3, <1>4 DEF GInv

\* Every step of every handler, observer and close.
LEMMA GhostStep == UpdatesOrNative /\ GInv /\ [Next]_vars => GInv'
<1> SUFFICES ASSUME UpdatesOrNative, GInv, [Next]_vars PROVE GInv'
  OBVIOUS
<1>0. Attached = IF Mode = "guacd" THEN {"loop", "kick", "leave", "update"}
                 ELSE {"loop", "kick", "leave"}
  BY DEF Attached
<1>f. Free \in [step : {"free"}, by : {Admin}, sid : Sessions, found : {NoHandler}]
  BY ConstantsOK DEF Free
<1>q. CASE UNCHANGED <<manager, pc, sid, closing, opc, host>>
  BY <1>q DEF GInv, Shape, Hosted, NoGhost, HolderKnown
<1>1. ASSUME NEW s \in Sessions, Create(s) \/ SweepDelete(s) \/ Delete(s) PROVE GInv'
  BY <1>q, <1>1 DEF Create, SweepDelete, Delete, handlerVars, observerVars
<1>2. ASSUME NEW h \in Handlers, ClientLeaves(h) \/ Confirm(h) PROVE GInv'
  BY <1>q, <1>2 DEF ClientLeaves, Confirm, handlerVars, observerVars
<1>3. ASSUME NEW o \in Observers,
             Join(o) \/ Unwatch(o) \/ ObserverFails(o) \/ \E s \in Sessions : Watch(o, s)
      PROVE  GInv'
  <2>1. UNCHANGED <<manager, pc, sid, closing>>
    BY <1>3 DEF Join, Unwatch, ObserverFails, Watch, handlerVars
  <2>2. Hosted'
    <3>1. CASE Join(o) \/ Unwatch(o) \/ ObserverFails(o)
      BY <3>1 DEF Join, Unwatch, ObserverFails, OGo, GInv, Hosted
    <3>2. ASSUME NEW s \in Sessions, Watch(o, s) PROVE Hosted'
      BY <3>2 DEF Watch, OGo, GInv, Hosted, Shape
    <3> QED BY <1>3, <3>1, <3>2
  <2> QED BY <2>1, <2>2 DEF GInv, Shape, NoGhost, HolderKnown
<1>4. CASE SweepRead \/ UNCHANGED vars
  BY <1>q, <1>4 DEF SweepRead, vars, handlerVars, observerVars
<1>5. ASSUME NEW h \in Handlers, Dial(h) \/ Update(h) \/ ReadFails(h) \/ WriteFails(h)
      PROVE  GInv'
  <2>1. /\ UNCHANGED <<manager, sid, closing, opc, host>> /\ pc[h] \in {"dial", "update", "loop"}
        /\ \E p \in {"update", "over", "register", "leave", "kick", "loop"} :
             /\ pc' = [pc EXCEPT ![h] = p]
             /\ pc[h] = "loop" => p \in {"leave", "kick"}
             /\ pc[h] = "update" /\ Mode = "guacd" => p = "loop"
    BY <1>5 DEF Dial, Update, ReadFails, WriteFails, Go, observerVars, UpdatesOrNative
  <2> QED BY <1>0, <2>1, HandlerStep
<1>6. ASSUME NEW h \in Handlers, NEW s \in Sessions, Open(h, s) PROVE GInv'
  <2>1. /\ pc[h] = "idle" /\ pc' = [pc EXCEPT ![h] = "dial"]
        /\ sid' = [sid EXCEPT ![h] = s] /\ UNCHANGED <<manager, closing, opc, host>>
    BY <1>6 DEF Open, Go, observerVars
  <2>2. \A r \in Sessions : manager[r] # h
    BY <1>0, <2>1 DEF GInv, NoGhost
  <2>3. NoGhost' /\ Shape' /\ Hosted'
    BY <1>0, <2>1, <2>2 DEF GInv, Shape, NoGhost, Attached, Hosted
  <2>4. HolderKnown'
    BY <2>1 DEF GInv, Shape, HolderKnown
  <2> QED BY <2>3, <2>4 DEF GInv
<1>7. ASSUME NEW h \in Handlers, Register(h) PROVE GInv'
  <2>1. /\ pc[h] = "register"
        /\ pc' = [pc EXCEPT ![h] = IF Mode = "native" THEN "loop" ELSE "update"]
        /\ manager' = [manager EXCEPT ![sid[h]] = h] /\ UNCHANGED <<sid, closing, opc, host>>
    BY <1>7 DEF Register, Go, observerVars
  <2>2. NoGhost' /\ Shape' /\ Hosted'
    BY <1>0, <2>1, ConstantsOK DEF GInv, Shape, NoGhost, Attached, Hosted
  <2>3. HolderKnown'
    BY <2>1 DEF GInv, Shape, HolderKnown
  <2> QED BY <2>2, <2>3 DEF GInv
\* The three who may close a session ...
<1>8. ASSUME NEW by \in Handlers \cup Observers \cup {Admin}, NEW s \in Sessions,
             CloseLock(by, s),
             by \in Handlers => pc[by] \in {"kick", "leave"} /\ s = sid[by]
      PROVE  GInv'
  <2>1. /\ UNCHANGED <<manager, pc, sid, opc, host>> /\ manager[s] \in Handlers \cup {NoHandler}
        /\ closing' = [step |-> "socket", by |-> by, sid |-> s, found |-> manager[s]]
    BY <1>8 DEF CloseLock, handlerVars, observerVars, GInv, Shape
  <2>2. Shape' /\ HolderKnown'
    BY <1>8, <2>1 DEF GInv, Shape, HolderKnown
  <2> QED BY <2>1, <2>2 DEF GInv, NoGhost, Hosted
<1>9. ASSUME NEW h \in Handlers, HandlerCloses(h) PROVE GInv'
  BY <1>8, <1>9 DEF HandlerCloses, GInv, Shape
<1>10. ASSUME NEW s \in Sessions, AdminCloses(s) PROVE GInv'
  BY <1>8, <1>10, ConstantsOK DEF AdminCloses
<1>11. ASSUME NEW o \in Observers, ObserverCloses(o) PROVE GInv'
  <2>1. sid[host[o]] \in Sessions /\ o \notin Handlers
    BY <1>11, ConstantsOK DEF ObserverCloses, GInv, Shape, Hosted
  <2> QED BY <1>8, <1>11, <2>1 DEF ObserverCloses
\* ... and the steps of the close.
<1>12. CASE CloseSocket \/ CloseClear
  <2>1. /\ UNCHANGED <<manager, pc, sid, opc, host>> /\ closing.step # "free"
        /\ \E t \in {"clear", "delete"} : closing' = [closing EXCEPT !.step = t]
    BY <1>12 DEF CloseSocket, CloseClear, handlerVars, observerVars
  <2>2. Shape' /\ HolderKnown'
    BY <2>1 DEF GInv, Shape, HolderKnown
  <2> QED BY <2>1, <2>2 DEF GInv, NoGhost, Hosted
<1>13. CASE CloseDelete
  <2>1. /\ UNCHANGED <<pc, sid, opc, host>> /\ closing.step = "delete"
        /\ closing' = [closing EXCEPT !.step = "record"]
        /\ manager' = [manager EXCEPT ![closing.sid] = NoHandler]
    BY <1>13 DEF CloseDelete, handlerVars, observerVars
  <2>2. Shape' /\ NoGhost'
    BY <2>1, ConstantsOK DEF GInv, Shape, NoGhost, Attached
  <2>3. ASSUME closing.by \in Handlers, NEW r \in Sessions PROVE manager'[r] # closing.by
    BY <2>1, <2>3, ConstantsOK DEF GInv, Shape, NoGhost, HolderKnown
  <2>4. HolderKnown'
    BY <2>1, <2>3 DEF GInv, Shape, HolderKnown
  <2> QED BY <2>1, <2>2, <2>4 DEF GInv, Hosted
<1>14. CASE CloseRecord
  <2>1. /\ UNCHANGED <<manager, sid, host>> /\ closing.step = "record" /\ closing' = Free
        /\ pc' = [h \in Handlers |->
                     IF h # closing.by THEN pc[h] ELSE IF pc[h] = "kick" THEN "loop" ELSE "over"]
        /\ opc' = [o \in Observers |-> IF o = closing.by THEN "over" ELSE opc[o]]
    BY <1>14 DEF CloseRecord
  <2>2. \A r \in Sessions : closing.by \in Handlers => manager[r] # closing.by
    BY <2>1 DEF GInv, HolderKnown
  <2>3. NoGhost'
    BY <1>0, <2>1, <2>2 DEF GInv, NoGhost, Attached
  <2>4. Shape' /\ Hosted' /\ HolderKnown'
    BY <1>f, <2>1 DEF GInv, Shape, Hosted, HolderKnown
  <2> QED BY <2>3, <2>4 DEF GInv
<1>15. CASE Restart
  <2>1. /\ manager' = [s \in Sessions |-> NoHandler] /\ UNCHANGED <<sid, host>>
        /\ pc' = [h \in Handlers |-> IF pc[h] = "idle" THEN "idle" ELSE "over"]
        /\ opc' = [o \in Observers |-> IF opc[o] = "idle" THEN "idle" ELSE "over"]
        /\ closing' = Free
    BY <1>15 DEF Restart
  <2> QED BY <1>f, <2>1, ConstantsOK DEF GInv, Shape, Hosted, NoGhost, HolderKnown
<1> QED BY <1>1, <1>2, <1>3, <1>4, <1>5, <1>6, <1>7, <1>9, <1>10, <1>11, <1>12, <1>13, <1>14, <1>15
        DEF Next, Steps, Serve, CloseStep

\* A terminal or desktop that has returned, or was never registered, is not in
\* GlobalSessionManager, whoever closes, opens or watches its session
\* meanwhile (SshEndpoint, Guacamole, CloseSessionById); a desktop only if its
\* record can be updated, as Guacamole returns from an error there.
THEOREM NoGhosts == UpdatesOrNative => (Spec => []NoGhost)
<1> SUFFICES ASSUME UpdatesOrNative PROVE Spec => []NoGhost
  OBVIOUS
<1>1. Init => GInv
  BY InitGInv
<1>2. GInv /\ [Next]_vars => GInv'
  BY GhostStep
<1>3. GInv => NoGhost
  BY DEF GInv
<1> QED BY <1>1, <1>2, <1>3, PTL DEF Spec

-----------------------------------------------------------------------------
\* One step keeps the types, in either mode and with failing updates.
LEMMA WebTypeStep == TypeOK /\ [Next]_vars => TypeOK'
<1> SUFFICES ASSUME TypeOK, [Next]_vars PROVE TypeOK'
  OBVIOUS
<1> USE ConstantsOK DEF TypeOK, Present
<1>f. Free \in [step : {"free"}, by : {Admin}, sid : Sessions, found : {NoHandler}]
  BY DEF Free
<1>1. CASE UNCHANGED vars
  BY <1>1 DEF vars, handlerVars, observerVars
<1>2. ASSUME NEW s \in Sessions, Create(s) \/ SweepDelete(s) \/ Delete(s) PROVE TypeOK'
  BY <1>2 DEF Create, SweepDelete, Delete, SetRow, handlerVars, observerVars
<1>3. ASSUME NEW h \in Handlers, Dial(h) \/ Register(h) \/ ReadFails(h) \/ WriteFails(h)
      PROVE  TypeOK'
  BY <1>3 DEF Dial, Register, ReadFails, WriteFails, Go, observerVars
<1>4. ASSUME NEW h \in Handlers, Update(h) PROVE TypeOK'
  <2>1. row' \in [Sessions -> Present \cup {"none", "deleted"}]
    BY <1>4 DEF Update, SetRow
  <2>2. /\ pc' \in [Handlers -> {"idle", "dial", "register", "update", "loop", "kick",
                                 "leave", "over"}]
        /\ ws' \in [Handlers -> {"none", "open", "closed"}] /\ connect' \subseteq Handlers
    BY <1>4 DEF Update, Go
  <2> QED BY <1>4, <2>1, <2>2 DEF Update, observerVars
<1>5. ASSUME NEW h \in Handlers, ClientLeaves(h) \/ Confirm(h) PROVE TypeOK'
  BY <1>5 DEF ClientLeaves, Confirm, SetRow, handlerVars, observerVars
<1>6. ASSUME NEW h \in Handlers, NEW s \in Sessions, Open(h, s) PROVE TypeOK'
  BY <1>6 DEF Open, Go, observerVars
<1>7. ASSUME NEW by \in Handlers \cup Observers \cup {Admin}, NEW s \in Sessions,
             CloseLock(by, s)
      PROVE  TypeOK'
  BY <1>7 DEF CloseLock, handlerVars, observerVars
<1>8. ASSUME NEW h \in Handlers, HandlerCloses(h) PROVE TypeOK'
  BY <1>7, <1>8 DEF HandlerCloses
<1>9. ASSUME NEW s \in Sessions, AdminCloses(s) PROVE TypeOK'
  BY <1>7, <1>9 DEF AdminCloses
<1>10. ASSUME NEW o \in Observers, ObserverCloses(o) PROVE TypeOK'
  BY <1>7, <1>10 DEF ObserverCloses
<1>11. CASE CloseSocket \/ CloseClear \/ CloseDelete
  BY <1>11 DEF CloseSocket, CloseClear, CloseDelete, handlerVars, observerVars
<1>12. CASE CloseRecord
  <2>1. row' \in [Sessions -> Present \cup {"none", "deleted"}]
    BY <1>12 DEF CloseRecord, EndRecord
  <2>2. /\ opc' \in [Observers -> {"idle", "join", "watch", "closing", "over"}]
        /\ \A o \in Observers : opc'[o] \in {"join", "watch", "closing"} => opc[o] = opc'[o]
    BY <1>12 DEF CloseRecord
  <2> QED BY <1>f, <1>12, <2>1, <2>2 DEF CloseRecord
<1>13. ASSUME NEW o \in Observers, Join(o) \/ Unwatch(o) \/ ObserverFails(o) PROVE TypeOK'
  BY <1>13 DEF Join, Unwatch, ObserverFails, OGo, handlerVars
<1>14. ASSUME NEW o \in Observers, NEW s \in Sessions, Watch(o, s) PROVE TypeOK'
  BY <1>14 DEF Watch, OGo, handlerVars
<1>15. CASE SweepRead
  BY <1>15 DEF SweepRead, handlerVars, observerVars
<1>16. CASE Restart
  BY <1>f, <1>16 DEF Restart
<1> QED BY <1>1, <1>2, <1>3, <1>4, <1>5, <1>6, <1>8, <1>9, <1>10, <1>11, <1>12, <1>13, <1>14,
           <1>15, <1>16 DEF Next, Steps, Serve, CloseStep

\* Every variable keeps its type, and an observer never goes on with nil.
THEOREM WebTypes == Spec => []TypeOK
<1>1. Init => TypeOK
  BY ConstantsOK DEF Init, TypeOK, Free
<1> QED BY <1>1, WebTypeStep, PTL DEF Spec

\* Where a handler is once its browser may have been told to confirm.
Past == {"loop", "kick", "leave", "over"} \cup (IF Mode = "native" THEN {"register"} ELSE {})

\* Only browsers that were told confirm, and a connected session has a handler
\* that told one.
CInv == /\ TypeOK
        /\ \A h \in connect : pc[h] \in Past
        /\ \A s \in Sessions : row[s] = "connected" =>
             \E h \in Handlers : sid[h] = s /\ pc[h] \in Past

\* Handlers that went past the update stay past it, and no record becomes
\* connected.
LEMMA PastStays ==
  ASSUME CInv, TypeOK', connect' \subseteq connect,
         \A h \in Handlers : pc[h] \in Past => pc'[h] \in Past /\ sid'[h] = sid[h],
         \A s \in Sessions : row'[s] = "connected" => row[s] = "connected"
  PROVE  CInv'
<1>1. Past' = Past /\ connect \subseteq Handlers
  BY DEF Past, CInv, TypeOK
<1> QED BY <1>1 DEF CInv

LEMMA ConfirmedStep == CInv /\ [Next]_vars => CInv'
<1> SUFFICES ASSUME CInv, [Next]_vars PROVE CInv'
  OBVIOUS
<1>t. TypeOK /\ TypeOK'
  BY WebTypeStep DEF CInv
<1>m. Past = IF Mode = "native" THEN {"register", "loop", "kick", "leave", "over"}
             ELSE {"loop", "kick", "leave", "over"}
  BY DEF Past
<1>1. CASE UNCHANGED <<row, pc, sid, connect>>
  BY <1>1, <1>t, PastStays
<1>2. ASSUME NEW s \in Sessions, Create(s) \/ SweepDelete(s) \/ Delete(s) PROVE CInv'
  <2>1. UNCHANGED <<pc, sid, connect>> /\ \A r \in Sessions : row'[r] # row[r] => row'[r] # "connected"
    BY <1>2, <1>t DEF Create, SweepDelete, Delete, SetRow, handlerVars, TypeOK
  <2> QED BY <1>t, <2>1, PastStays
<1>3. ASSUME NEW h \in Handlers, Dial(h) \/ Register(h) \/ ReadFails(h) \/ WriteFails(h)
      PROVE  CInv'
  <2>1. UNCHANGED <<row, sid, connect>>
    BY <1>3 DEF Dial, Register, ReadFails, WriteFails
  <2>2. \A g \in Handlers : pc[g] \in Past => pc'[g] \in Past
    BY <1>3, <1>m, <1>t DEF Dial, Register, ReadFails, WriteFails, Go, TypeOK
  <2> QED BY <1>t, <2>1, <2>2, PastStays
<1>4. ASSUME NEW h \in Handlers, Update(h) PROVE CInv'
  <2>1. pc[h] = "update" /\ h \notin connect /\ UNCHANGED sid
    BY <1>4, <1>m DEF Update, CInv
  <2>2. \A g \in Handlers : pc[g] \in Past => pc'[g] \in Past
    BY <1>4, <1>m, <1>t DEF Update, Go, TypeOK
  <2>3. \A s \in Sessions : row'[s] = "connected" => row[s] = "connected"
    BY <1>4, <1>t DEF Update, SetRow, TypeOK
  <2>4. \A g \in connect' : pc'[g] \in Past
    <3>1. connect' \subseteq connect \/ (connect' = connect \cup {h} /\ pc'[h] \in Past)
      BY <1>4, <1>m, <1>t, ConstantsOK DEF Update, Go, TypeOK
    <3> QED BY <1>t, <2>2, <3>1 DEF CInv, TypeOK
  <2>5. Past' = Past
    BY DEF Past
  <2> QED BY <1>t, <2>1, <2>2, <2>3, <2>4, <2>5 DEF CInv
<1>5. ASSUME NEW h \in Handlers, Confirm(h) PROVE CInv'
  <2>1. /\ UNCHANGED <<pc, sid>> /\ connect' \subseteq connect /\ h \in connect /\ pc[h] \in Past
        /\ \A s \in Sessions : row'[s] = "connected" => row[s] = "connected" \/ s = sid[h]
    BY <1>5, <1>t DEF Confirm, SetRow, handlerVars, CInv, TypeOK
  <2>2. Past' = Past
    BY DEF Past
  <2> QED BY <1>t, <2>1, <2>2 DEF CInv
<1>6. ASSUME NEW h \in Handlers, NEW s \in Sessions, Open(h, s) PROVE CInv'
  <2>1. UNCHANGED <<row, connect>>
    BY <1>6 DEF Open
  <2>2. \A g \in Handlers : pc[g] \in Past => pc'[g] \in Past /\ sid'[g] = sid[g]
    BY <1>6, <1>m, <1>t DEF Open, Go, TypeOK
  <2> QED BY <1>t, <2>1, <2>2, PastStays
<1>7. CASE CloseRecord
  <2>1. UNCHANGED <<sid, connect>>
    BY <1>7 DEF CloseRecord
  <2>2. \A g \in Handlers : pc[g] \in Past => pc'[g] \in Past
    BY <1>7, <1>m DEF CloseRecord
  <2>3. \A s \in Sessions : row'[s] = "connected" => row[s] = "connected"
    BY <1>7, <1>t DEF CloseRecord, EndRecord, TypeOK
  <2> QED BY <1>t, <2>1, <2>2, <2>3, PastStays
<1>8. CASE Restart
  <2>1. connect' = {} /\ \A s \in Sessions : row'[s] # "connected"
    BY <1>8 DEF Restart
  <2> QED BY <1>t, <2>1 DEF CInv
<1>9. CASE \/ CloseSocket \/ CloseClear \/ CloseDelete \/ SweepRead
           \/ \E s \in Sessions : AdminCloses(s)
           \/ \E h \in Handlers : ClientLeaves(h) \/ HandlerCloses(h)
           \/ \E o \in Observers : \/ Join(o) \/ Unwatch(o) \/ ObserverFails(o)
                                   \/ ObserverCloses(o) \/ \E s \in Sessions : Watch(o, s)
  BY <1>1, <1>9 DEF CloseSocket, CloseClear, CloseDelete, SweepRead, AdminCloses, ClientLeaves,
     HandlerCloses, Join, Unwatch, ObserverFails, ObserverCloses, Watch, CloseLock, handlerVars
<1>10. CASE UNCHANGED vars
  BY <1>1, <1>10 DEF vars, handlerVars
<1> QED BY <1>2, <1>3, <1>4, <1>5, <1>6, <1>7, <1>8, <1>9, <1>10
        DEF Next, Steps, Serve, CloseStep

\* A session is listed as connected only if a handler had dialled its backend
\* and written so, in whatever order requests, closes and sweeps arrive.
THEOREM Confirmed == Spec => []ConfirmedWasDialled
<1>1. Init => CInv
  BY ConstantsOK DEF Init, CInv, TypeOK, Free
<1>2. CInv => ConfirmedWasDialled
  BY DEF CInv, Past, ConfirmedWasDialled
<1> QED BY <1>1, <1>2, ConfirmedStep, PTL DEF Spec
=============================================================================
