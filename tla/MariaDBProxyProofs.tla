------------------------ MODULE MariaDBProxyProofs ------------------------
(***************************************************************************)
(* Theorems about MariaDBProxy, for any number of connections and assets.  *)
(* First the accept loop, the handlers and the counts they keep.  Then the *)
(* session records and the SQL log: the records implement AuditedSession,  *)
(* whatever statement the database refuses; a record is Connected only     *)
(* while its handler runs; and the log lags at most one statement behind   *)
(* the backend.                                                            *)
(***************************************************************************)
EXTENDS MariaDBProxy, FiniteSetTheorems, TLAPS

\* The connections Stop waits for, those in the map, those being served.
CountedConns == {c \in Conns : pc[c] \in Counted}
MappedConns  == {c \in Conns : pc[c] \in Mapped}
ServedConns  == {c \in Conns : pc[c] \in Serving}

\* mp.connections holds exactly the connections whose handler is in
\* handleConnection; before the accept loop has started there are none.
MapExact == connections = MappedConns
LoopOff  == loop = "off" => \A c \in Conns : pc[c] \in {"none", "gone"}

\* A handler that is past the login knows its asset.
WantKnown == \A c \in Conns : pc[c] \in InBody \ {"handshake"} => want[c] \in Assets

IInv == TypeOK /\ WaitGroupExact /\ MapExact /\ LoopOff /\ WantKnown /\ LicenceCap

-----------------------------------------------------------------------------
\* The sets of connections are finite.
LEMMA FiniteConns ==
  /\ IsFiniteSet(CountedConns) /\ Cardinality(CountedConns) \in Nat
  /\ IsFiniteSet(ServedConns) /\ Cardinality(ServedConns) \in Nat
<1>1. CountedConns \in SUBSET Conns /\ ServedConns \in SUBSET Conns
  BY DEF CountedConns, ServedConns
<1> QED BY <1>1, ConstantsOK, FS_Subset, FS_CardinalityType

\* Initially nothing is counted, mapped or served.
LEMMA InitIInv == Init => IInv
<1> SUFFICES ASSUME Init PROVE IInv
  OBVIOUS
<1>1. TypeOK
  BY ConstantsOK DEF Init, TypeOK, Places, Over, Targets, NoTarget, Kinds
<1>2. CountedConns = {} /\ MappedConns = {} /\ ServedConns = {}
  BY DEF Init, CountedConns, MappedConns, ServedConns, Counted, Mapped, InBody, Serving
<1>3. WaitGroupExact /\ MapExact /\ LicenceCap
  BY <1>2, FS_EmptySet, ConstantsOK
     DEF Init, WaitGroupExact, MapExact, LicenceCap, CountedConns, ServedConns
<1>4. LoopOff /\ WantKnown
  BY DEF Init, LoopOff, WantKnown, InBody, Serving
<1> QED BY <1>1, <1>3, <1>4 DEF IInv

-----------------------------------------------------------------------------
\* Every handler step goes to a known place.
LEMMA GoType ==
  ASSUME pc \in [Conns -> Places], NEW c \in Conns, NEW p \in Places, Go(c, p)
  PROVE  pc' \in [Conns -> Places]
BY DEF Go

\* The counter cannot pass below zero: Detach finds its connection counted.
LEMMA TypeStep == IInv /\ [Next]_vars => TypeOK'
<1> SUFFICES ASSUME IInv, [Next]_vars PROVE TypeOK'
  OBVIOUS
<1>0. TypeOK /\ ConstantsOK
  BY ConstantsOK DEF IInv
<1>p. {"admitting", "refused", "creating", "registering", "stuck", "handshake", "ssh",
       "source", "record", "choose", "direct", "tunnel", "connect", "dial", "license",
       "serve", "ai", "log", "failing", "detached", "failed", "done", "gone", "none"} = Places
  BY DEF Places, InLoop, Counted, Mapped, InBody, Serving, Ending, Over
<1>g. \A c \in Conns, p \in Places : Go(c, p) => pc' \in [Conns -> Places]
  BY <1>0, GoType DEF TypeOK
<1> USE <1>0, <1>p, <1>g DEF TypeOK, proxyVars, sharedVars, localVars, recordVars,
        sqlVars, BodyUnchanged, Present
<1>1. CASE Start
  BY <1>1 DEF Start
<1>2. CASE LoopEnd \/ StopClose \/ StopCancel \/ StopReturn
  BY <1>2 DEF LoopEnd, StopClose, StopCancel, StopReturn
<1>3. CASE Crash
  BY <1>3 DEF Crash, NoTarget, Targets
<1>4. CASE Restart
  BY <1>4 DEF Restart
<1>5. ASSUME NEW c \in Conns, Loop(c) PROVE TypeOK'
  <2>1. CASE Accept(c)
    BY <2>1 DEF Accept
  <2>2. CASE Admit(c) \/ Register(c)
    BY <2>2 DEF Admit, Register
  <2>3. CASE CreateRow(c)
    BY <2>3 DEF CreateRow
  <2> QED BY <1>5, <2>1, <2>2, <2>3 DEF Loop
<1>6. ASSUME NEW c \in Conns, Handle(c) PROVE TypeOK'
  <2>1. CASE Handshake(c)
    <3>1. CASE Go(c, "failing") /\ UNCHANGED <<want, asset>>
      BY <2>1, <3>1 DEF Handshake
    <3>2. ASSUME NEW a \in Assets, want' = [want EXCEPT ![c] = a],
                 \/ Go(c, "ssh") /\ UNCHANGED asset
                 \/ Go(c, "failing") /\ asset' = [asset EXCEPT ![c] = a]
          PROVE  TypeOK'
      BY <2>1, <3>2 DEF Handshake
    <3> QED BY <2>1, <3>1, <3>2 DEF Handshake
  <2>2. CASE WriteSshConfig(c)
    <3>1. pc[c] = "ssh" => GatewayOf[want[c]] \in Gateways \cup {NoGateway}
      BY DEF ConstantsOK, IInv, WantKnown, InBody
    <3> QED BY <2>2, <3>1 DEF WriteSshConfig
  <2>3. CASE WriteDataSource(c)
    BY <2>3 DEF WriteDataSource
  <2>4. CASE Record(c)
    BY <2>4 DEF Record, UpdateRow
  <2>5. CASE ChooseRoute(c) \/ DialFails(c) \/ CheckLicense(c) \/ AnswerAi(c)
    BY <2>5 DEF ChooseRoute, DialFails, CheckLicense, AnswerAi
  <2>6. CASE ReadTarget(c)
    <3>1. /\ [ds |-> dataSource, ssh |-> NoGateway] \in Targets
          /\ [ds |-> dataSource, ssh |-> sshConfig] \in Targets
      BY DEF Targets
    <3>2. PICK t \in Targets : target' = [target EXCEPT ![c] = t]
      BY <2>6, <3>1 DEF ReadTarget
    <3>3. pc' \in [Conns -> Places]
      BY <2>6 DEF ReadTarget
    <3>4. UNCHANGED <<proxyVars, sharedVars, sock, recordVars, sqlVars, want, asset>>
      BY <2>6 DEF ReadTarget
    <3> QED BY <3>2, <3>3, <3>4
  <2>7. CASE LogSql(c)
    BY <2>7 DEF LogSql
  <2>8. CASE Detach(c)
    <3>1. c \in CountedConns
      BY <2>8 DEF Detach, CountedConns, Counted, Mapped
    <3>2. Cardinality(CountedConns) # 0
      BY <3>1, FiniteConns, FS_EmptySet
    <3>3. wg - 1 \in Nat
      BY <3>2, FiniteConns DEF IInv, WaitGroupExact, CountedConns
    <3> QED BY <2>8, <3>3 DEF Detach, DropLocals, NoTarget, Targets
  <2>9. CASE EndRow(c)
    BY <2>9 DEF EndRow, UpdateOrFail, UpdateRow
  <2>10. CASE ReportError(c)
    BY <2>10 DEF ReportError, UpdateOrFail, UpdateRow
  <2> QED BY <1>6, <2>1, <2>2, <2>3, <2>4, <2>5, <2>6, <2>7, <2>8, <2>9, <2>10 DEF Handle
<1>7. ASSUME NEW c \in Conns, Connected(c) \/ ReadFails(c) PROVE TypeOK'
  BY <1>7 DEF Connected, ReadFails
<1>8. ASSUME NEW c \in Conns, NEW k \in Kinds, Execute(c, k) PROVE TypeOK'
  BY <1>8 DEF Execute
<1>9. ASSUME NEW c \in Conns, ClientCloses(c) \/ ForceDisconnect(c) \/ DeleteRow(c)
      PROVE TypeOK'
  BY <1>9 DEF ClientCloses, ForceDisconnect, DeleteRow
<1>10. CASE UNCHANGED vars
  BY <1>10 DEF vars
<1> QED BY <1>1, <1>2, <1>3, <1>4, <1>5, <1>6, <1>7, <1>8, <1>9, <1>10 DEF Next, Steps

-----------------------------------------------------------------------------
\* A goroutine that moves to p joins or leaves each of the sets.
LEMMA Moves ==
  ASSUME pc \in [Conns -> Places], NEW c \in Conns, NEW p, Go(c, p)
  PROVE  /\ CountedConns' = IF p \in Counted THEN CountedConns \cup {c} ELSE CountedConns \ {c}
         /\ MappedConns' = IF p \in Mapped THEN MappedConns \cup {c} ELSE MappedConns \ {c}
         /\ ServedConns' = IF p \in Serving THEN ServedConns \cup {c} ELSE ServedConns \ {c}
BY DEF Go, CountedConns, MappedConns, ServedConns

\* Where each place lies.
LEMMA Borders ==
  /\ Serving = {"serve", "ai", "log"}
  /\ Mapped = {"handshake", "ssh", "source", "record", "choose", "direct", "tunnel",
               "connect", "dial", "license", "failing", "serve", "ai", "log"}
  /\ Counted = Mapped \cup {"creating", "registering", "stuck"}
  /\ InBody = Mapped \ {"failing"}
BY DEF Serving, Mapped, Counted, InBody

\* The shared counter, the map and the licence, one action at a time.
Books == wg = Cardinality(CountedConns) /\ MapExact /\ Cardinality(ServedConns) <= MaxLive

\* A step that changes neither the books nor who is counted and mapped, and
\* serves nobody new.
LEMMA Still ==
  ASSUME Books, wg' = wg, connections' = connections, CountedConns' = CountedConns,
         MappedConns' = MappedConns, ServedConns' \subseteq ServedConns
  PROVE  Books'
<1>1. Cardinality(ServedConns') <= Cardinality(ServedConns) /\ Cardinality(ServedConns') \in Nat
  BY FiniteConns, FS_Subset, FS_CardinalityType
<1>2. Cardinality(ServedConns') <= MaxLive
  BY <1>1, FiniteConns, ConstantsOK DEF Books
<1> QED BY <1>2 DEF Books, MapExact

\* A goroutine that moves from place to place inside handleConnection, or
\* outside, is such a step; only CheckLicense may begin to serve.
LEMMA Stroll ==
  ASSUME Books, pc \in [Conns -> Places], wg' = wg, connections' = connections,
         NEW c \in Conns, NEW p, Go(c, p), pc[c] \in Counted <=> p \in Counted,
         pc[c] \in Mapped <=> p \in Mapped, p \in Serving => pc[c] \in Serving
  PROVE  Books'
<1>1. CountedConns' = CountedConns
  BY Moves DEF CountedConns
<1>2. MappedConns' = MappedConns
  BY Moves DEF MappedConns
<1>3. ServedConns' \subseteq ServedConns
  BY Moves DEF ServedConns
<1> QED BY <1>1, <1>2, <1>3, Still

LEMMA BooksStep == IInv /\ [Next]_vars => Books'
<1> SUFFICES ASSUME IInv, [Next]_vars PROVE Books'
  OBVIOUS
<1>0. Books /\ pc \in [Conns -> Places] /\ LoopOff /\ connections = MappedConns
  BY DEF IInv, Books, TypeOK, WaitGroupExact, LicenceCap, CountedConns, ServedConns, MapExact
<1>m. \A c \in Conns : c \in MappedConns <=> pc[c] \in Mapped
  BY DEF MappedConns
<1>n. \A c \in Conns : c \in CountedConns <=> pc[c] \in Counted
  BY DEF CountedConns
<1> USE <1>0
<1>1. CASE Start
  <2>1. MappedConns = {}
    BY <1>1, Borders DEF Start, LoopOff, MappedConns
  <2>2. UNCHANGED <<wg, pc>> /\ connections' = connections
    BY <1>1, <2>1 DEF Start
  <2> QED BY <2>2, Still DEF CountedConns, MappedConns, ServedConns
<1>2. CASE LoopEnd \/ StopClose \/ StopCancel \/ StopReturn \/ Restart \/ UNCHANGED vars
  <2>1. UNCHANGED <<wg, connections, pc>>
    BY <1>2 DEF LoopEnd, StopClose, StopCancel, StopReturn, Restart, vars, proxyVars
  <2> QED BY <2>1, Still DEF CountedConns, MappedConns, ServedConns
<1>3. CASE Crash
  <2>1. CountedConns' = {} /\ MappedConns' = {} /\ ServedConns' = {}
    BY <1>3, Borders DEF Crash, CountedConns, MappedConns, ServedConns
  <2> QED BY <1>3, <2>1, FS_EmptySet, ConstantsOK DEF Crash, Books, MapExact
<1>4. ASSUME NEW c \in Conns, Accept(c) \/ CreateRow(c) PROVE Books'
  <2>1. CASE Accept(c)
    <3>1. PICK p \in {"admitting", "refused"} : Go(c, p)
      BY <2>1 DEF Accept
    <3> QED BY <2>1, <3>1, Stroll, Borders DEF Accept, proxyVars
  <2>2. CASE CreateRow(c)
    <3>1. PICK p \in {"registering", "stuck"} : Go(c, p)
      BY <2>2 DEF CreateRow
    <3> QED BY <2>2, <3>1, Stroll, Borders DEF CreateRow
  <2> QED BY <1>4, <2>1, <2>2
\* The counter goes up as the connection is counted ...
<1>5. ASSUME NEW c \in Conns, Admit(c) PROVE Books'
  <2>1. /\ CountedConns' = CountedConns \cup {c} /\ c \notin CountedConns
        /\ MappedConns' = MappedConns /\ ServedConns' \subseteq ServedConns
    BY <1>5, <1>m, <1>n, Moves, Borders DEF Admit, MappedConns
  <2>2. Cardinality(CountedConns') = Cardinality(CountedConns) + 1
    BY <2>1, FiniteConns, FS_AddElement
  <2>3. Cardinality(ServedConns') <= MaxLive
    BY <2>1, FiniteConns, FS_Subset, FS_CardinalityType, ConstantsOK DEF Books
  <2> QED BY <1>5, <2>1, <2>2, <2>3 DEF Admit, Books, MapExact
\* ... the map grows as the handler is spawned ...
<1>6. ASSUME NEW c \in Conns, Register(c) PROVE Books'
  <2>1. /\ CountedConns' = CountedConns /\ MappedConns' = MappedConns \cup {c}
        /\ ServedConns' \subseteq ServedConns
    BY <1>6, <1>n, Moves, Borders DEF Register, CountedConns
  <2>2. Cardinality(ServedConns') <= MaxLive
    BY <2>1, FiniteConns, FS_Subset, FS_CardinalityType, ConstantsOK DEF Books
  <2> QED BY <1>6, <2>1, <2>2 DEF Register, Books, MapExact
\* ... and both go down together in the deferred function.
<1>7. ASSUME NEW c \in Conns, Detach(c) PROVE Books'
  <2>1. /\ CountedConns' = CountedConns \ {c} /\ c \in CountedConns
        /\ MappedConns' = MappedConns \ {c} /\ ServedConns' \subseteq ServedConns
    BY <1>7, <1>n, Moves, Borders DEF Detach
  <2>2. Cardinality(CountedConns') = Cardinality(CountedConns) - 1
    BY <2>1, FiniteConns, FS_RemoveElement
  <2>3. Cardinality(ServedConns') <= MaxLive
    BY <2>1, FiniteConns, FS_Subset, FS_CardinalityType, ConstantsOK DEF Books
  <2> QED BY <1>7, <2>1, <2>2, <2>3 DEF Detach, Books, MapExact
\* Whoever is served is in the map, the newcomer too: if the map is within
\* the licence, so are those served.
<1>8. ASSUME NEW c \in Conns, CheckLicense(c) PROVE Books'
  <2>1. CASE Cardinality(connections) > MaxLive
    BY <1>8, <2>1, Stroll, Borders DEF CheckLicense, BodyUnchanged, proxyVars
  <2>2. CASE ~(Cardinality(connections) > MaxLive)
    <3>1. Go(c, "serve") /\ wg' = wg /\ connections' = connections
      BY <1>8, <2>2 DEF CheckLicense, BodyUnchanged, proxyVars
    <3>2. /\ CountedConns' = CountedConns /\ MappedConns' = MappedConns
          /\ ServedConns' = ServedConns \cup {c} /\ c \in MappedConns
      BY <1>8, <3>1, <1>m, <1>n, Moves, Borders DEF CheckLicense, CountedConns, MappedConns
    <3>3. ServedConns \subseteq MappedConns /\ MappedConns \in SUBSET Conns
      BY Borders DEF ServedConns, MappedConns
    <3>4. /\ Cardinality(ServedConns') <= Cardinality(MappedConns)
          /\ Cardinality(MappedConns) \in Nat /\ Cardinality(ServedConns') \in Nat
      BY <3>2, <3>3, ConstantsOK, FS_Subset, FS_CardinalityType
    <3>5. Cardinality(ServedConns') <= MaxLive
      BY <2>2, <3>4, ConstantsOK
    <3> QED BY <3>1, <3>2, <3>5 DEF Books, MapExact
  <2> QED BY <2>1, <2>2
<1>9. ASSUME NEW c \in Conns, ReportError(c) PROVE Books'
  <2>1. Go(c, "done") /\ wg' = wg /\ pc[c] = "failed" /\ connections' = connections
    BY <1>9, <1>m, Borders DEF ReportError
  <2> QED BY <2>1, Stroll, Borders
<1>10. ASSUME NEW c \in Conns, \/ Handshake(c) \/ WriteSshConfig(c) \/ WriteDataSource(c)
                               \/ Record(c) \/ ChooseRoute(c) \/ ReadTarget(c)
       PROVE  Books'
  <2>1. PICK p \in Mapped \ Serving : Go(c, p)
    BY <1>10, Borders DEF Handshake, WriteSshConfig, WriteDataSource, Record, ChooseRoute, ReadTarget
  <2>2. pc[c] \in Mapped /\ UNCHANGED proxyVars
    BY <1>10, Borders DEF Handshake, WriteSshConfig, WriteDataSource, Record, ChooseRoute,
                          ReadTarget, BodyUnchanged
  <2> QED BY <2>1, <2>2, Stroll, Borders DEF proxyVars
<1>11. ASSUME NEW c \in Conns, \/ DialFails(c) \/ AnswerAi(c) \/ LogSql(c) \/ Connected(c)
                               \/ ReadFails(c) \/ \E k \in Kinds : Execute(c, k)
       PROVE  Books'
  <2>1. PICK p \in Mapped : Go(c, p) /\ (p \in Serving => pc[c] \in Serving)
    BY <1>11, Borders DEF DialFails, AnswerAi, LogSql, Connected, ReadFails, Execute
  <2>2. pc[c] \in Mapped /\ UNCHANGED proxyVars
    BY <1>11, Borders DEF DialFails, AnswerAi, LogSql, Connected, ReadFails, Execute, BodyUnchanged
  <2> QED BY <2>1, <2>2, Stroll, Borders DEF proxyVars
<1>12. ASSUME NEW c \in Conns, EndRow(c) PROVE Books'
  BY <1>12, Stroll, Borders DEF EndRow, proxyVars
<1>13. ASSUME NEW c \in Conns, ClientCloses(c) \/ ForceDisconnect(c) \/ DeleteRow(c)
       PROVE  Books'
  <2>1. UNCHANGED <<wg, connections, pc>>
    BY <1>13 DEF ClientCloses, ForceDisconnect, DeleteRow, proxyVars
  <2> QED BY <2>1, Still DEF CountedConns, MappedConns, ServedConns
<1> QED BY <1>1, <1>2, <1>3, <1>4, <1>5, <1>6, <1>7, <1>8, <1>9, <1>10, <1>11, <1>12, <1>13
        DEF Next, Steps, Loop, Handle

\* Only Crash turns the loop off; while it is off no goroutine takes a step.
LEMMA LoopOffStep == IInv /\ [Next]_vars => LoopOff'
<1> SUFFICES ASSUME IInv, [Next]_vars, loop' = "off" PROVE \A d \in Conns : pc'[d] \in {"none", "gone"}
  BY DEF LoopOff
<1>1. CASE Crash
  BY <1>1 DEF Crash
<1>2. CASE UNCHANGED <<loop, pc>>
  BY <1>2 DEF IInv, LoopOff
<1>3. ASSUME NEW c \in Conns, pc[c] \notin {"none", "gone"}, UNCHANGED loop PROVE FALSE
  BY <1>3 DEF IInv, LoopOff
<1>4. CASE Start \/ LoopEnd \/ StopClose \/ StopCancel \/ StopReturn \/ Restart \/ UNCHANGED vars
  BY <1>2, <1>4 DEF Start, LoopEnd, StopClose, StopCancel, StopReturn, Restart, vars, proxyVars
<1>5. ASSUME NEW c \in Conns, Loop(c) PROVE FALSE
  BY <1>3, <1>5 DEF Loop, Accept, Admit, CreateRow, Register, LoopFree, proxyVars
<1>6. ASSUME NEW c \in Conns, Handle(c) PROVE FALSE
  BY <1>3, <1>6 DEF Handle, Handshake, WriteSshConfig, WriteDataSource, Record, ChooseRoute,
     ReadTarget, DialFails, CheckLicense, AnswerAi, LogSql, Detach, EndRow, ReportError,
     BodyUnchanged, proxyVars
<1>7. ASSUME NEW c \in Conns, Connected(c) \/ ReadFails(c) \/ \E k \in Kinds : Execute(c, k)
      PROVE FALSE
  BY <1>3, <1>7 DEF Connected, ReadFails, Execute, BodyUnchanged, proxyVars
<1>8. ASSUME NEW c \in Conns, ClientCloses(c) \/ ForceDisconnect(c) \/ DeleteRow(c)
      PROVE UNCHANGED <<loop, pc>>
  BY <1>8 DEF ClientCloses, ForceDisconnect, DeleteRow, proxyVars
<1> QED BY <1>1, <1>2, <1>4, <1>5, <1>6, <1>7, <1>8 DEF Next, Steps

\* Handshake alone opens the body, with the asset of the login; the local
\* keeps its value until the deferred function runs.
LEMMA WantStep == IInv /\ [Next]_vars => WantKnown'
<1> SUFFICES ASSUME IInv, [Next]_vars,
                    NEW d \in Conns, pc'[d] \in InBody \ {"handshake"}
             PROVE  want'[d] \in Assets
  BY DEF WantKnown
<1>0. /\ pc \in [Conns -> Places] /\ want \in [Conns -> Assets \cup {NoAsset}]
      /\ pc[d] \in InBody \ {"handshake"} => want[d] \in Assets
  BY DEF IInv, TypeOK, WantKnown
<1>1. CASE want' = want /\ pc[d] \in InBody \ {"handshake"}
  BY <1>0, <1>1
<1>2. CASE UNCHANGED <<want, pc>>
  BY <1>1, <1>2
<1>3. CASE Start \/ LoopEnd \/ StopClose \/ StopCancel \/ StopReturn \/ Restart \/ UNCHANGED vars
  BY <1>2, <1>3 DEF Start, LoopEnd, StopClose, StopCancel, StopReturn, Restart, vars, localVars
<1>4. CASE Crash
  BY <1>4, Borders DEF Crash
<1>5. ASSUME NEW c \in Conns, Loop(c) PROVE want'[d] \in Assets
  <2>1. want' = want /\ \E p \in {"admitting", "refused", "creating", "registering", "stuck",
                                  "handshake"} : Go(c, p)
    BY <1>5 DEF Loop, Accept, Admit, CreateRow, Register, localVars
  <2> QED BY <1>0, <1>1, <2>1, Borders DEF Go
<1>6. ASSUME NEW c \in Conns, Handshake(c) PROVE want'[d] \in Assets
  <2>1. PICK p \in {"ssh", "failing"} :
          Go(c, p) /\ (p = "ssh" => \E a \in Assets : want' = [want EXCEPT ![c] = a])
    BY <1>6 DEF Handshake
  <2>2. want' = want \/ \E a \in Assets : want' = [want EXCEPT ![c] = a]
    BY <1>6 DEF Handshake
  <2>3. CASE c = d
    BY <1>0, <2>1, <2>3, Borders DEF Go
  <2>4. CASE c # d
    BY <1>0, <2>1, <2>2, <2>4, Borders DEF Go
  <2> QED BY <2>3, <2>4
<1>7. ASSUME NEW c \in Conns,
             \/ WriteSshConfig(c) \/ WriteDataSource(c) \/ Record(c) \/ ChooseRoute(c)
             \/ ReadTarget(c) \/ DialFails(c) \/ CheckLicense(c) \/ AnswerAi(c) \/ LogSql(c)
             \/ Connected(c) \/ ReadFails(c) \/ \E k \in Kinds : Execute(c, k)
      PROVE  want'[d] \in Assets
  <2>1. want' = want /\ pc[c] \in InBody \ {"handshake"} /\ \E p \in Mapped : Go(c, p)
    BY <1>7, Borders DEF WriteSshConfig, WriteDataSource, Record, ChooseRoute, ReadTarget,
       DialFails, CheckLicense, AnswerAi, LogSql, Connected, ReadFails, Execute,
       BodyUnchanged, localVars
  <2> QED BY <1>0, <1>1, <2>1 DEF Go
<1>8. ASSUME NEW c \in Conns, Detach(c) \/ EndRow(c) \/ ReportError(c)
      PROVE  want'[d] \in Assets
  <2>1. /\ \E p \in {"detached", "failed", "done"} : Go(c, p)
        /\ want' = want \/ want' = [want EXCEPT ![c] = NoAsset]
    BY <1>8 DEF Detach, EndRow, ReportError, DropLocals, localVars
  <2> QED BY <1>0, <2>1, Borders DEF Go
<1>9. ASSUME NEW c \in Conns, ClientCloses(c) \/ ForceDisconnect(c) \/ DeleteRow(c)
      PROVE  UNCHANGED <<want, pc>>
  BY <1>9 DEF ClientCloses, ForceDisconnect, DeleteRow, localVars
<1> QED BY <1>2, <1>3, <1>4, <1>5, <1>6, <1>7, <1>8, <1>9 DEF Next, Steps, Handle

-----------------------------------------------------------------------------
\* The invariant is inductive, and so holds of every behaviour of the proxy.
LEMMA Inductive == Spec => []IInv
<1>1. IInv /\ [Next]_vars => IInv'
  <2>1. Books' => WaitGroupExact' /\ MapExact' /\ LicenceCap'
    BY DEF Books, WaitGroupExact, LicenceCap, CountedConns, ServedConns
  <2> QED BY <2>1, TypeStep, BooksStep, LoopOffStep, WantStep DEF IInv
<1> QED BY InitIInv, <1>1, PTL DEF Spec

\* Every variable of the proxy keeps its type; that wg is a natural number
\* means connManager.Done never panics on a negative counter.
THEOREM TypeCorrect == Spec => []TypeOK
<1>1. IInv => TypeOK
  BY DEF IInv
<1> QED BY <1>1, Inductive, PTL

\* The counter of mp.connManager is exact however the accept loop, the
\* handlers, Stop and a crash interleave, and whatever the database refuses.
THEOREM WaitGroup == Spec => []WaitGroupExact
<1>1. IInv => WaitGroupExact
  BY DEF IInv
<1> QED BY <1>1, Inductive, PTL

\* CheckLicense counts before it admits, without a lock, and yet never more
\* than the licensed number of connections are served.
THEOREM Licence == Spec => []LicenceCap
<1>1. IInv => LicenceCap
  BY DEF IInv
<1> QED BY <1>1, Inductive, PTL

\* connManager.Wait in Stop returns only when no handler is left inside
\* handleConnection.
THEOREM Drained == Spec => StopDrains
<1>1. IInv /\ [Next]_vars => [stop = "waiting" /\ stop' = "stopped" =>
                                \A c \in Conns : pc'[c] \notin Mapped]_vars
  <2> SUFFICES ASSUME IInv, [Next]_vars, stop = "waiting", stop' = "stopped"
               PROVE  \A c \in Conns : pc'[c] \notin Mapped
    OBVIOUS
  <2>1. StopReturn
    BY DEF Next, Steps, Loop, Handle, Start, LoopEnd, StopClose, StopCancel, Crash, Restart,
       Accept, Admit, CreateRow, Register, Handshake, WriteSshConfig, WriteDataSource, Record,
       ChooseRoute, ReadTarget, DialFails, CheckLicense, AnswerAi, LogSql, Detach, EndRow,
       ReportError, Connected, ReadFails, Execute, ClientCloses, ForceDisconnect, DeleteRow,
       BodyUnchanged, proxyVars, vars
  <2>2. Cardinality(CountedConns) = 0 /\ pc' = pc
    BY <2>1 DEF StopReturn, IInv, WaitGroupExact, CountedConns
  <2>3. CountedConns = {}
    BY <2>2, FiniteConns, FS_EmptySet
  <2> QED BY <2>2, <2>3, Borders DEF CountedConns
<1> QED BY <1>1, Inductive, PTL DEF Spec, StopDrains

-----------------------------------------------------------------------------
\* The session records and the SQL log.

\* Before the record is inserted; from the insertion to the login.
Early == {"none", "refused", "admitting", "creating", "stuck"}
Login == {"registering", "handshake", "ssh", "source", "record"}

\* Until the handler records the login the record is as the accept loop
\* inserted it, or deleted by the administrator; and at no time does it name
\* another asset than the session in memory.
RecordOf(c) ==
  /\ pc[c] \in Early => row[c] = "none"
  /\ pc[c] \in Login => row[c] \in {"connecting", "deleted"}
  /\ pc[c] \in Early \cup Login => rowAsset[c] = NoAsset
  /\ pc[c] \notin {"done", "gone"} => rowAsset[c] \in {NoAsset, asset[c]}

\* A statement is missing from the log only between its execution and the
\* call that logs it, or after that call has failed.
Missing(c) == ran[c]["sql"] - logged[c]
LogOf(c) ==
  /\ Missing(c) \in {0, 1}
  /\ pc[c] = "log" => Missing(c) = 1
  /\ pc[c] \notin {"log", "failing"} \cup Ending \cup {"done", "gone"} => Missing(c) = 0

RInv == IInv /\ \A c \in Conns : RecordOf(c)

-----------------------------------------------------------------------------
\* A step that leaves a connection and its record alone keeps its invariant.
LEMMA RecordStill ==
  ASSUME NEW d, RecordOf(d), pc'[d] = pc[d], row'[d] = row[d], rowAsset'[d] = rowAsset[d],
         asset'[d] = asset[d]
  PROVE  RecordOf(d)'
BY DEF RecordOf

\* UpdateById writes this record alone, keeps its asset or replaces it.
LEMMA Written ==
  ASSUME TypeOK, NEW c \in Conns, NEW status \in Present, NEW a \in Assets \cup {NoAsset},
         UpdateRow(c, status, a)
  PROVE  /\ row'[c] = IF row[c] \in Present THEN status ELSE row[c]
         /\ rowAsset'[c] \in {rowAsset[c], a}
         /\ \A d \in Conns \ {c} : row'[d] = row[d] /\ rowAsset'[d] = rowAsset[d]
BY DEF TypeOK, UpdateRow, recordVars

\* Each write to the record finds it as the handler left it.
LEMMA RecordStep == RInv /\ [Next]_vars => \A d \in Conns : RecordOf(d)'
<1> SUFFICES ASSUME RInv, [Next]_vars, NEW d \in Conns PROVE RecordOf(d)'
  OBVIOUS
<1>0. TypeOK /\ RecordOf(d) /\ \A c \in Conns : RecordOf(c)
  BY DEF RInv, IInv
<1>t. /\ pc \in [Conns -> Places] /\ asset \in [Conns -> Assets \cup {NoAsset}]
      /\ row \in [Conns -> Present \cup {"none", "deleted"}]
      /\ rowAsset \in [Conns -> Assets \cup {NoAsset}]
  BY <1>0 DEF TypeOK
<1>s. CASE UNCHANGED <<pc, asset, row, rowAsset>>
  BY <1>0, <1>s, RecordStill
<1>1. CASE Start \/ LoopEnd \/ StopClose \/ StopCancel \/ StopReturn \/ UNCHANGED vars
  BY <1>1, <1>s DEF Start, LoopEnd, StopClose, StopCancel, StopReturn, vars, localVars, recordVars
<1>2. CASE Crash
  BY <1>0, <1>t, <1>2 DEF Crash, RecordOf, Early, Login, recordVars
<1>3. CASE Restart
  BY <1>0, <1>t, <1>3 DEF Restart, RecordOf, Early, Login, localVars
<1>4. ASSUME NEW c \in Conns, Loop(c) PROVE RecordOf(d)'
  <2>1. CASE c # d
    BY <1>0, <1>4, <1>t, <2>1, RecordStill DEF Loop, Accept, Admit, CreateRow, Register, Go,
       recordVars, localVars
  <2>2. CASE c = d
    BY <1>0, <1>4, <1>t, <2>2 DEF Loop, Accept, Admit, CreateRow, Register, Go, RecordOf,
       Early, Login, recordVars, localVars
  <2> QED BY <2>1, <2>2
<1>5. ASSUME NEW c \in Conns, Handshake(c) PROVE RecordOf(d)'
  <2>1. CASE c # d
    BY <1>0, <1>5, <1>t, <2>1, RecordStill DEF Handshake, Go, BodyUnchanged, recordVars
  <2>2. CASE c = d
    BY <1>0, <1>5, <1>t, <2>2 DEF Handshake, Go, BodyUnchanged, RecordOf, Early, Login, recordVars
  <2> QED BY <2>1, <2>2
<1>6. ASSUME NEW c \in Conns, Record(c) PROVE RecordOf(d)'
  <2>1. want[c] \in Assets \cup {NoAsset}
    BY <1>0 DEF TypeOK
  <2>2. /\ pc[c] = "record" /\ asset' = [asset EXCEPT ![c] = want[c]]
        /\ \/ UpdateRow(c, "connected", want[c]) /\ Go(c, "choose")
           \/ UNCHANGED recordVars /\ Go(c, "failing")
    BY <1>6 DEF Record
  <2>3. /\ rowAsset'[c] \in {rowAsset[c], want[c]}
        /\ \A e \in Conns \ {c} : row'[e] = row[e] /\ rowAsset'[e] = rowAsset[e]
    BY <1>0, <2>1, <2>2, Written DEF recordVars, Present
  <2>4. CASE c # d
    BY <1>0, <1>t, <2>2, <2>3, <2>4, RecordStill DEF Go
  <2>5. CASE c = d
    BY <1>0, <1>t, <2>2, <2>3, <2>5 DEF Go, RecordOf, Early, Login
  <2> QED BY <2>4, <2>5
<1>7. ASSUME NEW c \in Conns,
             \/ WriteSshConfig(c) \/ WriteDataSource(c) \/ ChooseRoute(c)
             \/ ReadTarget(c) \/ DialFails(c) \/ CheckLicense(c) \/ AnswerAi(c) \/ LogSql(c)
             \/ Connected(c) \/ ReadFails(c) \/ Detach(c) \/ \E k \in Kinds : Execute(c, k)
      PROVE  RecordOf(d)'
  <2>1. UNCHANGED <<asset, recordVars>>
    BY <1>7 DEF WriteSshConfig, WriteDataSource, ChooseRoute, ReadTarget, DialFails,
       CheckLicense, AnswerAi, LogSql, Connected, ReadFails, Detach, Execute, BodyUnchanged,
       localVars
  <2>2. pc[c] \in Mapped /\ \E p \in Mapped \cup {"detached"} :
          Go(c, p) /\ (p \in Login => pc[c] \in Login)
    BY <1>7, Borders DEF WriteSshConfig, WriteDataSource, ChooseRoute, ReadTarget, DialFails,
       CheckLicense, AnswerAi, LogSql, Connected, ReadFails, Detach, Execute, Login
  <2>3. CASE c # d
    BY <1>0, <1>t, <2>1, <2>2, <2>3, RecordStill DEF Go, recordVars
  <2>4. CASE c = d
    BY <1>0, <1>t, <2>1, <2>2, <2>4, Borders DEF Go, RecordOf, Early, Login, recordVars
  <2> QED BY <2>3, <2>4
<1>8. ASSUME NEW c \in Conns, EndRow(c) \/ ReportError(c) PROVE RecordOf(d)'
  <2>1. /\ pc[c] \in {"detached", "failed"}
        /\ \/ UpdateRow(c, "disconnected", asset[c]) \/ UNCHANGED recordVars
        /\ \/ Go(c, "failed") /\ asset' = asset
           \/ Go(c, "done") /\ asset' = [asset EXCEPT ![c] = NoAsset]
    BY <1>8 DEF EndRow, ReportError, UpdateOrFail, localVars
  <2>2. /\ rowAsset'[c] \in {rowAsset[c], asset[c]}
        /\ \A e \in Conns \ {c} : row'[e] = row[e] /\ rowAsset'[e] = rowAsset[e]
    BY <1>0, <1>t, <2>1, Written DEF recordVars, Present
  <2>3. CASE c # d
    BY <1>0, <1>t, <2>1, <2>2, <2>3, RecordStill DEF Go
  <2>4. CASE c = d
    BY <1>0, <1>t, <2>1, <2>2, <2>4 DEF Go, RecordOf, Early, Login
  <2> QED BY <2>3, <2>4
<1>9. ASSUME NEW c \in Conns, ClientCloses(c) \/ ForceDisconnect(c) \/ DeleteRow(c)
      PROVE  RecordOf(d)'
  BY <1>0, <1>t, <1>9 DEF ClientCloses, ForceDisconnect, DeleteRow, RecordOf, Early, Login,
     localVars, recordVars, Present
<1> QED BY <1>1, <1>2, <1>3, <1>4, <1>5, <1>6, <1>7, <1>8, <1>9 DEF Next, Steps, Handle

\* The records stay within the invariant.
LEMMA RecordsInductive == Spec => []RInv
<1>1. Init => \A c \in Conns : RecordOf(c)
  BY DEF Init, RecordOf, Early, Login
<1>2. Init => RInv
  BY <1>1, InitIInv DEF RInv
<1>3. RInv /\ IInv' /\ [Next]_vars => RInv'
  BY RecordStep DEF RInv
<1> QED BY <1>2, <1>3, Inductive, PTL DEF Spec

-----------------------------------------------------------------------------
\* UpdateById is a step of the promise, or none: the record becomes Connected
\* from Connecting with the asset of the login ...
LEMMA BindStep ==
  ASSUME RInv, NEW c \in Conns, pc[c] = "record", UpdateRow(c, "connected", want[c])
  PROVE  (Abs!Bind(c, want[c]) /\ want[c] \in Assets) \/ UNCHANGED recordVars
BY Borders DEF RInv, IInv, WantKnown, RecordOf, Login, UpdateRow, Abs!Bind, Present, ConstantsOK,
   TypeOK

\* ... and Disconnected from anything, with the asset it had or its first.
LEMMA FinishStep ==
  ASSUME RInv, NEW c \in Conns, pc[c] \notin {"done", "gone"},
         UpdateRow(c, "disconnected", asset[c])
  PROVE  Abs!Finish(c) \/ UNCHANGED recordVars
<1>0. /\ rowAsset \in [Conns -> Assets \cup {NoAsset}] /\ asset[c] \in Assets \cup {NoAsset}
      /\ rowAsset[c] \in {NoAsset, asset[c]}
  BY DEF RInv, IInv, TypeOK, RecordOf
<1>1. CASE row[c] \notin Present
  BY <1>1 DEF UpdateRow
<1>2. CASE row[c] \in Present
  <2>1. /\ row' = [row EXCEPT ![c] = "disconnected"]
        /\ rowAsset' = [rowAsset EXCEPT ![c] = IF asset[c] = NoAsset THEN @ ELSE asset[c]]
    BY <1>2 DEF UpdateRow
  <2>2. CASE asset[c] = rowAsset[c] \/ asset[c] = NoAsset
    <3>1. rowAsset' = rowAsset
      BY <1>0, <2>1, <2>2
    <3> QED BY <1>2, <2>1, <3>1 DEF Abs!Finish, Abs!Present, Present
  <2>3. CASE rowAsset[c] = NoAsset /\ asset[c] \in Assets /\ asset[c] # NoAsset
    BY <1>2, <2>1, <2>3 DEF Abs!Finish, Abs!Present, Present
  <2> QED BY <1>0, <2>2, <2>3
<1> QED BY <1>1, <1>2

\* Every action of the proxy writes at most one record, as the promise
\* allows; the repair at start-up finishes several.
LEMMA PromiseStep == RInv /\ [Next]_vars => [Abs!Next]_(Abs!vars)
<1> SUFFICES ASSUME RInv, [Next]_vars PROVE Abs!Next \/ UNCHANGED recordVars
  BY DEF Abs!vars, recordVars
<1>1. CASE \/ Start \/ LoopEnd \/ StopClose \/ StopCancel \/ StopReturn \/ Crash \/ UNCHANGED vars
  BY <1>1 DEF Start, LoopEnd, StopClose, StopCancel, StopReturn, Crash, vars
<1>2. CASE Restart
  BY <1>2 DEF Restart, Abs!Next, Abs!FinishAll
<1>3. ASSUME NEW c \in Conns, Loop(c) PROVE Abs!Next \/ UNCHANGED recordVars
  <2>1. CASE CreateRow(c)
    <3>1. row[c] = "none"
      BY <2>1 DEF CreateRow, RInv, RecordOf, Early
    <3> QED BY <2>1, <3>1 DEF CreateRow, Abs!Next, Abs!Open, recordVars
  <2> QED BY <1>3, <2>1 DEF Loop, Accept, Admit, Register
<1>4. ASSUME NEW c \in Conns, Record(c) PROVE Abs!Next \/ UNCHANGED recordVars
  <2>1. CASE UpdateRow(c, "connected", want[c])
    BY <1>4, <2>1, BindStep DEF Record, Abs!Next
  <2> QED BY <1>4, <2>1 DEF Record
<1>5. ASSUME NEW c \in Conns, EndRow(c) \/ ReportError(c)
      PROVE  Abs!Next \/ UNCHANGED recordVars
  <2>1. CASE UpdateRow(c, "disconnected", asset[c])
    <3>1. pc[c] \notin {"done", "gone"}
      BY <1>5 DEF EndRow, ReportError
    <3> QED BY <2>1, <3>1, FinishStep DEF Abs!Next
  <2> QED BY <1>5, <2>1 DEF EndRow, ReportError, UpdateOrFail
<1>6. ASSUME NEW c \in Conns,
             \/ Handshake(c) \/ WriteSshConfig(c) \/ WriteDataSource(c) \/ ChooseRoute(c)
             \/ ReadTarget(c) \/ DialFails(c) \/ CheckLicense(c) \/ AnswerAi(c) \/ LogSql(c)
             \/ Connected(c) \/ ReadFails(c) \/ Detach(c) \/ ClientCloses(c)
             \/ \E k \in Kinds : Execute(c, k)
      PROVE  UNCHANGED recordVars
  BY <1>6 DEF Handshake, WriteSshConfig, WriteDataSource, ChooseRoute, ReadTarget, DialFails,
     CheckLicense, AnswerAi, LogSql, Connected, ReadFails, Detach, ClientCloses, Execute,
     BodyUnchanged
<1>7. ASSUME NEW c \in Conns, ForceDisconnect(c) PROVE Abs!Next
  <2>1. CASE row[c] = "connecting"
    <3>1. Abs!Purge(c)
      BY <1>7, <2>1 DEF ForceDisconnect, Abs!Purge, Abs!Present, RInv, IInv, TypeOK
    <3> QED BY <3>1 DEF Abs!Next
  <2>2. CASE row[c] = "connected"
    <3>1. Abs!Finish(c)
      BY <1>7, <2>2 DEF ForceDisconnect, Abs!Finish, Abs!Present, RInv, IInv, TypeOK
    <3> QED BY <3>1 DEF Abs!Next
  <2> QED BY <1>7, <2>1, <2>2 DEF ForceDisconnect
<1>8. ASSUME NEW c \in Conns, DeleteRow(c) PROVE Abs!Next
  BY <1>8 DEF DeleteRow, Abs!Next, Abs!Purge, Abs!Present, Present
<1> QED BY <1>1, <1>2, <1>3, <1>4, <1>5, <1>6, <1>7, <1>8 DEF Next, Steps, Handle

\* The proxy implements AuditedSession: no interleaving of handlers, Stop,
\* the session API, failing statements and restarts revives a record that
\* was closed or deleted, or changes the asset a record names.
THEOREM PromiseKept == Spec => KeepsPromise
<1>1. Init => Abs!Init
  BY DEF Init, Abs!Init
<1> QED BY <1>1, PromiseStep, RecordsInductive, PTL DEF Spec, KeepsPromise, Abs!Spec

-----------------------------------------------------------------------------
\* While the process is down no goroutine exists.
DownQuiet == ~up => loop = "off"

\* The places from the update of the record to the deferred one.
Recorded == (InBody \cup {"failing", "detached"}) \ {"handshake", "ssh", "source", "record"}
LiveOf(c) == up /\ "update" \notin Faults /\ row[c] = "connected" => pc[c] \in Recorded
LInv == RInv /\ DownQuiet /\ \A c \in Conns : LiveOf(c)

\* A process that is down starts no goroutine before Restart.
LEMMA DownStep == RInv /\ DownQuiet /\ [Next]_vars => DownQuiet'
<1> SUFFICES ASSUME RInv, DownQuiet, [Next]_vars, ~up' PROVE loop' = "off"
  BY DEF DownQuiet
<1>0. loop = "off" => \A c \in Conns : pc[c] \in {"none", "gone"}
  BY DEF RInv, IInv, LoopOff
<1>1. CASE Start \/ LoopEnd \/ StopClose \/ StopCancel \/ StopReturn \/ Restart \/ Crash \/ UNCHANGED vars
  BY <1>1 DEF DownQuiet, Start, LoopEnd, LoopFree, StopClose, StopCancel, StopReturn, Restart,
     Crash, vars, proxyVars
<1>2. ASSUME NEW c \in Conns, Loop(c) PROVE loop' = "off"
  BY <1>0, <1>2 DEF DownQuiet, Loop, Accept, Admit, CreateRow, Register, LoopFree, proxyVars
<1>3. ASSUME NEW c \in Conns, Handle(c) \/ Connected(c) \/ ReadFails(c) \/ ClientCloses(c)
                              \/ ForceDisconnect(c) \/ DeleteRow(c)
                              \/ \E k \in Kinds : Execute(c, k)
      PROVE  loop' = "off"
  BY <1>3 DEF DownQuiet, Handle, Handshake, WriteSshConfig, WriteDataSource, Record, ChooseRoute,
     ReadTarget, DialFails, CheckLicense, AnswerAi, LogSql, Detach, EndRow, ReportError,
     Connected, ReadFails, ClientCloses, ForceDisconnect, DeleteRow, Execute,
     BodyUnchanged, proxyVars
<1> QED BY <1>1, <1>2, <1>3 DEF Next, Steps

\* Only the handler in the body makes a record Connected, and the deferred
\* update or the repair at start-up undoes it.
LEMMA LiveStep == LInv /\ [Next]_vars => \A d \in Conns : LiveOf(d)'
<1> SUFFICES ASSUME LInv, [Next]_vars, NEW d \in Conns, up', "update" \notin Faults,
                    row'[d] = "connected"
             PROVE  pc'[d] \in Recorded
  BY DEF LiveOf
<1>0. TypeOK /\ LiveOf(d)
  BY DEF LInv, RInv, IInv
<1>t. /\ pc \in [Conns -> Places] /\ asset \in [Conns -> Assets \cup {NoAsset}]
      /\ row \in [Conns -> Present \cup {"none", "deleted"}]
      /\ want \in [Conns -> Assets \cup {NoAsset}]
  BY <1>0 DEF TypeOK
<1>r. Recorded = {"choose", "direct", "tunnel", "connect", "dial", "license", "serve", "ai",
                  "log", "failing", "detached"}
  BY DEF Recorded, InBody, Serving
<1>s. ASSUME up' = up, row'[d] = row[d], pc[d] \in Recorded => pc'[d] \in Recorded
      PROVE  pc'[d] \in Recorded
  BY <1>0, <1>s DEF LiveOf
<1>1. CASE \/ Start \/ LoopEnd \/ StopClose \/ StopCancel \/ StopReturn \/ UNCHANGED vars
  BY <1>1, <1>s DEF Start, LoopEnd, StopClose, StopCancel, StopReturn, vars, proxyVars, recordVars
<1>2. CASE Crash \/ Restart
  BY <1>t, <1>2 DEF Crash, Restart
<1>3. ASSUME NEW c \in Conns,
             \/ Loop(c) \/ Handshake(c) \/ WriteSshConfig(c) \/ WriteDataSource(c)
             \/ ChooseRoute(c) \/ ReadTarget(c) \/ DialFails(c) \/ CheckLicense(c)
             \/ AnswerAi(c) \/ LogSql(c) \/ Connected(c) \/ ReadFails(c) \/ Detach(c)
             \/ \E k \in Kinds : Execute(c, k)
      PROVE  pc'[d] \in Recorded
  <2>1. /\ up' = up
        /\ row' = row \/ row' = [row EXCEPT ![c] = "connecting"]
        /\ \E p : Go(c, p) /\ (pc[c] \in Recorded => p \in Recorded)
    BY <1>3, <1>r DEF Loop, Accept, Admit, CreateRow, Register, Handshake, WriteSshConfig,
       WriteDataSource, ChooseRoute, ReadTarget, DialFails, CheckLicense, AnswerAi, LogSql,
       Connected, ReadFails, Detach, Execute, BodyUnchanged, proxyVars, recordVars
  <2> QED BY <1>t, <2>1, <1>s DEF Go
<1>4. ASSUME NEW c \in Conns, Record(c) PROVE pc'[d] \in Recorded
  <2>1. up' = up /\ UpdateRow(c, "connected", want[c]) /\ Go(c, "choose")
    BY <1>4 DEF Record, proxyVars
  <2>2. \A e \in Conns \ {c} : row'[e] = row[e]
    BY <1>0, <1>t, <2>1, Written DEF Present
  <2> QED BY <1>t, <1>r, <1>s, <2>1, <2>2 DEF Go
<1>5. ASSUME NEW c \in Conns, EndRow(c) \/ ReportError(c) PROVE pc'[d] \in Recorded
  <2>1. /\ up' = up /\ UpdateRow(c, "disconnected", asset[c])
        /\ \E p \in {"failed", "done"} : Go(c, p)
    BY <1>5 DEF EndRow, ReportError, UpdateOrFail, proxyVars
  <2>2. /\ row'[c] # "connected"
        /\ \A e \in Conns \ {c} : row'[e] = row[e]
    BY <1>0, <1>t, <2>1, Written DEF Present
  <2> QED BY <1>t, <1>s, <2>1, <2>2 DEF Go
<1>6. ASSUME NEW c \in Conns, ClientCloses(c) \/ ForceDisconnect(c) \/ DeleteRow(c)
      PROVE  pc'[d] \in Recorded
  <2>1. up' = up /\ pc' = pc /\ row'[d] = row[d]
    BY <1>t, <1>6 DEF ClientCloses, ForceDisconnect, DeleteRow, proxyVars, recordVars
  <2> QED BY <1>s, <2>1
<1> QED BY <1>1, <1>2, <1>3, <1>4, <1>5, <1>6 DEF Next, Steps, Handle

\* A record listed as Connected has a running handler, however many times
\* the process died, as long as the database takes the updates.
THEOREM ListedIsLive == Spec => []ConnectedIsLive
<1>1. Init => DownQuiet /\ \A c \in Conns : LiveOf(c)
  BY DEF Init, DownQuiet, LiveOf
<1>2. (DownQuiet /\ \A c \in Conns : LiveOf(c)) /\ RInv /\ [Next]_vars
      => (DownQuiet /\ \A c \in Conns : LiveOf(c))'
  BY DownStep, LiveStep DEF LInv
<1>3. (DownQuiet /\ \A c \in Conns : LiveOf(c)) => ConnectedIsLive
  BY DEF LiveOf, Recorded, ConnectedIsLive
<1> QED BY <1>1, <1>2, <1>3, RecordsInductive, PTL DEF Spec

-----------------------------------------------------------------------------
\* Only Execute and LogSql touch the counts of a connection.
LEMMA LogStep == IInv /\ (\A c \in Conns : LogOf(c)) /\ [Next]_vars => \A d \in Conns : LogOf(d)'
<1> SUFFICES ASSUME IInv, \A c \in Conns : LogOf(c), [Next]_vars, NEW d \in Conns PROVE LogOf(d)'
  OBVIOUS
<1>0. /\ pc \in [Conns -> Places] /\ ran \in [Conns -> [Kinds -> Nat]] /\ logged \in [Conns -> Nat]
      /\ LogOf(d)
  BY DEF IInv, TypeOK
<1>k. Kinds = {"sql", "ai"}
  BY DEF Kinds
<1>l. ASSUME UNCHANGED sqlVars,
             \/ pc'[d] = pc[d]
             \/ pc[d] # "log" /\ pc'[d] \notin {"log"}
                /\ (pc[d] \in {"failing"} \cup Ending => pc'[d] \in Ending \cup {"done", "gone"})
                /\ pc[d] \notin {"done", "gone"}
             \/ pc'[d] = "gone"
             \/ pc[d] = "log" /\ pc'[d] = "failing"
      PROVE  LogOf(d)'
  BY <1>0, <1>l DEF LogOf, Missing, sqlVars
<1>1. CASE \/ Start \/ LoopEnd \/ StopClose \/ StopCancel \/ StopReturn \/ Restart \/ UNCHANGED vars
  BY <1>1, <1>l DEF Start, LoopEnd, StopClose, StopCancel, StopReturn, Restart, vars
<1>2. CASE Crash
  <2>1. UNCHANGED sqlVars /\ (pc'[d] = pc[d] \/ pc'[d] = "gone")
    BY <1>2 DEF Crash
  <2> QED BY <2>1, <1>l
<1>3. ASSUME NEW c \in Conns,
             \/ Loop(c) \/ Handshake(c) \/ WriteSshConfig(c) \/ WriteDataSource(c) \/ Record(c)
             \/ ChooseRoute(c) \/ ReadTarget(c) \/ DialFails(c) \/ CheckLicense(c)
             \/ AnswerAi(c) \/ Connected(c) \/ ReadFails(c) \/ Detach(c) \/ EndRow(c)
             \/ ReportError(c)
      PROVE  LogOf(d)'
  <2>1. /\ UNCHANGED sqlVars
        /\ pc[c] \notin {"log", "done", "gone"}
        /\ \E p : /\ Go(c, p) /\ p # "log"
                  /\ pc[c] \in {"failing"} \cup Ending => p \in Ending \cup {"done", "gone"}
    BY <1>3 DEF Loop, Accept, Admit, CreateRow, Register, Handshake, WriteSshConfig,
       WriteDataSource, Record, ChooseRoute, ReadTarget, DialFails, CheckLicense, AnswerAi,
       Connected, ReadFails, Detach, EndRow, ReportError, BodyUnchanged, Ending, LoopFree
  <2> QED BY <1>0, <2>1, <1>l DEF Go
<1>4. ASSUME NEW c \in Conns, ClientCloses(c) \/ ForceDisconnect(c) \/ DeleteRow(c)
      PROVE  LogOf(d)'
  BY <1>4, <1>l DEF ClientCloses, ForceDisconnect, DeleteRow
<1>5. ASSUME NEW c \in Conns, NEW k \in Kinds, Execute(c, k) PROVE LogOf(d)'
  <2>1. CASE c # d
    <3>1. ran'[d] = ran[d] /\ logged' = logged /\ pc'[d] = pc[d]
      BY <1>0, <1>5, <2>1 DEF Execute, Go
    <3> QED BY <1>0, <3>1 DEF LogOf, Missing
  <2>2. CASE c = d
    <3>1. /\ pc[d] = "serve" /\ logged' = logged
          /\ pc'[d] = IF k = "sql" THEN "log" ELSE "ai"
          /\ ran'[d] = [ran[d] EXCEPT ![k] = @ + 1]
      BY <1>0, <1>5, <2>2 DEF Execute, Go
    <3>2. ran'[d]["sql"] = ran[d]["sql"] + (IF k = "sql" THEN 1 ELSE 0)
      BY <1>0, <1>k, <3>1
    <3>3. ran[d]["sql"] - logged[d] = 0 /\ ran[d]["sql"] \in Nat /\ logged[d] \in Nat
      BY <1>0, <1>k, <3>1 DEF LogOf, Missing, Ending
    <3> QED BY <1>k, <3>1, <3>2, <3>3 DEF LogOf, Missing
  <2> QED BY <2>1, <2>2
<1>6. ASSUME NEW c \in Conns, LogSql(c) PROVE LogOf(d)'
  <2>1. CASE c # d
    BY <1>0, <1>6, <2>1 DEF LogSql, Go, LogOf, Missing
  <2>2. CASE c = d
    BY <1>0, <1>k, <1>6, <2>2 DEF LogSql, Go, LogOf, Missing, Ending, sqlVars
  <2> QED BY <2>1, <2>2
<1> QED BY <1>1, <1>2, <1>3, <1>4, <1>5, <1>6 DEF Next, Steps, Handle

\* At most one executed SQL statement of a connection is missing from
\* sql_logs, wherever the log insert fails or the process dies.
THEOREM AuditLag == Spec => []AuditKeepsUp
<1>1. Init => \A c \in Conns : LogOf(c)
  BY DEF Init, LogOf, Missing, Kinds
<1>2. IInv /\ (\A c \in Conns : LogOf(c)) => AuditKeepsUp
  <2> SUFFICES ASSUME IInv, NEW c \in Conns, LogOf(c)
               PROVE  /\ Missing(c) \in {0, 1}
                      /\ pc[c] \in {"serve", "ai"} => ran[c]["sql"] = logged[c]
    BY DEF AuditKeepsUp, Missing
  <2>1. ran[c]["sql"] \in Nat /\ logged[c] \in Nat
    BY DEF IInv, TypeOK, Kinds
  <2>2. pc[c] \in {"serve", "ai"} => Missing(c) = 0
    BY DEF LogOf, Ending
  <2> QED BY <2>1, <2>2 DEF LogOf, Missing
<1>3. IInv /\ (\A c \in Conns : LogOf(c)) /\ [Next]_vars => (\A c \in Conns : LogOf(c))'
  BY LogStep
<1> QED BY <1>1, <1>2, <1>3, Inductive, PTL DEF Spec
=============================================================================
