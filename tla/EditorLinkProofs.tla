--------------------------- MODULE EditorLinkProofs ---------------------------
(***************************************************************************)
(* A page of the SQL editor is never left without a connection or a timer  *)
(* that will make one, its timers stop once it is connected, and the       *)
(* connections of a page with several assets are those of its expanded     *)
(* nodes: for any number of assets and connections.                        *)
(***************************************************************************)
EXTENDS MCEditorTree, EditorTreeProofs

Conn == [asset : Assets, state : L!States]

\* Connections are numbered in the order they are made.
Numbered == \E n \in 0..MaxConn : conns \in [1..n -> Conn]

LinkTyped ==
  /\ mode \in {"single", "multiple"} /\ Numbered
  /\ timers \subseteq DOMAIN conns /\ {current, held} \subseteq DOMAIN conns \cup {Null}
  /\ isReConnect \in BOOLEAN /\ expanded \subseteq Assets
  /\ webSockets \in [Assets -> DOMAIN conns \cup {Null}]
  /\ pings \in [Assets -> DOMAIN conns \cup {Null}]
  /\ harm \subseteq L!Harms

\* Two timers never run together unless an attempt failed, nor do two attempts
\* unless they overlapped; a page with several assets has no timers.
OneTimer == "failed" \notin harm => timers \subseteq {held}
OneAttempt == mode = "single" /\ "overlap" \notin harm => \A c, d \in L!Live : c = d
Untimed == mode = "multiple" => timers = {}
Quiet ==
  harm \cap {"failed", "overlap"} = {} =>
    (L!In("open") # {} => timers = {}) /\ (~isReConnect => timers = {})

\* The connection of an expanded node is known once its session is made.
KnownAs(a) ==
  /\ IF a \in expanded
     THEN \E c \in L!Of(a) :
            /\ conns[c].state # "closing"
            /\ \A d \in L!Of(a) : d = c \/ conns[d].state = "closing"
            /\ webSockets[a] = IF conns[c].state = "creating" THEN Null ELSE c
     ELSE webSockets[a] = Null /\ \A d \in L!Of(a) : conns[d].state = "closing"
  /\ pings[a] \in {Null, webSockets[a]}
AllKnownAs == mode = "multiple" /\ harm = {} => \A a \in Assets : KnownAs(a)

LinkInv == /\ LinkTyped /\ L!NeverAlone /\ OneTimer /\ OneAttempt /\ Untimed /\ Quiet
           /\ AllKnownAs

-----------------------------------------------------------------------------
\* Connections have numbers up to MaxConn, an asset and a state.
LEMMA NumberedConns ==
  ASSUME Numbered
  PROVE  /\ DOMAIN conns \subseteq 1..MaxConn
         /\ \A c \in DOMAIN conns : conns[c].asset \in Assets /\ conns[c].state \in L!States
<1>1. PICK n \in 0..MaxConn : conns \in [1..n -> Conn]
  BY DEF Numbered
<1> QED BY <1>1, LinkAssumption DEF Conn

\* A connection that changes its state stays where it is.
LEMMA BecomesKeeps ==
  ASSUME Numbered, NEW c \in DOMAIN conns, NEW s \in L!States, L!Becomes(c, s)
  PROVE  /\ Numbered' /\ DOMAIN conns' = DOMAIN conns
         /\ \A d \in DOMAIN conns : /\ conns'[d].asset = conns[d].asset
                                    /\ conns'[d].state = IF d = c THEN s ELSE conns[d].state
<1>1. PICK n \in 0..MaxConn : conns \in [1..n -> Conn]
  BY DEF Numbered
<1>2. conns' = [conns EXCEPT ![c] = [conns[c] EXCEPT !.state = s]]
  BY DEF L!Becomes
<1>3. conns[c] \in Conn /\ [conns[c] EXCEPT !.state = s] \in Conn
  BY <1>1 DEF Conn
<1>4. conns' \in [1..n -> Conn]
  BY <1>1, <1>2, <1>3
<1> QED BY <1>1, <1>2, <1>3, <1>4 DEF Numbered, Conn

\* The connections are counted as any other set is.
LEMMA Counted == \A S : L!Cardinality(S) = Cardinality(S)
  BY DEF L!Cardinality, Cardinality, L!IsFiniteSet, IsFiniteSet

\* A connection that is asked for is a new one.
LEMMA AskAdds ==
  ASSUME Numbered, NEW a \in Assets, L!Ask(a)
  PROVE  /\ Numbered'
         /\ \E c \in 1..MaxConn :
              /\ c \notin DOMAIN conns /\ DOMAIN conns' = DOMAIN conns \cup {c}
              /\ conns'[c].asset = a /\ conns'[c].state = "creating"
              /\ \A d \in DOMAIN conns : conns'[d] = conns[d]
<1>1. PICK n \in 0..MaxConn : conns \in [1..n -> Conn]
  BY DEF Numbered
<1>2. Cardinality(DOMAIN conns) = n
  BY <1>1, FS_Interval, LinkAssumption
<1> DEFINE c == n + 1
           new == [asset |-> a, state |-> "creating"]
<1>3. /\ c \in 1..MaxConn /\ c \notin 1..n /\ 1..c = 1..n \cup {c}
      /\ conns' = [d \in 1..n \cup {c} |-> IF d = c THEN new ELSE conns[d]]
  BY <1>1, <1>2, Counted, LinkAssumption DEF L!Ask
<1>4. conns' \in [1..c -> Conn] /\ new \in Conn
  BY <1>1, <1>3 DEF Conn, L!States
<1>5. Numbered'
  BY <1>3, <1>4 DEF Numbered
<1> QED BY <1>1, <1>3, <1>5

\* The first connection of a page with one asset is asked for when it opens.
LEMMA LinkInit == L!Init => LinkInv
<1> SUFFICES ASSUME L!Init PROVE LinkInv
  OBVIOUS
<1>1. (CHOOSE a \in Assets : TRUE) \in Assets
  BY LinkAssumption
<1>2. Numbered
  <2>1. CASE mode = "single"
    BY <1>1, <2>1, LinkAssumption DEF L!Init, Numbered, Conn, L!States
  <2>2. CASE mode = "multiple"
    BY <2>2, LinkAssumption DEF L!Init, Numbered, Conn
  <2> QED BY <2>1, <2>2 DEF L!Init
<1>3. LinkTyped
  BY <1>2 DEF L!Init, LinkTyped
<1>4. L!NeverAlone /\ OneAttempt
  BY <1>1 DEF L!Init, L!NeverAlone, OneAttempt, L!Live
<1>5. OneTimer /\ Untimed /\ Quiet
  BY DEF L!Init, OneTimer, Untimed, Quiet
<1>6. AllKnownAs
  BY DEF L!Init, AllKnownAs, KnownAs, L!Of, L!Live
<1> QED BY <1>3, <1>4, <1>5, <1>6 DEF LinkInv

\* What is said of one asset depends on its own connections only.
LEMMA KnownFrame ==
  ASSUME Numbered, NEW a \in Assets, KnownAs(a),
         a \in expanded' <=> a \in expanded,
         webSockets'[a] = webSockets[a], pings'[a] \in {Null, pings[a], webSockets[a]},
         \A c \in DOMAIN conns : c \in DOMAIN conns' /\ conns'[c].asset = conns[c].asset,
         \A c \in DOMAIN conns : conns[c].asset = a => conns'[c].state = conns[c].state,
         \A c \in DOMAIN conns' \ DOMAIN conns : conns'[c].asset # a
  PROVE  KnownAs(a)'
<1>1. L!Of(a)' = L!Of(a) /\ \A c \in L!Of(a) : conns'[c].state = conns[c].state
  BY DEF L!Of, L!Live
<1> QED BY <1>1 DEF KnownAs

\* No attempt is left alone by a connection that changes its state, unless it ends.
LEMMA LiveAfter ==
  ASSUME Numbered, NEW c \in DOMAIN conns, NEW s \in L!States, L!Becomes(c, s)
  PROVE  /\ L!Live' \subseteq L!Live \cup {c}
         /\ s \in {"connecting", "open", "closing"} => L!Live' = L!Live \cup {c}
         /\ s # "open" => L!In("open")' \subseteq L!In("open") \ {c}
         /\ L!Live \ {c} \subseteq L!Live'
         /\ s \in {"closed", "refused"} => c \notin L!Live'
BY BecomesKeeps DEF L!Live, L!In, L!States

\* A session is made.
LEMMA CreatedStep ==
  ASSUME LinkInv, NEW c \in DOMAIN conns, L!Created(c)
  PROVE  LinkInv'
<1>1. /\ conns[c].state = "creating" /\ L!Becomes(c, "connecting") /\ "connecting" \in L!States
      /\ UNCHANGED <<mode, timers, held, isReConnect, expanded, pings, harm>>
      /\ c \in L!Live /\ Numbered
  BY DEF L!Created, L!In, L!Live, L!States, LinkInv, LinkTyped
<1>2. conns[c].asset \in Assets
  BY <1>1, NumberedConns
<1>3. LinkTyped'
  BY <1>1, <1>2, BecomesKeeps DEF LinkInv, LinkTyped, L!Created
<1>4. (L!NeverAlone /\ OneTimer /\ OneAttempt /\ Untimed /\ Quiet)'
  BY <1>1, LiveAfter DEF LinkInv, L!NeverAlone, OneTimer, OneAttempt, Untimed, Quiet
<1>5. ASSUME mode = "multiple", harm = {}, NEW a \in Assets PROVE KnownAs(a)'
  <2>1. KnownAs(a)
    BY <1>5 DEF LinkInv, AllKnownAs
  <2>2. CASE a # conns[c].asset
    BY <1>1, <1>2, <1>5, <2>1, <2>2, BecomesKeeps, KnownFrame DEF L!Created, LinkInv, LinkTyped
  <2>3. CASE a = conns[c].asset
    <3>1. c \in L!Of(a) /\ webSockets'[a] = c
      BY <1>1, <1>2, <1>5, <2>3 DEF L!Of, L!Live, L!Created, LinkInv, LinkTyped
    <3>2. L!Of(a)' = L!Of(a)
      BY <1>1, <2>3, BecomesKeeps DEF L!Of, L!Live
    <3>3. /\ a \in expanded /\ webSockets[a] = Null
          /\ \A d \in L!Of(a) : d = c \/ conns[d].state = "closing"
      BY <1>1, <2>1, <3>1 DEF KnownAs
    <3> QED BY <1>1, <2>1, <3>1, <3>2, <3>3, BecomesKeeps DEF KnownAs, L!Of, L!Live
  <2> QED BY <2>2, <2>3
<1>6. AllKnownAs'
  BY <1>1, <1>5 DEF AllKnownAs
<1> QED BY <1>3, <1>4, <1>6 DEF LinkInv

\* A session is refused: the page with several assets calls that a mishap.
LEMMA RefusedStep ==
  ASSUME LinkInv, NEW c \in DOMAIN conns, L!Refused(c)
  PROVE  LinkInv'
<1>1. /\ conns[c].state = "creating" /\ L!Becomes(c, "refused") /\ "refused" \in L!States
      /\ UNCHANGED <<mode, current, timers, held, isReConnect, expanded, webSockets, pings>>
      /\ harm' = L!Marked(mode = "multiple" \/ timers = {}, "denied") /\ Numbered
  BY DEF L!Refused, L!In, L!States, LinkInv, LinkTyped
<1>2. LinkTyped'
  BY <1>1, BecomesKeeps DEF LinkInv, LinkTyped, L!Marked, L!Harms
<1>3. (L!NeverAlone /\ OneTimer /\ OneAttempt /\ Untimed /\ Quiet)'
  <2>1. harm \subseteq harm' /\ (timers = {} => "denied" \in harm')
    BY <1>1 DEF L!Marked
  <2>2. L!NeverAlone' /\ OneTimer' /\ Untimed'
    BY <1>1, <2>1 DEF LinkInv, L!NeverAlone, OneTimer, Untimed
  <2>3. OneAttempt' /\ Quiet'
    BY <1>1, <2>1, LiveAfter DEF LinkInv, OneAttempt, Quiet
  <2> QED BY <2>2, <2>3
<1>4. AllKnownAs'
  BY <1>1 DEF AllKnownAs, L!Marked
<1> QED BY <1>2, <1>3, <1>4 DEF LinkInv

\* A connection opens: the timer that is held is the only one, or one failed.
LEMMA OpenedStep ==
  ASSUME LinkInv, NEW c \in DOMAIN conns, L!Opened(c)
  PROVE  LinkInv'
<1>1. /\ conns[c].state = "connecting" /\ L!Becomes(c, "open") /\ "open" \in L!States
      /\ UNCHANGED <<mode, current, held, isReConnect, expanded, webSockets, harm>>
      /\ c \in L!Live /\ Numbered /\ timers' \subseteq timers
      /\ mode = "single" => timers' = timers \ {held}
  BY DEF L!Opened, L!Cleared, L!In, L!Live, L!States, LinkInv, LinkTyped
<1>2. conns[c].asset \in Assets
  BY <1>1, NumberedConns
<1>3. LinkTyped'
  BY <1>1, <1>2, BecomesKeeps DEF LinkInv, LinkTyped, L!Opened
<1>4. (L!NeverAlone /\ OneTimer /\ OneAttempt /\ Untimed /\ Quiet)'
  <2>1. L!NeverAlone' /\ OneTimer' /\ OneAttempt' /\ Untimed'
    BY <1>1, LiveAfter DEF LinkInv, L!NeverAlone, OneTimer, OneAttempt, Untimed
  <2>2. Quiet'
    BY <1>1 DEF LinkInv, LinkTyped, Quiet, OneTimer, Untimed
  <2> QED BY <2>1, <2>2
<1>5. ASSUME mode = "multiple", harm = {}, NEW a \in Assets PROVE KnownAs(a)'
  <2>1. KnownAs(a)
    BY <1>5 DEF LinkInv, AllKnownAs
  <2>2. CASE a # conns[c].asset
    BY <1>1, <1>2, <1>5, <2>1, <2>2, BecomesKeeps, KnownFrame DEF L!Opened, LinkInv, LinkTyped
  <2>3. CASE a = conns[c].asset
    <3>1. c \in L!Of(a) /\ pings'[a] = c
      BY <1>1, <1>2, <1>5, <2>3 DEF L!Of, L!Live, L!Opened, LinkInv, LinkTyped
    <3>2. L!Of(a)' = L!Of(a)
      BY <1>1, <2>3, BecomesKeeps DEF L!Of, L!Live
    <3>3. /\ a \in expanded /\ webSockets[a] = c
          /\ \A d \in L!Of(a) : d = c \/ conns[d].state = "closing"
      BY <1>1, <2>1, <3>1 DEF KnownAs
    <3> QED BY <1>1, <3>1, <3>2, <3>3, BecomesKeeps DEF KnownAs, L!Of, L!Live
  <2> QED BY <2>2, <2>3
<1>6. AllKnownAs'
  BY <1>1, <1>5 DEF AllKnownAs
<1> QED BY <1>3, <1>4, <1>6 DEF LinkInv

\* A connection ends: with one asset a timer follows it, with several its entry
\* goes, which is its own unless its end comes late.
LEMMA ClosesStep ==
  ASSUME LinkInv, NEW c \in DOMAIN conns, L!Closes(c)
  PROVE  LinkInv'
<1>1. /\ L!Becomes(c, "closed") /\ "closed" \in L!States
      /\ UNCHANGED <<mode, current, isReConnect, expanded>>
      /\ c \in L!Live /\ Numbered /\ conns[c].state \in {"connecting", "open", "closing"}
  BY DEF L!Closes, L!In, L!Live, L!States, LinkInv, LinkTyped
<1>2. conns[c].asset \in Assets
  BY <1>1, NumberedConns
<1>3. harm \subseteq harm' /\ harm' \subseteq L!Harms
  BY DEF L!Closes, L!Marked, LinkInv, LinkTyped, L!Harms
<1>4. CASE mode = "single"
  <2>1. /\ UNCHANGED <<webSockets, pings>>
        /\ isReConnect /\ timers # {} => "failed" \in harm'
        /\ IF isReConnect THEN timers' = timers \cup {c} /\ held' = c
           ELSE UNCHANGED <<timers, held>>
    BY <1>4 DEF L!Closes, L!Followed, L!Marked
  <2>2. timers' \subseteq DOMAIN conns /\ held' \in DOMAIN conns \cup {Null}
    BY <1>2, <2>1 DEF LinkInv, LinkTyped
  <2>3. LinkTyped'
    BY <1>1, <1>3, <2>1, <2>2, BecomesKeeps DEF LinkInv, LinkTyped
  <2>4. L!NeverAlone' /\ OneTimer'
    <3>1. CASE isReConnect
      BY <1>1, <1>3, <2>1, <3>1 DEF LinkInv, L!NeverAlone, OneTimer
    <3>2. CASE ~isReConnect
      BY <1>1, <1>3, <2>1, <3>2 DEF LinkInv, L!NeverAlone, OneTimer
    <3> QED BY <3>1, <3>2
  <2>5. OneAttempt' /\ Untimed' /\ AllKnownAs'
    BY <1>1, <1>3, <1>4, LiveAfter DEF LinkInv, OneAttempt, Untimed, AllKnownAs
  <2>6. Quiet'
    <3>1. "overlap" \notin harm => L!In("open")' = {}
      BY <1>1, <1>4, LiveAfter DEF LinkInv, OneAttempt, L!In, L!Live
    <3> QED BY <1>1, <1>3, <2>1, <3>1 DEF LinkInv, LinkTyped, Quiet
  <2> QED BY <2>3, <2>4, <2>5, <2>6 DEF LinkInv
<1>5. CASE mode = "multiple"
  <2> DEFINE b == conns[c].asset
  <2>1. /\ webSockets' = [webSockets EXCEPT ![b] = Null] /\ pings' = [pings EXCEPT ![b] = Null]
        /\ UNCHANGED <<timers, held>>
        /\ harm' = {} => webSockets[b] \in {Null, c} /\ conns[c].state = "closing"
    BY <1>5 DEF L!Closes, L!Forgotten, L!Marked
  <2>2. LinkTyped'
    BY <1>1, <1>2, <1>3, <2>1, BecomesKeeps DEF LinkInv, LinkTyped
  <2>3. L!NeverAlone' /\ OneTimer' /\ OneAttempt' /\ Untimed' /\ Quiet'
    BY <1>1, <1>3, <1>5, <2>1, LiveAfter
    DEF LinkInv, LinkTyped, L!NeverAlone, OneTimer, OneAttempt, Untimed, Quiet
  <2>4. ASSUME harm' = {}, NEW a \in Assets PROVE KnownAs(a)'
    <3>1. KnownAs(a)
      BY <1>3, <1>5, <2>4 DEF LinkInv, AllKnownAs
    <3>2. CASE a # b
      BY <1>1, <1>2, <2>1, <3>1, <3>2, BecomesKeeps, KnownFrame DEF LinkInv, LinkTyped
    <3>3. CASE a = b
      <4>1. L!Of(a)' = L!Of(a) \ {c} /\ \A d \in L!Of(a)' : conns'[d].state = conns[d].state
        BY <1>1, <3>3, BecomesKeeps DEF L!Of, L!Live
      <4>2. webSockets[a] = Null /\ conns[c].state = "closing" /\ pings[a] = Null
        BY <1>2, <2>1, <2>4, <3>1, <3>3, LinkAssumption DEF KnownAs
      <4>3. webSockets'[a] = Null /\ pings'[a] = Null
        BY <1>2, <2>1, <3>3 DEF LinkInv, LinkTyped
      <4> QED BY <1>1, <3>1, <4>1, <4>2, <4>3 DEF KnownAs
    <3> QED BY <3>2, <3>3
  <2>5. AllKnownAs'
    BY <2>4 DEF AllKnownAs
  <2> QED BY <2>2, <2>3, <2>5 DEF LinkInv
<1> QED BY <1>4, <1>5 DEF LinkInv, LinkTyped

\* The server ends a connection or refuses the user.
LEMMA ToldStep ==
  ASSUME LinkInv, NEW c \in DOMAIN conns, L!Told(c) \/ L!OutOfUsers(c)
  PROVE  LinkInv'
<1>1. CASE L!Told(c)
  <2>1. /\ L!Becomes(c, "closing") /\ "closing" \in L!States /\ c \in L!Live /\ Numbered
        /\ UNCHANGED <<mode, current, timers, held, isReConnect, expanded, webSockets, pings>>
        /\ harm \subseteq harm' /\ harm' \subseteq L!Harms /\ (mode = "multiple" => harm' # {})
    BY <1>1 DEF L!Told, L!In, L!Live, L!States, L!Marked, LinkInv, LinkTyped, L!Harms
  <2>2. LinkTyped'
    BY <2>1, BecomesKeeps DEF LinkInv, LinkTyped
  <2>3. L!NeverAlone' /\ OneTimer' /\ OneAttempt' /\ Untimed' /\ Quiet'
    BY <2>1, LiveAfter DEF LinkInv, L!NeverAlone, OneTimer, OneAttempt, Untimed, Quiet
  <2>4. AllKnownAs'
    BY <2>1 DEF AllKnownAs
  <2> QED BY <2>2, <2>3, <2>4 DEF LinkInv
<1>2. CASE L!OutOfUsers(c)
  <2>1. /\ mode = "single" /\ ~isReConnect' /\ timers' = timers \ {held}
        /\ UNCHANGED <<mode, conns, current, held, expanded, webSockets, pings, harm>>
        /\ isReConnect' \in BOOLEAN
    BY <1>2 DEF L!OutOfUsers
  <2>2. L!Live' = L!Live /\ L!In("open")' = L!In("open") /\ Numbered'
    BY <2>1 DEF L!Live, L!In, LinkInv, LinkTyped, Numbered
  <2>3. LinkTyped'
    BY <2>1, <2>2 DEF LinkInv, LinkTyped
  <2>4. L!NeverAlone' /\ OneTimer' /\ OneAttempt' /\ Untimed' /\ AllKnownAs'
    BY <2>1, <2>2 DEF LinkInv, L!NeverAlone, OneTimer, OneAttempt, Untimed, AllKnownAs
  <2>5. Quiet'
    BY <2>1, <2>2 DEF LinkInv, OneTimer, Quiet
  <2> QED BY <2>3, <2>4, <2>5 DEF LinkInv
<1> QED BY <1>1, <1>2

\* A timer asks for a connection; when one lives, attempts overlap.
LEMMA TickStep ==
  ASSUME LinkInv, NEW t \in timers, L!Tick(t)
  PROVE  LinkInv'
<1>1. /\ L!Ask(conns[t].asset) /\ Numbered
      /\ UNCHANGED <<mode, current, timers, held, isReConnect, expanded, webSockets, pings>>
      /\ harm \subseteq harm' /\ harm' \subseteq L!Harms /\ (L!Live # {} => "overlap" \in harm')
  BY DEF L!Tick, L!Marked, LinkInv, LinkTyped, L!Harms
<1>2. t \in DOMAIN conns /\ conns[t].asset \in Assets
  BY <1>1, NumberedConns DEF LinkInv, LinkTyped
<1>3. PICK c \in 1..MaxConn :
        /\ Numbered' /\ c \notin DOMAIN conns /\ DOMAIN conns' = DOMAIN conns \cup {c}
        /\ conns'[c].state = "creating" /\ \A d \in DOMAIN conns : conns'[d] = conns[d]
  BY <1>1, <1>2, AskAdds
<1>a. L!In("open")' = L!In("open") /\ L!Live' = L!Live \cup {c}
  BY <1>3 DEF L!Live, L!In
<1>4. LinkTyped'
  BY <1>1, <1>3 DEF LinkInv, LinkTyped
<1>5. L!NeverAlone' /\ OneTimer' /\ OneAttempt' /\ Untimed' /\ Quiet'
  BY <1>1, <1>a DEF LinkInv, L!NeverAlone, OneTimer, OneAttempt, Untimed, Quiet
<1>6. AllKnownAs'
  BY <1>1 DEF LinkInv, LinkTyped, Untimed, AllKnownAs
<1> QED BY <1>4, <1>5, <1>6 DEF LinkInv

\* The node of an asset is expanded.
LEMMA ExpandStep ==
  ASSUME LinkInv, NEW b \in Assets, L!Expand(b)
  PROVE  LinkInv'
<1>1. /\ mode = "multiple" /\ b \notin expanded /\ expanded' = expanded \cup {b}
      /\ L!Ask(b) /\ Numbered
      /\ UNCHANGED <<mode, current, timers, held, isReConnect, webSockets, pings>>
      /\ harm \subseteq harm' /\ harm' \subseteq L!Harms
  BY DEF L!Expand, L!Marked, LinkInv, LinkTyped, L!Harms
<1>2. PICK c \in 1..MaxConn :
        /\ c \notin DOMAIN conns /\ DOMAIN conns' = DOMAIN conns \cup {c}
        /\ conns'[c].asset = b /\ conns'[c].state = "creating"
        /\ \A d \in DOMAIN conns : conns'[d] = conns[d]
  BY <1>1, AskAdds
<1>3. Numbered' /\ L!In("open")' = L!In("open")
  BY <1>1, <1>2, AskAdds DEF L!In
<1>4. LinkTyped'
  BY <1>1, <1>2, <1>3 DEF LinkInv, LinkTyped
<1>5. L!NeverAlone' /\ OneTimer' /\ OneAttempt' /\ Untimed' /\ Quiet'
  BY <1>1, <1>3 DEF LinkInv, L!NeverAlone, OneTimer, OneAttempt, Untimed, Quiet
<1>6. ASSUME harm' = {}, NEW a \in Assets PROVE KnownAs(a)'
  <2>1. KnownAs(a)
    BY <1>1, <1>6 DEF LinkInv, AllKnownAs
  <2>2. CASE a # b
    BY <1>1, <1>2, <2>1, <2>2, KnownFrame
  <2>3. CASE a = b
    <3>1. L!Of(a)' = L!Of(a) \cup {c} /\ \A d \in L!Of(a) : conns'[d].state = "closing"
      BY <1>1, <1>2, <2>1, <2>3 DEF L!Of, L!Live, KnownAs
    <3>2. a \in expanded' /\ webSockets'[a] = Null /\ pings'[a] \in {Null, webSockets'[a]}
      BY <1>1, <2>1, <2>3 DEF KnownAs
    <3> QED BY <1>2, <3>1, <3>2 DEF KnownAs
  <2> QED BY <2>2, <2>3
<1>7. AllKnownAs'
  BY <1>6 DEF AllKnownAs
<1> QED BY <1>4, <1>5, <1>7 DEF LinkInv

\* ... and collapsed: the connection that is known is closed.
LEMMA CollapseStep ==
  ASSUME LinkInv, NEW b \in Assets, L!Collapse(b)
  PROVE  LinkInv'
<1> DEFINE c == webSockets[b]
<1>1. /\ mode = "multiple" /\ b \in expanded /\ expanded' = expanded \ {b} /\ Numbered
      /\ UNCHANGED <<mode, current, timers, held, isReConnect>>
      /\ harm \subseteq harm' /\ harm' \subseteq L!Harms
      /\ harm' = {} => L!In("creating") \cap L!Of(b) = {}
      /\ "closing" \in L!States
  BY DEF L!Collapse, L!Marked, LinkInv, LinkTyped, L!Harms, L!States
<1>2. CASE c = Null
  <2>1. UNCHANGED <<conns, webSockets, pings>>
    BY <1>2 DEF L!Collapse
  <2>2. L!In("open")' = L!In("open") /\ L!Live' = L!Live /\ Numbered'
    BY <1>1, <2>1 DEF L!In, L!Live, Numbered
  <2>3. LinkTyped'
    BY <1>1, <2>1, <2>2 DEF LinkInv, LinkTyped
  <2>4. L!NeverAlone' /\ OneTimer' /\ OneAttempt' /\ Untimed' /\ Quiet'
    BY <1>1, <2>2 DEF LinkInv, L!NeverAlone, OneTimer, OneAttempt, Untimed, Quiet
  <2>5. ASSUME harm' = {}, NEW a \in Assets PROVE KnownAs(a)'
    <3>1. KnownAs(a) /\ KnownAs(b)
      BY <1>1, <2>5 DEF LinkInv, AllKnownAs
    <3>2. CASE a # b
      BY <1>1, <2>1, <3>1, <3>2, KnownFrame
    <3>3. CASE a = b
      <4>1. PICK d \in L!Of(b) : webSockets[b] = IF conns[d].state = "creating" THEN Null ELSE d
        BY <1>1, <3>1 DEF KnownAs
      <4>2. d # Null /\ conns[d].state # "creating"
        BY <1>1, <2>5, <4>1, NumberedConns, LinkAssumption DEF L!Of, L!Live, L!In
      <4> QED BY <1>2, <4>1, <4>2
    <3> QED BY <3>2, <3>3
  <2>6. AllKnownAs'
    BY <2>5 DEF AllKnownAs
  <2> QED BY <2>3, <2>4, <2>6 DEF LinkInv
<1>3. CASE c # Null
  <2>1. /\ L!Becomes(c, "closing") /\ c \in DOMAIN conns
        /\ webSockets' = [webSockets EXCEPT ![b] = Null] /\ pings' = [pings EXCEPT ![b] = Null]
    BY <1>3 DEF L!Collapse, L!Forgotten, LinkInv, LinkTyped
  <2>2. L!In("open")' \subseteq L!In("open") /\ Numbered' /\ DOMAIN conns' = DOMAIN conns
    BY <1>1, <2>1, LiveAfter, BecomesKeeps
  <2>3. LinkTyped'
    BY <1>1, <2>1, <2>2 DEF LinkInv, LinkTyped
  <2>4. L!NeverAlone' /\ OneTimer' /\ OneAttempt' /\ Untimed' /\ Quiet'
    BY <1>1, <2>2 DEF LinkInv, L!NeverAlone, OneTimer, OneAttempt, Untimed, Quiet
  <2>5. ASSUME harm' = {}, NEW a \in Assets PROVE KnownAs(a)'
    <3>1. KnownAs(a) /\ KnownAs(b)
      BY <1>1, <2>5 DEF LinkInv, AllKnownAs
    <3>2. c \in L!Of(b) /\ \A d \in L!Of(b) : d = c \/ conns[d].state = "closing"
      BY <1>1, <1>3, <3>1 DEF KnownAs
    <3>3. CASE a # b
      <4>1. conns[c].asset # a
        BY <3>2, <3>3 DEF L!Of
      <4> QED BY <1>1, <2>1, <3>1, <3>3, <4>1, BecomesKeeps, KnownFrame DEF LinkInv, LinkTyped
    <3>4. CASE a = b
      <4>1. L!Of(a)' = L!Of(a) /\ \A d \in L!Of(a)' : conns'[d].state = "closing"
        BY <1>1, <2>1, <3>2, <3>4, BecomesKeeps DEF L!Of, L!Live
      <4>2. a \notin expanded' /\ webSockets'[a] = Null /\ pings'[a] = Null
        BY <1>1, <2>1, <3>4 DEF LinkInv, LinkTyped
      <4> QED BY <4>1, <4>2 DEF KnownAs
    <3> QED BY <3>3, <3>4
  <2>6. AllKnownAs'
    BY <2>5 DEF AllKnownAs
  <2> QED BY <2>3, <2>4, <2>6 DEF LinkInv
<1> QED BY <1>2, <1>3

\* Every step.
LEMMA LinkStep == LinkInv /\ [L!Next]_(L!linkVars) => LinkInv'
<1> SUFFICES ASSUME LinkInv, [L!Next]_(L!linkVars) PROVE LinkInv'
  OBVIOUS
<1>1. CASE UNCHANGED L!linkVars
  <2>1. L!Live' = L!Live /\ L!In("open")' = L!In("open") /\ Numbered'
    BY <1>1 DEF L!linkVars, L!Live, L!In, LinkInv, LinkTyped, Numbered
  <2>2. LinkTyped'
    BY <1>1, <2>1 DEF L!linkVars, LinkInv, LinkTyped
  <2>3. L!NeverAlone' /\ OneTimer' /\ OneAttempt' /\ Untimed' /\ Quiet'
    BY <1>1, <2>1 DEF L!linkVars, LinkInv, L!NeverAlone, OneTimer, OneAttempt, Untimed, Quiet
  <2>4. AllKnownAs'
    BY <1>1 DEF L!linkVars, LinkInv, AllKnownAs, KnownAs, L!Of, L!Live
  <2> QED BY <2>2, <2>3, <2>4 DEF LinkInv
<1>2. CASE L!Step
  BY <1>2, CreatedStep, RefusedStep, OpenedStep, ClosesStep, ToldStep, TickStep,
     ExpandStep, CollapseStep DEF L!Step
<1> QED BY <1>1, <1>2 DEF L!Next

\* What is the case with several assets, while nothing went wrong.
LEMMA AssetsConnected == LinkInv => L!ExpandedIsConnected
<1> SUFFICES ASSUME LinkInv, mode = "multiple", harm = {}, NEW a \in Assets
             PROVE  /\ {c \in L!Of(a) : conns[c].state = "open"} \subseteq {webSockets[a]} \ {Null}
                    /\ Cardinality(L!Of(a) \ L!In("closing")) = IF a \in expanded THEN 1 ELSE 0
                    /\ pings[a] # Null => pings[a] = webSockets[a]
  BY Counted DEF L!ExpandedIsConnected
<1>1. KnownAs(a) /\ \A c \in L!Of(a) : c \in DOMAIN conns /\ c # Null
  BY NumberedConns, LinkAssumption DEF LinkInv, AllKnownAs, LinkTyped, L!Of, L!Live
<1>2. pings[a] # Null => pings[a] = webSockets[a]
  BY <1>1 DEF KnownAs
<1>3. CASE a \in expanded
  <2>1. PICK c \in L!Of(a) :
                           /\ conns[c].state # "closing"
                           /\ \A d \in L!Of(a) : d = c \/ conns[d].state = "closing"
                           /\ webSockets[a] = IF conns[c].state = "creating" THEN Null ELSE c
    BY <1>1, <1>3 DEF KnownAs
  <2>2. L!Of(a) \ L!In("closing") = {c}
    BY <1>1, <2>1 DEF L!In
  <2>3. Cardinality(L!Of(a) \ L!In("closing")) = 1
    BY <2>2, FS_Singleton
  <2>4. \A d \in L!Of(a) : conns[d].state = "open" => d = c /\ webSockets[a] = c /\ c # Null
    BY <1>1, <2>1
  <2> QED BY <1>2, <1>3, <2>3, <2>4
<1>4. CASE a \notin expanded
  <2>1. L!Of(a) \ L!In("closing") = {} /\ {c \in L!Of(a) : conns[c].state = "open"} = {}
    BY <1>1, <1>4 DEF KnownAs, L!In
  <2>2. Cardinality(L!Of(a) \ L!In("closing")) = 0
    BY <2>1, FS_EmptySet
  <2> QED BY <1>2, <1>4, <2>1, <2>2
<1> QED BY <1>3, <1>4

-----------------------------------------------------------------------------
\* A behaviour is about the connections or about the tree.
EitherInv == IF kind = None THEN LinkInv ELSE TreeOK

LEMMA TreeHasKind == TreeOK => kind # None
  BY NoneIsNoNode DEF TreeOK, ServerOK

LEMMA EitherInit == InitEither => EitherInv
<1> SUFFICES ASSUME InitEither PROVE EitherInv
  OBVIOUS
<1>1. CASE Init
  BY <1>1, Initially, TreeHasKind DEF EitherInv
<1>2. CASE L!Init /\ NoTree
  BY <1>2, LinkInit DEF EitherInv, NoTree
<1> QED BY <1>1, <1>2 DEF InitEither

LEMMA EitherStep ==
  EitherInv /\ [NextOfEither]_<<mode, harm, linkOnly, treeOnly>> => EitherInv'
<1> SUFFICES ASSUME EitherInv, [NextOfEither]_<<mode, harm, linkOnly, treeOnly>>
             PROVE  EitherInv'
  OBVIOUS
<1>1. CASE kind = None /\ kind' = None /\ [L!Next]_(L!linkVars)
  BY <1>1, LinkStep DEF EitherInv
<1>2. CASE kind # None /\ [Next]_treeVars
  <2>1. TreeOK'
    BY <1>2, Inductive DEF EitherInv, Next
  <2>2. kind' # None
    BY <2>1, NoneIsNoNode DEF TreeOK, ServerOK
  <2> QED BY <2>1, <2>2 DEF EitherInv
<1>3. CASE UNCHANGED <<mode, harm, linkOnly, treeOnly>>
  <2>1. UNCHANGED L!linkVars /\ UNCHANGED treeVars /\ kind' = kind
    BY <1>3 DEF linkOnly, treeOnly, L!linkVars, treeVars, server
  <2> QED BY <1>1, <1>2, <2>1
<1>4. kind = None /\ L!Next /\ UNCHANGED treeOnly => kind' = None
  BY DEF treeOnly
<1> QED BY <1>1, <1>2, <1>3, <1>4 DEF NextOfEither

LEMMA EitherInvariant == SpecOfEither => []EitherInv
BY EitherInit, EitherStep, PTL DEF SpecOfEither

\* Connections, timers and maps, and the tree with its menus, tabs and statements,
\* hold what their declarations say.
THEOREM LinkTypes == SpecOfEither => []TypesOK
<1>1. LinkInv => L!TypeOK
  <2> SUFFICES ASSUME LinkInv PROVE L!TypeOK
    OBVIOUS
  <2>1. PICK n \in 0..MaxConn : conns \in [1..n -> Conn]
    BY DEF LinkInv, LinkTyped, Numbered
  <2>2. DOMAIN conns \subseteq 1..MaxConn /\ \A c \in DOMAIN conns : conns[c] \in Conn
    BY <2>1, LinkAssumption
  <2> QED BY <2>2 DEF LinkInv, LinkTyped, L!TypeOK, Conn
<1>2. EitherInv => TypesOK
  BY <1>1, TreeIsTyped DEF EitherInv, TypesOK
<1> QED BY <1>2, EitherInvariant, PTL

\* ReConnect of DBEditor never leaves the page without a connection, an attempt
\* at one or a timer, unless the first session was refused or the licence
\* admits no more users.
THEOREM LinkNeverAlone == SpecOfEither => []NeverAlone
<1>1. EitherInv => NeverAlone
  BY DEF EitherInv, LinkInv, NeverAlone
<1> QED BY <1>1, EitherInvariant, PTL

\* The timer that follows a lost connection stops when the next one opens, and
\* when the licence refuses the user, unless attempts failed or overlapped.
THEOREM LinkIsQuiet == SpecOfEither => []ConnectedIsQuiet
<1>1. EitherInv => ConnectedIsQuiet
  BY DEF EitherInv, LinkInv, Quiet, ConnectedIsQuiet, L!ConnectedIsQuiet
<1> QED BY <1>1, EitherInvariant, PTL

\* The connections WebSocketManager knows are those of the expanded nodes, one
\* for each, unless one was lost or refused, came late, or its node was
\* collapsed before its session was made.
THEOREM LinkIsOfNodes == SpecOfEither => []ExpandedIsConnected
<1>1. EitherInv => ExpandedIsConnected
  BY AssetsConnected DEF EitherInv, ExpandedIsConnected
<1> QED BY <1>1, EitherInvariant, PTL
=============================================================================
