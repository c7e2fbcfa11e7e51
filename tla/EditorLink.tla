----------------------------- MODULE EditorLink -----------------------------
(***************************************************************************)
(* The connections of the SQL editor.  With one asset (initWebSocket of    *)
(* DBEditor) a page that loses its connection starts a timer, each tick of *)
(* which makes a session and a connection.  With several assets            *)
(* (WebSocketManager) an asset is connected when its node is expanded and  *)
(* disconnected when it is collapsed, and the connections are kept in maps *)
(* under the asset.                                                        *)
(***************************************************************************)
EXTENDS Naturals, FiniteSets

CONSTANTS
  Assets,
  Null,      \* no asset and no connection
  MaxConn,   \* bound on connections made
  MaxHarm    \* bound on mishaps (Harms) in one behaviour

VARIABLES
  mode,      \* connectionMode
  conns,     \* state of the connections made, and the asset of each
  current,   \* webSocket, the connection that a page with one asset uses
  timers,    \* reconnection timers, each named by the connection it follows
  held,      \* reWebsocketInterval
  isReConnect,
  expanded,  \* assets whose node is expanded
  webSockets, \* the map of WebSocketManager
  pings,     \* pingIntervals: the connection that is pinged
  harm       \* history: mishaps

linkVars == <<mode, conns, current, timers, held, isReConnect, expanded, webSockets, pings, harm>>

\* creating: the session is asked for; closing: close() was called and onclose
\* was not.
States == {"creating", "connecting", "open", "closing", "closed", "refused"}
Harms == {"denied", "failed", "overlap", "hasty", "late", "lost"}

Live == {c \in DOMAIN conns : conns[c].state \in {"creating", "connecting", "open", "closing"}}
In(state) == {c \in DOMAIN conns : conns[c].state = state}
Of(a) == {c \in Live : conns[c].asset = a}
Becomes(c, state) == conns' = [conns EXCEPT ![c].state = state]
Marked(mishap, h) == IF mishap THEN harm \cup {h} ELSE harm

Ask(a) ==
  LET c == Cardinality(DOMAIN conns) + 1 IN
  /\ c <= MaxConn
  /\ conns' = [d \in DOMAIN conns \cup {c} |->
                 IF d = c THEN [asset |-> a, state |-> "creating"] ELSE conns[d]]

Init ==
  /\ mode \in {"single", "multiple"}
  /\ conns = IF mode = "single"
             THEN [c \in {1} |-> [asset |-> CHOOSE a \in Assets : TRUE, state |-> "creating"]]
             ELSE [c \in {} |-> Null]
  /\ current = Null /\ timers = {} /\ held = Null /\ isReConnect = TRUE
  /\ expanded = {}
  /\ webSockets = [a \in Assets |-> Null] /\ pings = [a \in Assets |-> Null]
  /\ harm = {}

\* The session is made, or refused.
Created(c) ==
  /\ c \in In("creating")
  /\ Becomes(c, "connecting")
  /\ IF mode = "single" THEN current' = c /\ UNCHANGED webSockets
     ELSE webSockets' = [webSockets EXCEPT ![conns[c].asset] = c] /\ UNCHANGED current
  /\ UNCHANGED <<mode, timers, held, isReConnect, expanded, pings, harm>>

Refused(c) ==
  /\ c \in In("creating")
  /\ Becomes(c, "refused")
  /\ harm' = Marked(mode = "multiple" \/ timers = {}, "denied")
  /\ UNCHANGED <<mode, current, timers, held, isReConnect, expanded, webSockets, pings>>

\* Altered: the timer goes on.
AlteredCleared == timers

\* clearInterval of the timer that is held.
Cleared == timers \ {held}

\* onopen
Opened(c) ==
  /\ c \in In("connecting")
  /\ Becomes(c, "open")
  /\ IF mode = "single" THEN timers' = Cleared /\ UNCHANGED pings
     ELSE pings' = [pings EXCEPT ![conns[c].asset] = c] /\ UNCHANGED timers
  /\ UNCHANGED <<mode, current, held, isReConnect, expanded, webSockets, harm>>

\* Altered: a timer follows a connection that was open.
AlteredFollowed(c) == IF conns[c].state = "connecting" THEN timers ELSE timers \cup {c}

\* The timers once ReConnect started one.
Followed(c) == timers \cup {c}

\* Altered: it stays.
AlteredForgotten(map, a) == map

\* The entry of the asset is removed, whichever connection it is of.
Forgotten(map, a) == [map EXCEPT ![a] = Null]

\* onclose, after close() or a failure.  ReConnect starts a timer and forgets
\* the one it held.
Closes(c) ==
  /\ c \in In("connecting") \cup In("open") \cup In("closing")
  /\ Becomes(c, "closed")
  /\ IF mode = "single"
     THEN /\ IF isReConnect THEN timers' = Followed(c) /\ held' = c
             ELSE UNCHANGED <<timers, held>>
          /\ harm' = Marked(isReConnect /\ timers # {}, "failed")
          /\ UNCHANGED <<webSockets, pings>>
     ELSE /\ LET a == conns[c].asset IN
             webSockets' = Forgotten(webSockets, a) /\ pings' = Forgotten(pings, a)
          /\ harm' = IF webSockets[conns[c].asset] \notin {Null, c} THEN harm \cup {"late"}
                     ELSE Marked(conns[c].state # "closing", "lost")
          /\ UNCHANGED <<timers, held>>
  /\ UNCHANGED <<mode, current, isReConnect, expanded>>

\* The server says Closed.
Told(c) ==
  /\ c \in In("open") /\ Becomes(c, "closing")
  /\ harm' = Marked(mode = "multiple", "lost")
  /\ UNCHANGED <<mode, current, timers, held, isReConnect, expanded, webSockets, pings>>

\* The server says that the licence admits no more users.
OutOfUsers(c) ==
  /\ mode = "single" /\ c \in In("open")
  /\ isReConnect' = FALSE /\ timers' = timers \ {held}
  /\ UNCHANGED <<mode, conns, current, held, expanded, webSockets, pings, harm>>

\* A timer ticks.
Tick(t) ==
  /\ t \in timers
  /\ Ask(conns[t].asset)
  /\ harm' = Marked(Live # {}, "overlap")
  /\ UNCHANGED <<mode, current, timers, held, isReConnect, expanded, webSockets, pings>>

\* onExpand of DataTree at the node of an asset.
Expand(a) ==
  /\ mode = "multiple" /\ a \notin expanded
  /\ Ask(a) /\ expanded' = expanded \cup {a}
  /\ harm' = Marked(In("creating") \cap Of(a) # {}, "hasty")
  /\ UNCHANGED <<mode, current, timers, held, isReConnect, webSockets, pings>>

\* closeConnection: a connection whose session is still asked for is not known.
Collapse(a) ==
  /\ mode = "multiple" /\ a \in expanded /\ expanded' = expanded \ {a}
  /\ IF webSockets[a] = Null THEN UNCHANGED <<conns, webSockets, pings>>
     ELSE /\ Becomes(webSockets[a], "closing")
          /\ webSockets' = Forgotten(webSockets, a) /\ pings' = Forgotten(pings, a)
  /\ harm' = Marked(In("creating") \cap Of(a) # {}, "hasty")
  /\ UNCHANGED <<mode, current, timers, held, isReConnect>>

Step ==
  \/ \E c \in DOMAIN conns :
       Created(c) \/ Refused(c) \/ Opened(c) \/ Closes(c) \/ Told(c) \/ OutOfUsers(c)
  \/ \E t \in timers : Tick(t)
  \/ \E a \in Assets : Expand(a) \/ Collapse(a)

Next == Step /\ Cardinality(harm') <= MaxHarm

Spec == Init /\ [][Next]_linkVars

-----------------------------------------------------------------------------
\* Types.
TypeOK ==
  /\ mode \in {"single", "multiple"} /\ DOMAIN conns \subseteq 1..MaxConn
  /\ \A c \in DOMAIN conns : conns[c] \in [asset : Assets, state : States]
  /\ timers \subseteq 1..MaxConn /\ {current, held} \subseteq 1..MaxConn \cup {Null}
  /\ isReConnect \in BOOLEAN /\ expanded \subseteq Assets
  /\ {webSockets, pings} \subseteq [Assets -> 1..MaxConn \cup {Null}] /\ harm \subseteq Harms

\* A page with one asset has a connection, is about to have one, or has a timer
\* that will make one, unless its first session was refused or the licence
\* admits no more users.
NeverAlone ==
  mode = "single" /\ isReConnect /\ "denied" \notin harm => Live # {} \/ timers # {}

\* Once it is connected no timer makes further sessions, nor after the licence
\* refused the user, unless an attempt failed and its timer was forgotten, or
\* two attempts were under way at once.
ConnectedIsQuiet ==
  harm \cap {"failed", "overlap"} = {} =>
    (In("open") # {} /\ In("closing") = {} => timers = {}) /\ (~isReConnect => timers = {})

\* The connections of assets are those of the nodes that are expanded, each
\* known under its asset, unless a node was expanded or collapsed while a
\* session was asked for, a connection was lost, or its end was reported after
\* the next was made.
ExpandedIsConnected ==
  mode = "multiple" /\ harm = {} =>
    \A a \in Assets :
      /\ {c \in Of(a) : conns[c].state = "open"} \subseteq {webSockets[a]} \ {Null}
      /\ Cardinality(Of(a) \ In("closing")) = IF a \in expanded THEN 1 ELSE 0
      /\ pings[a] # Null => pings[a] = webSockets[a]
=============================================================================
