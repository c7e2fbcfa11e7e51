---------------------------- MODULE MCEditorTree ----------------------------
(* The tree of the SQL editor, or its connections: a behaviour is about one *)
(* of the two.                                                              *)
EXTENDS EditorTree

CONSTANTS Assets, Null, MaxConn

VARIABLES conns, current, timers, held, isReConnect, expanded, webSockets, pings

ASSUME LinkAssumption ==
  Assets # {} /\ Null \notin Assets \cup Nat /\ MaxConn \in Nat \ {0}

L == INSTANCE EditorLink

\* As the page is opened there is one database, with one table.
Given == {<<{3}>>}

linkOnly == <<conns, current, timers, held, isReConnect, expanded, webSockets, pings>>
treeOnly == <<kind, store, tree, shown, ui, wire, answers, jsonObject, progress, sent>>

NoLink ==
  /\ conns = <<>> /\ current = Null /\ timers = {} /\ held = Null /\ isReConnect = FALSE
  /\ expanded = {} /\ webSockets = Null /\ pings = Null
NoTree ==
  /\ kind = None /\ store = None /\ tree = Empty /\ shown = {} /\ currentNode = None
  /\ dialog = None /\ tabs = <<>> /\ wanted = None /\ wire = <<>> /\ answers = <<>>
  /\ jsonObject = <<>> /\ progress = {} /\ sent = 0

\* With several assets it is the sending that differs, whatever the nodes are.
InitEither ==
  \/ Init /\ NoLink /\ (mode = "multiple" => kind = "table")
  \/ L!Init /\ NoTree

NextOfEither ==
  \/ kind # None /\ Next /\ UNCHANGED linkOnly
  \/ kind = None /\ L!Next /\ UNCHANGED treeOnly

SpecOfEither == InitEither /\ [][NextOfEither]_<<mode, harm, linkOnly, treeOnly>>

\* The properties of EditorLink.  Those of EditorTree hold of connections without a
\* tree as they stand.
NeverAlone == kind = None => L!NeverAlone
ConnectedIsQuiet == kind = None => L!ConnectedIsQuiet
ExpandedIsConnected == kind = None => L!ExpandedIsConnected
TypesOK == IF kind = None THEN L!TypeOK ELSE TypeOK
=============================================================================
