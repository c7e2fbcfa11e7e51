----------------------------- MODULE EditorTree -----------------------------
(***************************************************************************)
(* The tree of databases and tables (DataTree), the menus of its nodes and *)
(* the answers that change it (visibilityProvider).  A node is named by    *)
(* its position: the key of a database is the prefix that the request was  *)
(* given, and its place in the answer; the key of a table has in addition  *)
(* its place among the tables listed.                                      *)
(*                                                                         *)
(* An answer waits in one variable, jsonObject, until the page is drawn.   *)
(* With several assets a statement that does not name its asset is not     *)
(* sent.                                                                   *)
(***************************************************************************)
EXTENDS Naturals, Sequences, FiniteSets

CONSTANTS
  Databases, \* a set of numbers, in the order in which they are listed
  Titles,    \* names of tables, a set of numbers likewise
  Texts,     \* texts searched for, some of the names
  AtFirst,   \* the tables of each database as the page is opened: what there may be
  None,
  MaxTabs,   \* bound on tabs open at once
  MaxUnderWay, \* bound on statements and answers under way at once
  MaxSent,   \* bound on statements sent
  MaxHarm    \* bound on mishaps (Harms) in one behaviour

Table == [of : Databases, name : Titles]
\* A node of the tree, by its key: the prefix and the place of a database, and for a
\* table its place below it.
Node == [key : Nat \X Nat, title : Databases] \cup [key : Nat \X Nat \X Nat, title : Table]
Questions == {"dropDatabase", "import", "create", "drop", "rename", "truncate"}
Kinds == {"table", "routine"}
Dialog == [what : Questions, node : Node, found : BOOLEAN]

\* Names have an order, keys are counted, and null is no node, no dialog and no kind of
\* nodes.
ASSUME NamesAreOrdered ==
  /\ Databases \subseteq Nat /\ IsFiniteSet(Databases)
  /\ Titles \subseteq Nat /\ IsFiniteSet(Titles)
ASSUME TablesAreNamed ==
  \A s \in AtFirst : DOMAIN s \subseteq Databases /\ \A d \in DOMAIN s : s[d] \subseteq Titles
ASSUME SendsAreCounted == MaxSent \in Nat \ {0}
ASSUME NoneIsNoNode == None \notin Node \cup Dialog \cup Kinds

VARIABLES
  mode,      \* connectionMode
  kind,      \* what the nodes below a database are: tables, or views and routines
  store,     \* tables of each database there is
  tree,      \* treeData: the prefix, and each database with the tables listed
  shown,     \* filteredData: the nodes in it, as keys
  currentNode, \* the node of the menu: its key and title
  dialog,    \* the question or the name that is asked for
  tabs,      \* the tab of each key, and the table it is of
  wanted,    \* history: the table for which a tab was opened last, and its key
  wire,      \* statements sent and not executed
  answers,   \* answers on their way
  jsonObject, \* the answer that waits to be worked on, alone in a list, or none
  progress,  \* keys of the exports and imports whose notification says started
  sent,      \* how many statements were sent, and prefixes given
  harm       \* history: mishaps

server == <<mode, kind, store>>
ui == <<currentNode, dialog, tabs, wanted>>
treeVars == <<server, tree, shown, ui, wire, answers, jsonObject, progress, sent, harm>>
Harms == {"unsent", "refused", "shifted", "renamed", "overwritten", "emptied",
          "outdated", "outlived"}

\* The elements of S in their order.
Place(x, S) == Cardinality({y \in S : y <= x})
Ordered(S) == [i \in {Place(x, S) : x \in S} |-> CHOOSE x \in S : Place(x, S) = i]
\* The children of a node: the table at each place.
Children(d) == LET names == Ordered(store[d]) IN
               [i \in DOMAIN names |-> [of |-> d, name |-> names[i]]]

Empty == [prefix |-> 0, nodes |-> <<>>]
DatabaseKeys(t) == {<<t.prefix, i>> : i \in DOMAIN t.nodes}
TableKeys(t) == UNION {{<<t.prefix, i, j>> : j \in DOMAIN t.nodes[i].tables} : i \in DOMAIN t.nodes}
AllKeys(t) == DatabaseKeys(t) \cup TableKeys(t)
At(t, key) == t.nodes[key[2]].tables[key[3]]
\* cutStringAtDash: the key of the database of a node.
Above(key) == <<key[1], key[2]>>
\* updateNodeByKey: other tables are listed under the database of a node.
Relisted(t, key, tables) ==
  [t EXCEPT !.nodes[key[2]] = [name |-> @.name, tables |-> tables, loaded |-> TRUE]]

\* filterNodes: the nodes whose title has the text, and those above them.
Filtered(t, text) ==
  LET hits == {k \in TableKeys(t) : At(t, k).name = text} IN
  IF text = None THEN AllKeys(t) ELSE hits \cup {Above(k) : k \in hits}

Among(s) == {s[i] : i \in DOMAIN s}
Marked(mishap, h) == IF mishap THEN harm \cup {h} ELSE harm

Init ==
  /\ mode \in {"single", "multiple"} /\ kind \in Kinds
  /\ store \in AtFirst
  /\ tree = Empty /\ shown = {} /\ currentNode = None /\ dialog = None
  /\ tabs = <<>> /\ wanted = None
  /\ wire = <<[what |-> "databases", prefix |-> 1]>>
  /\ answers = <<>> /\ jsonObject = <<>> /\ progress = {} /\ sent = 1 /\ harm = {}

\* webSocketSendData.
Sends(s) ==
  /\ sent < MaxSent /\ Len(wire) + Len(answers) < MaxUnderWay
  /\ sent' = sent + 1 /\ wire' = Append(wire, s)
SendsUnnamed(s) ==
  IF mode = "multiple" THEN UNCHANGED <<wire, sent>> /\ harm' = harm \cup {"unsent"}
  ELSE Sends(s) /\ harm' = harm
SendsNamed(s) == Sends(s) /\ harm' = harm

\* The prefix of the next request for databases: the time.
Prefix == sent + 1

AllDatabases == [what |-> "databases", prefix |-> Prefix]

-----------------------------------------------------------------------------
\* The tree.

\* onExpand at the node of the tables of a database.
Expand(i) ==
  /\ <<tree.prefix, i>> \in shown
  /\ SendsNamed([what |-> "tables", key |-> <<tree.prefix, i>>, of |-> tree.nodes[i].name])
  /\ UNCHANGED <<server, tree, shown, ui, answers, jsonObject, progress>>

\* onSelect of a table asks for its definition; so does the menu.
Select(k) ==
  /\ kind = "table" /\ k \in shown \cap TableKeys(tree)
  /\ SendsNamed([what |-> "ddl", table |-> At(tree, k)])
  /\ UNCHANGED <<server, tree, shown, ui, answers, jsonObject, progress>>

\* handleSearchChange.  The text itself is not used again.
Filter(text) ==
  /\ shown' = Filtered(tree, text) /\ shown' # shown
  /\ UNCHANGED <<server, tree, currentNode, dialog, tabs, wanted, wire,
                 answers, jsonObject, progress, sent, harm>>

\* handleRightClick: the node is kept as it is.
RightClick(k) ==
  /\ dialog = None /\ k \in shown
  /\ currentNode' = [key |-> k, title |-> IF Len(k) = 3 THEN At(tree, k) ELSE tree.nodes[k[2]].name]
  /\ UNCHANGED <<server, tree, shown, dialog, tabs, wanted, wire, answers,
                 jsonObject, progress, sent, harm>>

OnTable == currentNode # None /\ Len(currentNode.key) = 3
OnDatabase == currentNode # None /\ Len(currentNode.key) = 2
\* findNodeByKey of the database: without it the menu does nothing.
Found == Above(currentNode.key) \in shown

\* Altered: the tables of a database share the key of a tab.
AlteredTabKey(k) == <<k[1], k[2], 1>>

\* The key of the tab of a node.
TabKey(k) == k

\* addTab for the table of the menu, a tab of the designer or of the comparison: a
\* tab with its key is taken.
OpenTab ==
  /\ OnTable /\ Found /\ currentNode' = None
  /\ LET k == TabKey(currentNode.key) IN
     /\ tabs' = IF k \in DOMAIN tabs THEN tabs
                ELSE [x \in DOMAIN tabs \cup {k} |-> IF x = k THEN currentNode.title ELSE tabs[x]]
     /\ Cardinality(DOMAIN tabs') <= MaxTabs
     /\ wanted' = [key |-> k, table |-> currentNode.title]
  /\ UNCHANGED <<server, tree, shown, dialog, wire, answers, jsonObject, progress, sent,
                 harm>>

CloseTab(k) ==
  /\ k \in DOMAIN tabs /\ dialog = None
  /\ tabs' = [x \in DOMAIN tabs \ {k} |-> tabs[x]]
  /\ wanted' = IF wanted # None /\ wanted.key = k THEN None ELSE wanted
  /\ UNCHANGED <<server, tree, shown, currentNode, dialog, wire, answers,
                 jsonObject, progress, sent, harm>>

\* The button above the tree.
Refresh ==
  /\ dialog = None /\ SendsUnnamed(AllDatabases)
  /\ UNCHANGED <<server, tree, shown, ui, answers, jsonObject, progress>>

\* The dialog for a new database; nothing in it depends on the tree.
CreateDatabase(d) ==
  /\ dialog = None /\ SendsUnnamed([what |-> "createDatabase", of |-> d])
  /\ UNCHANGED <<server, tree, shown, ui, answers, jsonObject, progress>>

\* What the menus of a node ask a question or a name for.
DatabaseItems == {"dropDatabase", "import"}
TablesItems == {"create"}
RoutinesItems == {"create"}
TableItems == {"drop", "rename", "truncate"}
RoutineItems == {"drop"}
Items ==
  IF OnDatabase THEN DatabaseItems \cup (IF kind = "table" THEN TablesItems ELSE RoutinesItems)
  ELSE IF kind = "table" THEN TableItems ELSE RoutineItems

Asks(what) ==
  /\ currentNode # None /\ what \in Items
  /\ dialog' = [what |-> what, node |-> currentNode, found |-> Found]
  /\ currentNode' = None
  /\ UNCHANGED <<server, tree, shown, tabs, wanted, wire, answers, jsonObject,
                 progress, sent, harm>>

\* copyTable is sent at once.
CopyTable ==
  /\ OnTable /\ kind = "table" /\ Found /\ currentNode' = None
  /\ SendsNamed([what |-> "copy", table |-> currentNode.title])
  /\ UNCHANGED <<server, tree, shown, dialog, tabs, wanted, answers, jsonObject, progress>>

\* So are exports, and their notification says that they were started.
Exports ==
  /\ Found /\ currentNode' = None
  /\ SendsNamed([what |-> "export", node |-> currentNode])
  /\ progress' = progress \cup {currentNode.key}
  /\ UNCHANGED <<server, tree, shown, dialog, tabs, wanted, answers, jsonObject>>
ExportDatabase == OnDatabase /\ Exports
ExportTable == OnTable /\ kind = "table" /\ Exports

\* deleteTreeNode
Without(t, k) ==
  IF k \in TableKeys(t)
  THEN LET tables == t.nodes[k[2]].tables IN
       Relisted(t, k, [j \in DOMAIN tables \ {k[3]} |-> tables[j]])
  ELSE t
DeleteNode(k) ==
  /\ tree' = Without(tree, k) /\ shown' = AllKeys(tree')

\* The tables are being listed.
BeingListed ==
  \E a \in Among(wire) \cup Among(answers) \cup Among(jsonObject) : a.what = "tables"

\* The dialog is answered.  The name of the asset is missing where a database is
\* dropped and where statements are imported.
Answers(what) == dialog # None /\ dialog.what = what /\ dialog' = None

\* The tree the dialog was opened in has been replaced: what the answer will do to its
\* node does nothing to the present tree.
Outlived == Above(dialog.node.key) \notin DatabaseKeys(tree)

DropDatabase ==
  /\ Answers("dropDatabase")
  /\ SendsUnnamed([what |-> "dropDatabase", of |-> dialog.node.title])
  /\ UNCHANGED <<tree, shown, progress>>

\* The file was uploaded.
Import ==
  /\ Answers("import")
  /\ SendsUnnamed([what |-> "import", node |-> dialog.node])
  /\ progress' = progress \cup {dialog.node.key}
  /\ UNCHANGED <<tree, shown>>

\* The tab in which the new table is made sends the statement.
Create(n) ==
  /\ Answers("create") /\ dialog.found
  /\ Sends([what |-> "create", key |-> dialog.node.key,
            table |-> [of |-> dialog.node.title, name |-> n]])
  /\ harm' = Marked(Outlived, "outlived")
  /\ UNCHANGED <<tree, shown, progress>>

Rename(n) ==
  /\ Answers("rename") /\ dialog.found
  /\ Sends([what |-> "rename", key |-> dialog.node.key, table |-> dialog.node.title,
            name |-> n])
  /\ harm' = Marked(Outlived, "outlived")
  /\ UNCHANGED <<tree, shown, progress>>

Truncate ==
  /\ Answers("truncate") /\ dialog.found
  /\ SendsNamed([what |-> "truncate", table |-> dialog.node.title])
  /\ UNCHANGED <<tree, shown, progress>>

\* A table is removed from the tree before the statement is executed, a view or a
\* routine after it.
Drop ==
  /\ Answers("drop") /\ dialog.found
  /\ Sends([what |-> "drop", key |-> dialog.node.key, table |-> dialog.node.title])
  /\ IF kind = "table" THEN DeleteNode(dialog.node.key) ELSE UNCHANGED <<tree, shown>>
  /\ harm' = IF Outlived THEN harm \cup {"outlived"}
             ELSE Marked(kind = "table" /\ BeingListed, "outdated")
  /\ UNCHANGED progress

Answer ==
  /\ \/ DropDatabase \/ Import \/ Truncate \/ Drop
     \/ \E n \in Titles : Create(n) \/ Rename(n)
  /\ UNCHANGED <<server, currentNode, tabs, wanted, answers, jsonObject>>

\* No name or file is given, or the database is not found.  The other dialogs do
\* the same whether they are confirmed or cancelled.
GiveUp ==
  /\ dialog # None
  /\ \/ dialog.what \in {"create", "rename", "import"}
     \/ dialog.what \in {"truncate", "drop"} /\ ~dialog.found
  /\ dialog' = None
  /\ UNCHANGED <<server, tree, shown, currentNode, tabs, wanted, wire, answers,
                 jsonObject, progress, sent, harm>>

-----------------------------------------------------------------------------
\* The server and its answers.

Has(table) == table.of \in DOMAIN store /\ table.name \in store[table.of]
Stores(d, names) == store' = [store EXCEPT ![d] = names]

\* Whether the statement can be executed.
Possible(s) ==
  CASE s.what = "databases" -> TRUE
    [] s.what \in {"tables", "dropDatabase"} -> s.of \in DOMAIN store
    [] s.what = "createDatabase" -> s.of \notin DOMAIN store
    [] s.what \in {"export", "import"} ->
         IF Len(s.node.key) = 2 THEN s.node.title \in DOMAIN store ELSE Has(s.node.title)
    [] s.what = "create" -> s.table.of \in DOMAIN store /\ ~Has(s.table)
    [] s.what = "rename" -> Has(s.table) /\ ~Has([s.table EXCEPT !.name = s.name])
    [] s.what = "copy" -> Has(s.table) /\ Titles \ store[s.table.of] # {}
    [] OTHER -> Has(s.table)

\* What the statement does to the tables.
Changes(s) ==
  CASE s.what = "dropDatabase" -> store' = [d \in DOMAIN store \ {s.of} |-> store[d]]
    [] s.what = "createDatabase" -> store' = [d \in DOMAIN store \cup {s.of} |->
                                                   IF d = s.of THEN {} ELSE store[d]]
    [] s.what = "drop" -> Stores(s.table.of, store[s.table.of] \ {s.table.name})
    [] s.what = "create" -> Stores(s.table.of, store[s.table.of] \cup {s.table.name})
    [] s.what = "rename" -> Stores(s.table.of, (store[s.table.of] \ {s.table.name}) \cup {s.name})
    [] s.what = "copy" -> \E n \in Titles \ store[s.table.of] :
                            Stores(s.table.of, store[s.table.of] \cup {n})
    [] OTHER -> store' = store

\* What is answered.
Reply(s) ==
  CASE s.what = "databases" -> [what |-> s.what, prefix |-> s.prefix, nodes |-> Ordered(DOMAIN store)]
    [] s.what = "tables" -> [what |-> s.what, key |-> s.key, children |-> Children(s.of)]
    [] s.what \in {"truncate", "copy", "dropDatabase", "createDatabase"} -> [what |-> "executed"]
    [] OTHER -> s

\* A statement that fails is reported; an import that fails also loses its notification.
Execute ==
  /\ wire # <<>> /\ wire' = Tail(wire)
  /\ LET s == Head(wire) IN
     IF Possible(s)
     THEN Changes(s) /\ answers' = Append(answers, Reply(s)) /\ UNCHANGED <<harm, progress>>
     ELSE /\ UNCHANGED <<store, answers>> /\ harm' = harm \cup {"refused"}
          /\ progress' = IF s.what = "import" THEN progress \ {s.node.key} ELSE progress
  /\ UNCHANGED <<mode, kind, tree, shown, ui, jsonObject, sent>>

\* webSocketOnData: an answer that was not worked on is lost.
Arrive ==
  /\ answers # <<>> /\ answers' = Tail(answers)
  /\ jsonObject' = <<Head(answers)>>
  /\ harm' = Marked(jsonObject # <<>>, "overwritten")
  /\ UNCHANGED <<server, tree, shown, ui, wire, progress, sent>>

\* Altered: the nodes shown are left as they are.
AlteredDrawn(t) == shown

\* Whatever changes the tree shows all of it.
Drawn(t) == AllKeys(t)

\* A key of the database that something names is not that of its table any more.
Named(s) == IF s.what \in {"rename", "drop"} THEN {<<s.key, s.table>>} ELSE {}
Held(n) == IF n = None \/ Len(n.key) = 2 THEN {} ELSE {<<n.key, n.title>>}
References ==
  {<<k, tabs[k]>> : k \in DOMAIN tabs} \cup Held(currentNode)
    \cup (IF dialog = None THEN {} ELSE Held(dialog.node))
    \cup UNION {Named(s) : s \in Among(wire) \cup Among(answers)}
Shifted(t, key) ==
  \E r \in References :
    Above(r[1]) = key /\ (r[1] \notin TableKeys(t) \/ At(t, r[1]) # r[2])

\* The effect of jsonObject, by the kind of answer.  An empty list is no data.
Empties(a) ==
  /\ a.what \in {"databases", "tables"}
  /\ \/ a.what = "databases" /\ DOMAIN a.nodes = {}
     \/ a.what = "tables" /\ DOMAIN a.children = {}
  /\ harm' = harm \cup {"emptied"}
  /\ UNCHANGED <<tree, shown, wire, sent>>

NewDatabases(a) ==
  /\ a.what = "databases" /\ DOMAIN a.nodes # {}
  /\ tree' = [prefix |-> a.prefix, nodes |-> [i \in DOMAIN a.nodes |->
                 [name |-> a.nodes[i], tables |-> <<>>, loaded |-> FALSE]]]
  /\ shown' = Drawn(tree')
  /\ UNCHANGED <<wire, sent, harm>>

NewTables(a) ==
  /\ a.what = "tables" /\ DOMAIN a.children # {}
  /\ IF a.key \in DatabaseKeys(tree)
     THEN /\ tree' = Relisted(tree, a.key, a.children)
          /\ harm' = Marked(Shifted(tree', a.key), "shifted")
     ELSE UNCHANGED <<tree, harm>>
  /\ shown' = Drawn(tree')
  /\ UNCHANGED <<wire, sent>>

\* doExport and doImport, some seconds later, say that it is finished.
Transferred(a) ==
  /\ a.what \in {"export", "import"}
  /\ UNCHANGED <<tree, shown, wire, sent, harm>>

\* Shown in a panel of its own.
Definition(a) ==
  /\ a.what = "ddl"
  /\ UNCHANGED <<tree, shown, wire, sent, harm>>

Dropped(a) ==
  /\ a.what = "drop"
  /\ IF kind = "routine" THEN DeleteNode(a.key) ELSE UNCHANGED <<tree, shown>>
  /\ UNCHANGED <<wire, sent, harm>>

Renamed(a) ==
  /\ a.what = "rename"
  /\ IF a.key \in TableKeys(tree)
     THEN /\ tree' = Relisted(tree, a.key,
                       [tree.nodes[a.key[2]].tables EXCEPT ![a.key[3]].name = a.name])
          /\ shown' = Drawn(tree')
     ELSE UNCHANGED <<tree, shown>>
  /\ harm' = Marked(a.key \in {r[1] : r \in References}, "renamed")
  /\ UNCHANGED <<wire, sent>>

Reloads(a) ==
  /\ \/ a.what = "executed" /\ SendsUnnamed(AllDatabases)
     \/ a.what = "create" /\ SendsUnnamed([what |-> "tables", key |-> a.key, of |-> a.table.of])
  /\ UNCHANGED <<tree, shown>>

\* Altered: the end of imports is not shown.
AlteredEnded(a) == IF a.what = "export" THEN progress \ {a.node.key} ELSE progress

\* The notifications that still say started.
Ended(a) == IF a.what \in {"export", "import"} THEN progress \ {a.node.key} ELSE progress

Work ==
  /\ jsonObject # <<>> /\ jsonObject' = <<>>
  /\ LET a == jsonObject[1] IN
     \/ Empties(a) \/ NewDatabases(a) \/ NewTables(a) \/ Definition(a) \/ Dropped(a)
     \/ Renamed(a) \/ Reloads(a) \/ Transferred(a)
  /\ progress' = Ended(jsonObject[1])
  /\ UNCHANGED <<server, currentNode, dialog, tabs, wanted, answers>>

Step ==
  \/ \E i \in DOMAIN tree.nodes : Expand(i)
  \/ \E k \in AllKeys(tree) : Select(k) \/ RightClick(k)
  \/ \E text \in Texts \cup {None} : Filter(text)
  \/ OpenTab \/ \E k \in DOMAIN tabs : CloseTab(k)
  \/ Refresh \/ \E d \in Databases : CreateDatabase(d)
  \/ \E what \in Items : Asks(what)
  \/ CopyTable \/ ExportDatabase \/ ExportTable \/ GiveUp \/ Answer
  \/ Execute \/ Arrive \/ Work

Next == Step /\ Cardinality(harm') <= MaxHarm

Spec == Init /\ [][Next]_treeVars

-----------------------------------------------------------------------------
\* Types.
TypeOK ==
  /\ mode \in {"single", "multiple"} /\ kind \in Kinds
  /\ DOMAIN store \subseteq Databases /\ \A d \in DOMAIN store : store[d] \subseteq Titles
  /\ \A i \in DOMAIN tree.nodes : tree.nodes[i].name \in Databases
  /\ \A k \in TableKeys(tree) : At(tree, k) \in Table
  /\ shown \subseteq AllKeys(tree) /\ \A k \in DOMAIN tabs : tabs[k] \in Table
  /\ sent \in 0..MaxSent /\ harm \subseteq Harms

TablesOf(node) == {node.tables[j] : j \in DOMAIN node.tables}
StoredIn(d) == [of : {d}, name : IF d \in DOMAIN store THEN store[d] ELSE {}]

\* Once everything is executed and worked on, the tables listed under a database
\* are those it has, and no export or import is said to go on; Harms are the ways
\* in which that is not so.
QuietTreeIsTrue ==
  wire = <<>> /\ answers = <<>> /\ jsonObject = <<>> /\ harm = {} =>
    /\ progress = {}
    /\ \A i \in DOMAIN tree.nodes : tree.nodes[i].loaded =>
      TablesOf(tree.nodes[i]) = StoredIn(tree.nodes[i].name)

\* The tab that is shown when the tab of a table is asked for is of that table,
\* unless tables changed their places, or the table was renamed, while a tab was
\* open.
TabsAreOfTables ==
  harm \cap {"shifted", "renamed"} = {} /\ wanted # None => tabs[wanted.key] = wanted.table
=============================================================================
