------------------------- MODULE EditorTreeProofs -------------------------
(***************************************************************************)
(* Theorems about EditorTree, for any databases and names of tables, any   *)
(* number of tabs, statements and mishaps.                                 *)
(***************************************************************************)
EXTENDS EditorTree, FiniteSetTheorems, SequenceTheorems, TLAPS

\* A list by places, not all of which need be taken.
Placed(T) == UNION {[S -> T] : S \in SUBSET Nat}
Nodes == [name : Databases, tables : Placed(Table), loaded : BOOLEAN]
Tree == [prefix : Nat, nodes : Placed(Nodes)]
Root == Nat \X Nat
Leaf == Nat \X Nat \X Nat

\* What is sent, and what comes back.
Statement ==
  [what : {"databases"}, prefix : Nat] \cup [what : {"tables"}, key : Root, of : Databases]
    \cup [what : {"ddl", "copy", "truncate"}, table : Table]
    \cup [what : {"createDatabase", "dropDatabase"}, of : Databases]
    \cup [what : {"export", "import"}, node : Node]
    \cup [what : {"create"}, key : Root, table : Table]
    \cup [what : {"rename"}, key : Leaf, table : Table, name : Titles]
    \cup [what : {"drop"}, key : Leaf, table : Table]
Result ==
  [what : {"databases"}, prefix : Nat, nodes : Placed(Databases)]
    \cup [what : {"tables"}, key : Root, children : Placed(Table)]
    \cup [what : {"executed"}] \cup [what : {"ddl"}, table : Table]
    \cup [what : {"export", "import"}, node : Node]
    \cup [what : {"create"}, key : Root, table : Table]
    \cup [what : {"rename"}, key : Leaf, table : Table, name : Titles]
    \cup [what : {"drop"}, key : Leaf, table : Table]

OfDatabase == {"dropDatabase", "import", "create"}

\* Types of what the server and the connection have, and of what the page has: a
\* question about a database is asked at one, the others at a table.
ServerOK ==
  /\ mode \in {"single", "multiple"} /\ kind \in Kinds
  /\ DOMAIN store \subseteq Databases /\ \A d \in DOMAIN store : store[d] \subseteq Titles
  /\ sent \in 1..MaxSent /\ harm \subseteq Harms
  /\ wire \in Seq(Statement) /\ answers \in Seq(Result)
  /\ jsonObject \in Seq(Result) /\ Len(jsonObject) <= 1
PageOK ==
  /\ tree \in Tree /\ shown \subseteq AllKeys(tree)
  /\ currentNode \in Node \cup {None} /\ dialog \in Dialog \cup {None}
  /\ currentNode = None \/ dialog = None
  /\ dialog # None => IF dialog.what \in OfDatabase
                      THEN dialog.node.key \in Root /\ dialog.node.title \in Databases
                      ELSE dialog.node.key \in Leaf /\ dialog.node.title \in Table
  /\ tabs \in UNION {[K -> Table] : K \in SUBSET Leaf}
  /\ wanted \in [key : Leaf, table : Table] \cup {None}
TreeOK == ServerOK /\ PageOK

-----------------------------------------------------------------------------
\* Keys of databases have two parts, keys of tables three.
LEMMA KeyParts ==
  /\ \A k \in Root : Len(k) = 2 /\ Len(k) # 3 /\ Above(k) = k /\ k \notin Leaf
  /\ \A k \in Leaf : Len(k) = 3 /\ Len(k) # 2 /\ Above(k) \in Root /\ k \notin Root
  BY DEF Root, Leaf, Above

LEMMA PlacedParts ==
  ASSUME NEW T, NEW f \in Placed(T)
  PROVE  DOMAIN f \subseteq Nat /\ (\A j \in DOMAIN f : f[j] \in T) /\ f = [j \in DOMAIN f |-> f[j]]
  BY DEF Placed

LEMMA IsPlaced ==
  ASSUME NEW T, NEW f, DOMAIN f \subseteq Nat, \A j \in DOMAIN f : f[j] \in T,
         f = [j \in DOMAIN f |-> f[j]]
  PROVE  f \in Placed(T)
  BY DEF Placed

LEMMA TreeKeys ==
  ASSUME NEW t \in Tree
  PROVE  /\ DatabaseKeys(t) \subseteq Root /\ TableKeys(t) \subseteq Leaf
         /\ DOMAIN t.nodes \subseteq Nat
         /\ \A i \in DOMAIN t.nodes : t.nodes[i] \in Nodes /\ DOMAIN t.nodes[i].tables \subseteq Nat
                /\ \A j \in DOMAIN t.nodes[i].tables : t.nodes[i].tables[j] \in Table
         /\ \A k \in TableKeys(t) : At(t, k) \in Table /\ k[2] \in DOMAIN t.nodes
               /\ k = <<t.prefix, k[2], k[3]>> /\ k[3] \in DOMAIN t.nodes[k[2]].tables /\ Above(k) \in DatabaseKeys(t)
         /\ \A k \in DatabaseKeys(t) : k[1] = t.prefix /\ k[2] \in DOMAIN t.nodes
<1>1. /\ DOMAIN t.nodes \subseteq Nat /\ t.prefix \in Nat
      /\ \A i \in DOMAIN t.nodes : t.nodes[i] \in Nodes
  BY DEF Tree, Placed
<1>2. \A i \in DOMAIN t.nodes : /\ DOMAIN t.nodes[i].tables \subseteq Nat
                /\ \A j \in DOMAIN t.nodes[i].tables : t.nodes[i].tables[j] \in Table
  <2> TAKE i \in DOMAIN t.nodes
  <2>1. t.nodes[i].tables \in Placed(Table)
    BY <1>1 DEF Nodes
  <2> QED BY <2>1, PlacedParts
<1> HIDE DEF Tree, Nodes
<1>3. DatabaseKeys(t) \subseteq Root /\ TableKeys(t) \subseteq Leaf
  BY <1>1, <1>2 DEF DatabaseKeys, TableKeys, Root, Leaf
<1>4. \A k \in TableKeys(t) : At(t, k) \in Table /\ k[2] \in DOMAIN t.nodes
               /\ k = <<t.prefix, k[2], k[3]>> /\ k[3] \in DOMAIN t.nodes[k[2]].tables /\ Above(k) \in DatabaseKeys(t)
  <2> TAKE k \in TableKeys(t)
  <2>1. PICK i \in DOMAIN t.nodes : \E j \in DOMAIN t.nodes[i].tables : k = <<t.prefix, i, j>>
    BY DEF TableKeys
  <2> QED BY <2>1, <1>2 DEF At, Above, DatabaseKeys
<1>5. \A k \in DatabaseKeys(t) : k[1] = t.prefix /\ k[2] \in DOMAIN t.nodes
  BY DEF DatabaseKeys
<1> QED BY <1>1, <1>2, <1>3, <1>4, <1>5

\* A node of the tree has the key and the title of a database, or of a table.
LEMMA NodeParts ==
  ASSUME NEW n \in Node
  PROVE  \/ Len(n.key) = 2 /\ n.key \in Root /\ n.title \in Databases
         \/ Len(n.key) = 3 /\ n.key \in Leaf /\ n.title \in Table
  BY KeyParts DEF Node, Root, Leaf

LEMMA NodeIs ==
  ASSUME NEW k, NEW x, (k \in Root /\ x \in Databases) \/ (k \in Leaf /\ x \in Table)
  PROVE  [key |-> k, title |-> x] \in Node
  BY DEF Node, Root, Leaf

LEMMA NoNode == None \notin Node /\ None \notin Dialog
  BY NoneIsNoNode

\* What Ordered lists is in the set, at places that are numbers.
LEMMA OrderedPlaced ==
  ASSUME NEW S, IsFiniteSet(S), NEW T, S \subseteq T
  PROVE  Ordered(S) \in Placed(T)
<1>1. \A x \in S : Place(x, S) \in Nat
  <2> TAKE x \in S
  <2>1. IsFiniteSet({y \in S : y <= x})
    BY FS_Subset
  <2> QED BY <2>1, FS_CardinalityType DEF Place
<1>2. \A i \in {Place(x, S) : x \in S} : (CHOOSE x \in S : Place(x, S) = i) \in S
  OBVIOUS
<1>3. /\ DOMAIN Ordered(S) = {Place(x, S) : x \in S}
      /\ \A i \in DOMAIN Ordered(S) : Ordered(S)[i] \in T
      /\ Ordered(S) = [i \in DOMAIN Ordered(S) |-> Ordered(S)[i]]
  BY <1>2 DEF Ordered
<1>4. DOMAIN Ordered(S) \subseteq Nat
  BY <1>1, <1>3
<1> QED BY <1>3, <1>4, IsPlaced

\* The children of a database that there is are tables of it.
LEMMA ChildrenPlaced ==
  ASSUME ServerOK, NEW d \in DOMAIN store
  PROVE  Children(d) \in Placed(Table)
<1>1. IsFiniteSet(store[d]) /\ store[d] \subseteq Titles /\ d \in Databases
  BY NamesAreOrdered, FS_Subset DEF ServerOK
<1>2. Ordered(store[d]) \in Placed(Titles)
  BY <1>1, OrderedPlaced
<1> DEFINE f == Ordered(store[d])
<1>3. DOMAIN f \subseteq Nat /\ \A i \in DOMAIN f : f[i] \in Titles
  BY <1>2, PlacedParts
<1>4. Children(d) = [i \in DOMAIN f |-> [of |-> d, name |-> f[i]]]
  BY DEF Children
<1> HIDE DEF f
<1>5. \A i \in DOMAIN f : [of |-> d, name |-> f[i]] \in Table
  BY <1>1, <1>3 DEF Table
<1> QED BY <1>3, <1>4, <1>5, IsPlaced

LEMMA KeyIn ==
  ASSUME NEW t, NEW i \in DOMAIN t.nodes, NEW j \in DOMAIN t.nodes[i].tables
  PROVE  <<t.prefix, i, j>> \in TableKeys(t)
  BY DEF TableKeys

LEMMA RelistedPrefix ==
  ASSUME NEW t \in Tree, NEW key, NEW tables
  PROVE  Relisted(t, key, tables).prefix = t.prefix
  BY DEF Relisted, Tree

\* Other tables under one database: the others keep theirs.
LEMMA RelistedTree ==
  ASSUME NEW t \in Tree, NEW key, key[2] \in DOMAIN t.nodes, NEW tables \in Placed(Table),
         NEW u, u = Relisted(t, key, tables)
  PROVE  /\ u \in Tree /\ DatabaseKeys(u) = DatabaseKeys(t) /\ u.prefix = t.prefix
         /\ DOMAIN u.nodes = DOMAIN t.nodes
         /\ u.nodes[key[2]] = [name |-> t.nodes[key[2]].name, tables |-> tables, loaded |-> TRUE]
         /\ \A i \in DOMAIN t.nodes \ {key[2]} : u.nodes[i] = t.nodes[i]
<1> DEFINE m == key[2]
           v == [name |-> t.nodes[m].name, tables |-> tables, loaded |-> TRUE]
           ns == [t.nodes EXCEPT ![m] = v]
<1>1. t.nodes \in Placed(Nodes) /\ t.prefix \in Nat /\ t = [prefix |-> t.prefix, nodes |-> t.nodes]
  BY DEF Tree
<1>2. t.nodes[m] \in Nodes /\ DOMAIN t.nodes \subseteq Nat /\ \A i \in DOMAIN t.nodes : t.nodes[i] \in Nodes
  BY <1>1, PlacedParts
<1>3. v \in Nodes
  BY <1>2 DEF Nodes
<1>4. u = [t EXCEPT !.nodes = ns]
  BY DEF Relisted
<1>5. u.prefix = t.prefix /\ u.nodes = ns /\ u = [prefix |-> t.prefix, nodes |-> ns]
  BY <1>1, <1>4
<1> HIDE DEF v
<1>6. /\ DOMAIN ns = DOMAIN t.nodes /\ ns[m] = v /\ ns = [i \in DOMAIN ns |-> ns[i]]
      /\ \A i \in DOMAIN t.nodes \ {m} : ns[i] = t.nodes[i]
  OBVIOUS
<1> HIDE DEF ns
<1>7. ns \in Placed(Nodes)
  <2>1. \A i \in DOMAIN ns : ns[i] \in Nodes
    BY <1>2, <1>3, <1>6
  <2> QED BY <2>1, <1>2, <1>6, IsPlaced
<1>8. u \in Tree
  BY <1>1, <1>5, <1>7 DEF Tree
<1>9. DatabaseKeys(u) = DatabaseKeys(t)
  BY <1>5, <1>6 DEF DatabaseKeys
<1> QED BY <1>5, <1>6, <1>8, <1>9 DEF v

-----------------------------------------------------------------------------
\* What the user does, apart from answering a question.
Clicks ==
  \/ \E i \in DOMAIN tree.nodes : Expand(i)
  \/ \E k \in AllKeys(tree) : Select(k) \/ RightClick(k)
  \/ \E text \in Texts \cup {None} : Filter(text)
  \/ OpenTab \/ \E k \in DOMAIN tabs : CloseTab(k)
  \/ Refresh \/ \E d \in Databases : CreateDatabase(d)
  \/ \E what \in Items : Asks(what)
  \/ CopyTable \/ ExportDatabase \/ ExportTable \/ GiveUp

LEMMA StepIs == Step <=> Clicks \/ Answer \/ Execute \/ Arrive \/ Work
  BY DEF Step, Clicks

\* One statement more, or none.
Adds(s) == s \in Statement /\ sent < MaxSent /\ sent' = sent + 1 /\ wire' = Append(wire, s)
MayAdd == UNCHANGED <<wire, sent>> \/ \E s \in Statement : Adds(s)

LEMMA Sending ==
  ASSUME ServerOK, NEW s \in Statement, Sends(s) \/ SendsNamed(s) \/ SendsUnnamed(s)
  PROVE  MayAdd
  BY DEF Sends, SendsNamed, SendsUnnamed, MayAdd, Adds

LEMMA HarmGrows ==
  ASSUME harm \subseteq Harms, NEW s,
         \/ UNCHANGED harm \/ SendsNamed(s) \/ SendsUnnamed(s)
         \/ \E h \in Harms, mishap \in BOOLEAN : harm' = Marked(mishap, h)
         \/ \E h \in Harms : harm' = harm \cup {h}
  PROVE  harm \subseteq harm' /\ harm' \subseteq Harms
  BY DEF SendsNamed, SendsUnnamed, Harms, Marked

\* The node of the menu and that of the question.
LEMMA NodesOf ==
  ASSUME TreeOK
  PROVE  /\ currentNode # None => currentNode \in Node
         /\ dialog # None => dialog \in Dialog /\ dialog.node \in Node
  BY DEF TreeOK, PageOK, Dialog

LEMMA ClicksSend ==
  ASSUME TreeOK, Clicks
  PROVE  UNCHANGED <<server, answers, jsonObject>> /\ MayAdd /\ harm \subseteq harm' /\ harm' \subseteq Harms
<1>0. ServerOK /\ tree \in Tree /\ harm \subseteq Harms /\ sent \in Nat
  BY DEF TreeOK, ServerOK, PageOK
<1>1. CASE \E i \in DOMAIN tree.nodes : Expand(i)
  <2> PICK i \in DOMAIN tree.nodes : Expand(i)
    BY <1>1
  <2> DEFINE s == [what |-> "tables", key |-> <<tree.prefix, i>>, of |-> tree.nodes[i].name]
  <2>1. tree.prefix \in Nat /\ i \in Nat /\ tree.nodes[i].name \in Databases
    BY <1>0, TreeKeys DEF Tree, Nodes
  <2>2. s \in Statement
    BY <2>1 DEF Statement, Root
  <2>3. SendsNamed(s) /\ UNCHANGED <<server, answers, jsonObject>>
    BY DEF Expand, ui
  <2> QED BY <1>0, <2>2, <2>3, Sending, HarmGrows
<1>2. CASE \E k \in AllKeys(tree) : Select(k)
  <2> PICK k \in AllKeys(tree) : Select(k)
    BY <1>2
  <2> DEFINE s == [what |-> "ddl", table |-> At(tree, k)]
  <2>1. At(tree, k) \in Table
    BY <1>0, TreeKeys DEF Select
  <2>2. s \in Statement
    BY <2>1 DEF Statement
  <2>3. SendsNamed(s) /\ UNCHANGED <<server, answers, jsonObject>>
    BY DEF Select
  <2> QED BY <1>0, <2>2, <2>3, Sending, HarmGrows
<1>3. CASE \/ \E k \in AllKeys(tree) : RightClick(k)
           \/ \E text \in Texts \cup {None} : Filter(text)
           \/ OpenTab \/ \E k \in DOMAIN tabs : CloseTab(k)
           \/ \E what \in Items : Asks(what)
           \/ GiveUp
  <2>1. UNCHANGED <<server, answers, jsonObject, wire, sent, harm>>
    BY <1>3 DEF RightClick, Filter, OpenTab, CloseTab, Asks, GiveUp
  <2> QED BY <2>1, <1>0 DEF MayAdd
<1>4. CASE Refresh
  <2>1. AllDatabases \in Statement
    BY <1>0 DEF Statement, AllDatabases, Prefix
  <2>2. SendsUnnamed(AllDatabases) /\ UNCHANGED <<server, answers, jsonObject>>
    BY <1>4 DEF Refresh
  <2> QED BY <1>0, <2>1, <2>2, Sending, HarmGrows
<1>5. CASE \E d \in Databases : CreateDatabase(d)
  <2> PICK d \in Databases : CreateDatabase(d)
    BY <1>5
  <2> DEFINE s == [what |-> "createDatabase", of |-> d]
  <2>1. s \in Statement
    BY DEF Statement
  <2>2. SendsUnnamed(s) /\ UNCHANGED <<server, answers, jsonObject>>
    BY DEF CreateDatabase
  <2> QED BY <1>0, <2>1, <2>2, Sending, HarmGrows
<1>6. CASE CopyTable
  <2> DEFINE s == [what |-> "copy", table |-> currentNode.title]
  <2>1. currentNode.title \in Table
    BY <1>6, NodesOf, NodeParts DEF CopyTable, OnTable
  <2>2. s \in Statement
    BY <2>1 DEF Statement
  <2>3. SendsNamed(s) /\ UNCHANGED <<server, answers, jsonObject>>
    BY <1>6 DEF CopyTable
  <2> QED BY <1>0, <2>2, <2>3, Sending, HarmGrows
<1>7. CASE ExportDatabase \/ ExportTable
  <2> DEFINE s == [what |-> "export", node |-> currentNode]
  <2>1. currentNode \in Node
    BY <1>7, NodesOf DEF ExportDatabase, ExportTable, OnDatabase, OnTable
  <2>2. s \in Statement
    BY <2>1 DEF Statement
  <2>3. SendsNamed(s) /\ UNCHANGED <<server, answers, jsonObject>>
    BY <1>7 DEF ExportDatabase, ExportTable, Exports
  <2> QED BY <1>0, <2>2, <2>3, Sending, HarmGrows
<1> QED BY <1>1, <1>2, <1>3, <1>4, <1>5, <1>6, <1>7 DEF Clicks

\* The node of a question.
LEMMA QuestionOf ==
  ASSUME TreeOK, dialog # None
  PROVE  /\ dialog.node \in Node
         /\ dialog.what \in OfDatabase =>
              dialog.node.key \in Root /\ dialog.node.title \in Databases
         /\ dialog.what \in {"drop", "rename", "truncate"} =>
              dialog.node.key \in Leaf /\ dialog.node.title \in Table
  BY NodesOf DEF TreeOK, PageOK, OfDatabase

LEMMA AnswerSends ==
  ASSUME TreeOK, Answer
  PROVE  /\ UNCHANGED <<server, answers, jsonObject, currentNode, tabs, wanted>> /\ MayAdd
         /\ harm \subseteq harm' /\ harm' \subseteq Harms
         /\ dialog # None /\ dialog' = None
<1>0. ServerOK /\ harm \subseteq Harms
  BY DEF TreeOK, ServerOK
<1>a. UNCHANGED <<server, answers, jsonObject, currentNode, tabs, wanted>>
  BY DEF Answer
<1>1. CASE DropDatabase
  <2> DEFINE s == [what |-> "dropDatabase", of |-> dialog.node.title]
  <2>1. s \in Statement
    BY <1>1, QuestionOf DEF DropDatabase, Answers, Statement, OfDatabase
  <2>2. SendsUnnamed(s) /\ dialog # None /\ dialog' = None
    BY <1>1 DEF DropDatabase, Answers
  <2> QED BY <1>0, <1>a, <2>1, <2>2, Sending, HarmGrows
<1>2. CASE Import
  <2> DEFINE s == [what |-> "import", node |-> dialog.node]
  <2>1. s \in Statement
    BY <1>2, QuestionOf DEF Import, Answers, Statement
  <2>2. SendsUnnamed(s) /\ dialog # None /\ dialog' = None
    BY <1>2 DEF Import, Answers
  <2> QED BY <1>0, <1>a, <2>1, <2>2, Sending, HarmGrows
<1>3. CASE Truncate
  <2> DEFINE s == [what |-> "truncate", table |-> dialog.node.title]
  <2>1. s \in Statement
    BY <1>3, QuestionOf DEF Truncate, Answers, Statement
  <2>2. SendsNamed(s) /\ dialog # None /\ dialog' = None
    BY <1>3 DEF Truncate, Answers
  <2> QED BY <1>0, <1>a, <2>1, <2>2, Sending, HarmGrows
<1>4. CASE Drop
  <2> DEFINE s == [what |-> "drop", key |-> dialog.node.key, table |-> dialog.node.title]
  <2>1. s \in Statement
    BY <1>4, QuestionOf DEF Drop, Answers, Statement
  <2>2. Sends(s) /\ dialog # None /\ dialog' = None
    BY <1>4 DEF Drop, Answers
  <2>3. harm \subseteq harm' /\ harm' \subseteq Harms
    BY <1>0, <1>4 DEF Drop, Marked, Harms
  <2> QED BY <1>0, <1>a, <2>1, <2>2, <2>3, Sending
<1>5. ASSUME NEW n \in Titles, Create(n)
      PROVE  MayAdd /\ harm \subseteq harm' /\ harm' \subseteq Harms /\ dialog # None /\ dialog' = None
  <2> DEFINE s == [what |-> "create", key |-> dialog.node.key,
                   table |-> [of |-> dialog.node.title, name |-> n]]
  <2>1. dialog # None /\ dialog.what = "create" /\ dialog' = None /\ Sends(s)
    BY <1>5 DEF Create, Answers
  <2>2. dialog.node.key \in Root /\ [of |-> dialog.node.title, name |-> n] \in Table
    BY <2>1, QuestionOf DEF OfDatabase, Table
  <2>3. s \in Statement
    BY <2>2 DEF Statement
  <2>4. harm \subseteq harm' /\ harm' \subseteq Harms
    BY <1>0, <1>5 DEF Create, Marked, Harms
  <2> QED BY <1>0, <2>1, <2>3, <2>4, Sending
<1>6. ASSUME NEW n \in Titles, Rename(n)
      PROVE  MayAdd /\ harm \subseteq harm' /\ harm' \subseteq Harms /\ dialog # None /\ dialog' = None
  <2> DEFINE s == [what |-> "rename", key |-> dialog.node.key, table |-> dialog.node.title,
                   name |-> n]
  <2>1. dialog # None /\ dialog.what = "rename" /\ dialog' = None /\ Sends(s)
    BY <1>6 DEF Rename, Answers
  <2>2. dialog.node.key \in Leaf /\ dialog.node.title \in Table
    BY <2>1, QuestionOf
  <2>3. s \in Statement
    BY <2>2 DEF Statement
  <2>4. harm \subseteq harm' /\ harm' \subseteq Harms
    BY <1>0, <1>6 DEF Rename, Marked, Harms
  <2> QED BY <1>0, <2>1, <2>3, <2>4, Sending
<1> QED BY <1>a, <1>1, <1>2, <1>3, <1>4, <1>5, <1>6 DEF Answer

-----------------------------------------------------------------------------
\* Statements and results, by what they are.
LEMMA StatementParts ==
  ASSUME NEW s \in Statement
  PROVE  /\ s.what \in {"databases", "tables", "ddl", "copy", "truncate", "createDatabase",
                        "dropDatabase", "export", "import", "create", "rename", "drop"}
         /\ s.what = "databases" => s.prefix \in Nat
         /\ s.what \in {"tables", "create"} => s.key \in Root
         /\ s.what \in {"tables", "createDatabase", "dropDatabase"} => s.of \in Databases
         /\ s.what \in {"export", "import"} => s.node \in Node
         /\ s.what \in {"rename", "drop"} => s.key \in Leaf
         /\ s.what \in {"ddl", "copy", "truncate", "create", "rename", "drop"} => s.table \in Table
         /\ s.what = "rename" => s.name \in Titles
         /\ s.what \in {"ddl", "export", "import", "create", "rename", "drop"} => s \in Result
  BY DEF Statement, Result

LEMMA ResultParts ==
  ASSUME NEW a \in Result
  PROVE  /\ a.what \in {"databases", "tables", "executed", "ddl", "export", "import", "create",
                        "rename", "drop"}
         /\ a.what = "databases" => a.prefix \in Nat /\ a.nodes \in Placed(Databases)
         /\ a.what = "tables" => a.key \in Root /\ a.children \in Placed(Table)
         /\ a.what = "create" => a.key \in Root
         /\ a.what \in {"export", "import"} => a.node \in Node
         /\ a.what \in {"rename", "drop"} => a.key \in Leaf
         /\ a.what \in {"ddl", "create", "rename", "drop"} => a.table \in Table
         /\ a.what = "rename" => a.name \in Titles
  BY DEF Result

\* What the server does to the tables, and what it answers.
LEMMA ChangesStore ==
  ASSUME ServerOK, NEW s \in Statement, Possible(s), Changes(s)
  PROVE  DOMAIN store' \subseteq Databases /\ \A d \in DOMAIN store' : store'[d] \subseteq Titles
<1>0. DOMAIN store \subseteq Databases /\ \A d \in DOMAIN store : store[d] \subseteq Titles
  BY DEF ServerOK
<1> DEFINE w == s.what
<1>1. ASSUME NEW d, NEW names \in SUBSET Titles, Stores(d, names)
      PROVE  DOMAIN store' \subseteq Databases /\ \A x \in DOMAIN store' : store'[x] \subseteq Titles
  BY <1>0, <1>1 DEF Stores
<1>2. CASE w = "dropDatabase"
  BY <1>0, <1>2 DEF Changes
<1>3. CASE w = "createDatabase"
  BY <1>0, <1>3, StatementParts DEF Changes
<1>4. CASE w \in {"drop", "create", "rename", "copy"}
  <2>1. s.table.of \in DOMAIN store
    BY <1>4 DEF Possible, Has
  <2>2. s.table.name \in Titles /\ (w = "rename" => s.name \in Titles)
    BY <1>4, StatementParts DEF Table
  <2>3. CASE w = "drop"
    BY <1>0, <1>1, <2>1, <2>3 DEF Changes
  <2>4. CASE w = "create"
    BY <1>0, <1>1, <2>1, <2>2, <2>4 DEF Changes
  <2>5. CASE w = "rename"
    <3>1. Stores(s.table.of, (store[s.table.of] \ {s.table.name}) \cup {s.name})
      BY <2>5 DEF Changes
    <3> QED BY <1>0, <1>1, <2>1, <2>2, <2>5, <3>1
  <2>6. CASE w = "copy"
    <3>1. PICK n \in Titles : Stores(s.table.of, store[s.table.of] \cup {n})
      BY <2>6 DEF Changes
    <3> QED BY <1>0, <1>1, <2>1, <3>1
  <2> QED BY <1>4, <2>3, <2>4, <2>5, <2>6
<1>5. CASE w \notin {"dropDatabase", "createDatabase", "drop", "create", "rename", "copy"}
  <2>1. store' = store
    BY <1>5 DEF Changes
  <2> QED BY <2>1, <1>0
<1> QED BY <1>2, <1>3, <1>4, <1>5

LEMMA ReplyIsResult ==
  ASSUME ServerOK, NEW s \in Statement, Possible(s)
  PROVE  Reply(s) \in Result
<1>1. CASE s.what = "databases"
  <2>1. IsFiniteSet(DOMAIN store) /\ DOMAIN store \subseteq Databases
    BY NamesAreOrdered, FS_Subset DEF ServerOK
  <2>2. Ordered(DOMAIN store) \in Placed(Databases)
    BY <2>1, OrderedPlaced
  <2>3. Reply(s) = [what |-> "databases", prefix |-> s.prefix, nodes |-> Ordered(DOMAIN store)]
    BY <1>1 DEF Reply
  <2> HIDE DEF Ordered
  <2> QED BY <1>1, <2>2, <2>3, StatementParts DEF Result
<1>2. CASE s.what = "tables"
  <2>1. Reply(s) = [what |-> "tables", key |-> s.key, children |-> Children(s.of)]
    BY <1>2 DEF Reply
  <2>2. s.of \in DOMAIN store
    BY <1>2 DEF Possible
  <2> QED BY <1>2, <2>1, <2>2, ChildrenPlaced, StatementParts DEF Result
<1>3. CASE s.what \in {"truncate", "copy", "dropDatabase", "createDatabase"}
  BY <1>3 DEF Reply, Result
<1>4. CASE s.what \in {"ddl", "export", "import", "create", "rename", "drop"}
  <2>1. Reply(s) = s
    BY <1>4 DEF Reply
  <2> QED BY <1>4, <2>1, StatementParts
<1> QED BY <1>1, <1>2, <1>3, <1>4, StatementParts

\* Sequences of at most what was in them.
LEMMA TailIn ==
  ASSUME NEW T, NEW s \in Seq(T), s # <<>>
  PROVE  /\ Head(s) \in T /\ Tail(s) \in Seq(T) /\ Len(Tail(s)) = Len(s) - 1
         /\ \A i \in 1..(Len(s) - 1) : Tail(s)[i] = s[i + 1]
         /\ Head(s) = s[1] /\ Len(s) \in Nat /\ Len(s) # 0
  BY EmptySeq, HeadTailProperties

LEMMA AppendIn ==
  ASSUME NEW T, NEW s \in Seq(T), NEW x \in T
  PROVE  /\ Append(s, x) \in Seq(T) /\ Len(Append(s, x)) = Len(s) + 1 /\ Len(s) \in Nat
         /\ \A i \in 1..Len(s) : Append(s, x)[i] = s[i]
         /\ Append(s, x)[Len(s) + 1] = x
  BY AppendProperties, LenProperties

LEMMA OnlyOne ==
  ASSUME NEW T, NEW x \in T
  PROVE  <<x>> \in Seq(T) /\ Len(<<x>>) = 1 /\ <<x>>[1] = x /\ <<x>> # <<>>
  OBVIOUS

LEMMA MayAddTypes ==
  ASSUME ServerOK, MayAdd
  PROVE  wire' \in Seq(Statement) /\ sent' \in 1..MaxSent
<1>0. wire \in Seq(Statement) /\ sent \in 1..MaxSent /\ MaxSent \in Nat
  BY SendsAreCounted DEF ServerOK
<1>1. CASE UNCHANGED <<wire, sent>>
  BY <1>0, <1>1
<1>2. CASE \E s \in Statement : Adds(s)
  BY <1>0, <1>2, AppendIn DEF Adds
<1> QED BY <1>1, <1>2 DEF MayAdd

LEMMA ServerByPage ==
  ASSUME TreeOK, Clicks \/ Answer
  PROVE  ServerOK'
<1>1. UNCHANGED <<server, answers, jsonObject>> /\ MayAdd /\ harm' \subseteq Harms
  BY ClicksSend, AnswerSends
<1>2. ServerOK
  BY DEF TreeOK
<1>3. wire' \in Seq(Statement) /\ sent' \in 1..MaxSent
  BY <1>1, <1>2, MayAddTypes
<1>4. mode' = mode /\ kind' = kind /\ store' = store /\ answers' = answers /\ jsonObject' = jsonObject
  BY <1>1 DEF server
<1> QED BY <1>1, <1>2, <1>3, <1>4 DEF ServerOK

LEMMA ServerByExecute ==
  ASSUME TreeOK, Execute
  PROVE  ServerOK'
<1> DEFINE s == Head(wire)
<1>0. ServerOK /\ wire \in Seq(Statement) /\ answers \in Seq(Result) /\ harm \subseteq Harms
  BY DEF TreeOK, ServerOK
<1>1. s \in Statement /\ wire' \in Seq(Statement)
  BY <1>0, TailIn DEF Execute
<1>2. mode' = mode /\ kind' = kind /\ jsonObject' = jsonObject /\ sent' = sent
  BY DEF Execute
<1> HIDE DEF s
<1>3. CASE Possible(s)
  <2>1. Changes(s) /\ answers' = Append(answers, Reply(s)) /\ harm' = harm
    BY <1>3 DEF Execute, s
  <2>2. answers' \in Seq(Result)
    BY <1>0, <1>1, <1>3, <2>1, ReplyIsResult, AppendIn
  <2>3. DOMAIN store' \subseteq Databases /\ \A d \in DOMAIN store' : store'[d] \subseteq Titles
    BY <1>0, <1>1, <1>3, <2>1, ChangesStore
  <2> QED BY <1>0, <1>1, <1>2, <2>1, <2>2, <2>3 DEF ServerOK
<1>4. CASE ~Possible(s)
  <2>1. store' = store /\ answers' = answers /\ harm' = harm \cup {"refused"}
    BY <1>4 DEF Execute, s
  <2> QED BY <1>0, <1>1, <1>2, <2>1 DEF ServerOK, Harms
<1> QED BY <1>3, <1>4

LEMMA ServerByArrive ==
  ASSUME TreeOK, Arrive
  PROVE  ServerOK'
<1>0. ServerOK /\ answers \in Seq(Result) /\ harm \subseteq Harms
  BY DEF TreeOK, ServerOK
<1>1. Head(answers) \in Result /\ answers' \in Seq(Result)
  BY <1>0, TailIn DEF Arrive
<1>2. jsonObject' \in Seq(Result) /\ Len(jsonObject') <= 1
  BY <1>1, OnlyOne DEF Arrive
<1>3. UNCHANGED <<mode, kind, store, wire, sent>> /\ harm' \subseteq Harms
  BY <1>0 DEF Arrive, server, Marked, Harms
<1> QED BY <1>0, <1>1, <1>2, <1>3 DEF ServerOK

LEMMA AloneIn ==
  ASSUME NEW T, NEW s \in Seq(T), s # <<>>, Len(s) <= 1
  PROVE  Len(s) = 1 /\ s[1] \in T
  OBVIOUS

\* The answer that is worked on is a result.
LEMMA WorkedOn ==
  ASSUME TreeOK, Work
  PROVE  jsonObject # <<>> /\ Len(jsonObject) = 1 /\ jsonObject[1] \in Result /\ jsonObject' = <<>>
<1>1. jsonObject \in Seq(Result) /\ jsonObject # <<>> /\ jsonObject' = <<>>
  BY DEF TreeOK, ServerOK, Work
<1>2. Len(jsonObject) <= 1
  BY DEF TreeOK, ServerOK
<1> QED BY <1>1, <1>2, AloneIn

LEMMA ServerByWork ==
  ASSUME TreeOK, Work
  PROVE  ServerOK' /\ MayAdd
<1> DEFINE a == jsonObject[1]
<1>0. ServerOK /\ harm \subseteq Harms
  BY DEF TreeOK, ServerOK
<1>1. a \in Result /\ jsonObject' = <<>>
  BY WorkedOn
<1>2. UNCHANGED <<mode, kind, store, answers>>
  BY DEF Work, server
<1>3. Empties(a) \/ NewDatabases(a) \/ NewTables(a) \/ Definition(a) \/ Dropped(a)
        \/ Renamed(a) \/ Reloads(a) \/ Transferred(a)
  BY DEF Work
<1> HIDE DEF a
<1>4. CASE Reloads(a)
  <2>1. AllDatabases \in Statement
    BY <1>0 DEF AllDatabases, Prefix, Statement, ServerOK
  <2>2. a.what = "create" => [what |-> "tables", key |-> a.key, of |-> a.table.of] \in Statement
    BY <1>1, ResultParts DEF Statement, Table
  <2>3. MayAdd
    BY <1>0, <1>4, <2>1, <2>2, Sending DEF Reloads
  <2>4. harm' \subseteq Harms
    BY <1>0, <1>4 DEF Reloads, SendsUnnamed, Harms
  <2> QED BY <1>0, <1>1, <1>2, <2>3, <2>4, MayAddTypes DEF ServerOK
<1>5. CASE ~Reloads(a)
  <2>1. UNCHANGED <<wire, sent>>
    BY <1>3, <1>5 DEF Empties, NewDatabases, NewTables, Definition, Dropped, Renamed, Transferred
  <2>2. harm' = harm \/ \E h \in {"emptied", "shifted", "renamed"} : harm' = harm \cup {h}
    BY <1>3, <1>5 DEF Empties, NewDatabases, NewTables, Definition, Dropped, Renamed, Transferred,
         Marked
  <2>3. harm' \subseteq Harms
    BY <1>0, <2>2 DEF Harms
  <2> QED BY <1>0, <1>1, <1>2, <2>1, <2>3 DEF ServerOK, MayAdd
<1> QED BY <1>4, <1>5

-----------------------------------------------------------------------------
\* The page.

\* A list of another type, or with fewer places.
LEMMA EmptyPlaced ==
  ASSUME NEW T
  PROVE  <<>> \in Placed(T) /\ DOMAIN <<>> = {}
<1>1. DOMAIN <<>> = {} /\ <<>> = [i \in DOMAIN <<>> |-> <<>>[i]]
  OBVIOUS
<1> QED BY <1>1, IsPlaced

LEMMA FewerPlaced ==
  ASSUME NEW T, NEW f \in Placed(T), NEW S
  PROVE  [j \in DOMAIN f \ S |-> f[j]] \in Placed(T)
<1> DEFINE g == [j \in DOMAIN f \ S |-> f[j]]
<1>1. DOMAIN f \subseteq Nat /\ \A j \in DOMAIN f : f[j] \in T
  BY PlacedParts
<1>2. DOMAIN g \subseteq Nat /\ (\A j \in DOMAIN g : g[j] \in T) /\ g = [j \in DOMAIN g |-> g[j]]
  BY <1>1
<1> HIDE DEF g
<1>3. g \in Placed(T)
  BY <1>2, IsPlaced
<1> QED BY <1>3 DEF g

LEMMA RenamedPlaced ==
  ASSUME NEW f \in Placed(Table), NEW j \in DOMAIN f, NEW n \in Titles
  PROVE  /\ [f EXCEPT ![j].name = n] \in Placed(Table)
         /\ DOMAIN [f EXCEPT ![j].name = n] = DOMAIN f
         /\ [f EXCEPT ![j].name = n][j] = [of |-> f[j].of, name |-> n]
         /\ \A l \in DOMAIN f \ {j} : [f EXCEPT ![j].name = n][l] = f[l]
<1> DEFINE v == [f[j] EXCEPT !.name = n]
           g == [f EXCEPT ![j] = v]
<1>1. DOMAIN f \subseteq Nat /\ \A l \in DOMAIN f : f[l] \in Table
  BY PlacedParts
<1>2. v = [of |-> f[j].of, name |-> n]
  BY <1>1 DEF Table
<1>3. v \in Table
  BY <1>1, <1>2 DEF Table
<1>4. g = [f EXCEPT ![j].name = n]
  OBVIOUS
<1> HIDE DEF v
<1>5. /\ DOMAIN g = DOMAIN f /\ g[j] = v /\ g = [l \in DOMAIN g |-> g[l]]
      /\ \A l \in DOMAIN f \ {j} : g[l] = f[l]
  OBVIOUS
<1> HIDE DEF g
<1>6. g \in Placed(Table)
  <2>1. \A l \in DOMAIN g : g[l] \in Table
    BY <1>1, <1>3, <1>5
  <2> QED BY <2>1, <1>1, <1>5, IsPlaced
<1> QED BY <1>2, <1>4, <1>5, <1>6

\* What Relisted does to the tables that are listed.
LEMMA RelistedKeys ==
  ASSUME NEW t \in Tree, NEW key, key[2] \in DOMAIN t.nodes, NEW tables \in Placed(Table),
         NEW u, u = Relisted(t, key, tables)
  PROVE  /\ \A k \in TableKeys(u) : k[2] # key[2] => k \in TableKeys(t) /\ At(u, k) = At(t, k)
         /\ \A k \in TableKeys(u) : k[2] = key[2] => k[3] \in DOMAIN tables /\ At(u, k) = tables[k[3]]
<1> DEFINE m == key[2]
<1>1. /\ u \in Tree /\ u.prefix = t.prefix /\ DOMAIN u.nodes = DOMAIN t.nodes
      /\ u.nodes[m] = [name |-> t.nodes[m].name, tables |-> tables, loaded |-> TRUE]
      /\ \A i \in DOMAIN t.nodes \ {m} : u.nodes[i] = t.nodes[i]
  BY RelistedTree
<1>2. ASSUME NEW k \in TableKeys(u)
      PROVE  k[2] \in DOMAIN t.nodes /\ k[3] \in DOMAIN u.nodes[k[2]].tables /\ k = <<t.prefix, k[2], k[3]>>
  BY <1>1 DEF TableKeys
<1>3. ASSUME NEW k \in TableKeys(u), k[2] # m
      PROVE  k \in TableKeys(t) /\ At(u, k) = At(t, k)
  <2>1. u.nodes[k[2]] = t.nodes[k[2]]
    BY <1>1, <1>2, <1>3
  <2> QED BY <1>2, <2>1 DEF TableKeys, At
<1>4. ASSUME NEW k \in TableKeys(u), k[2] = m
      PROVE  k[3] \in DOMAIN tables /\ At(u, k) = tables[k[3]]
  BY <1>1, <1>2, <1>4 DEF At
<1> QED BY <1>3, <1>4

\* What deleting a node does: the others stay.
LEMMA WithoutTree ==
  ASSUME NEW t \in Tree, NEW k
  PROVE  /\ Without(t, k) \in Tree /\ DatabaseKeys(Without(t, k)) = DatabaseKeys(t)
         /\ \A x \in TableKeys(Without(t, k)) : x \in TableKeys(t) /\ At(Without(t, k), x) = At(t, x)
<1>1. CASE k \in TableKeys(t)
  <2> DEFINE tables == t.nodes[k[2]].tables
             less == [j \in DOMAIN tables \ {k[3]} |-> tables[j]]
  <2>1. k[2] \in DOMAIN t.nodes /\ t.nodes[k[2]] \in Nodes
    BY <1>1, TreeKeys
  <2>2. tables \in Placed(Table)
    BY <2>1 DEF Nodes
  <2>3. less \in Placed(Table)
    BY <2>2, FewerPlaced
  <2>4. Without(t, k) = Relisted(t, k, less)
    BY <1>1 DEF Without
  <2>5. DOMAIN less = DOMAIN tables \ {k[3]} /\ \A j \in DOMAIN less : less[j] = tables[j]
    OBVIOUS
  <2> HIDE DEF less
  <2>6. Without(t, k) \in Tree /\ DatabaseKeys(Without(t, k)) = DatabaseKeys(t) /\ Without(t, k).prefix = t.prefix
    <3> HIDE DEF tables
    <3>1. Without(t, k) \in Tree
      BY <2>1, <2>3, <2>4, RelistedTree
    <3>2. DatabaseKeys(Without(t, k)) = DatabaseKeys(t)
      BY <2>1, <2>3, <2>4, RelistedTree
    <3>3. Without(t, k).prefix = t.prefix
      BY <2>4, RelistedPrefix
    <3> QED BY <3>1, <3>2, <3>3
  <2>7. ASSUME NEW x \in TableKeys(Without(t, k))
        PROVE  x \in TableKeys(t) /\ At(Without(t, k), x) = At(t, x)
    <3>1. CASE x[2] # k[2]
      BY <2>1, <2>3, <2>4, <2>7, <3>1, RelistedKeys
    <3>2. CASE x[2] = k[2]
      <4>1. x[3] \in DOMAIN less /\ At(Without(t, k), x) = less[x[3]]
        BY <2>1, <2>3, <2>4, <2>7, <3>2, RelistedKeys
      <4>2. x = <<t.prefix, x[2], x[3]>>
        BY <2>6, <2>7 DEF TableKeys
      <4> QED BY <2>1, <2>5, <3>2, <4>1, <4>2 DEF TableKeys, At
    <3> QED BY <3>1, <3>2
  <2> QED BY <2>6, <2>7
<1>2. CASE k \notin TableKeys(t)
  BY <1>2 DEF Without
<1> QED BY <1>1, <1>2

\* The nodes shown after a search are of the tree.
LEMMA FilteredKeys ==
  ASSUME NEW t \in Tree, NEW text
  PROVE  Filtered(t, text) \subseteq AllKeys(t)
<1>1. \A k \in TableKeys(t) : Above(k) \in DatabaseKeys(t)
  BY TreeKeys
<1> QED BY <1>1 DEF Filtered, AllKeys

LEMMA AllKeysParts ==
  ASSUME NEW t \in Tree, NEW k \in AllKeys(t)
  PROVE  \/ Len(k) = 2 /\ Len(k) # 3 /\ k \in Root /\ k \in DatabaseKeys(t) /\ t.nodes[k[2]].name \in Databases
         \/ Len(k) = 3 /\ k \in Leaf /\ k \in TableKeys(t) /\ At(t, k) \in Table
<1>1. CASE k \in DatabaseKeys(t)
  <2>1. k \in Root /\ t.nodes[k[2]] \in Nodes
    BY <1>1, TreeKeys
  <2> QED BY <1>1, <2>1, KeyParts DEF Nodes
<1>2. CASE k \in TableKeys(t)
  BY <1>2, TreeKeys, KeyParts
<1> QED BY <1>1, <1>2 DEF AllKeys

LEMMA TabsParts ==
  ASSUME PageOK
  PROVE  DOMAIN tabs \subseteq Leaf /\ (\A k \in DOMAIN tabs : tabs[k] \in Table)
           /\ tabs = [k \in DOMAIN tabs |-> tabs[k]]
  BY DEF PageOK

LEMMA TabsAre ==
  ASSUME NEW f, DOMAIN f \subseteq Leaf, \A k \in DOMAIN f : f[k] \in Table, f = [k \in DOMAIN f |-> f[k]]
  PROVE  f \in UNION {[K -> Table] : K \in SUBSET Leaf}
  OBVIOUS

\* Clicks leave the tree alone.
LEMMA PageByClicks ==
  ASSUME TreeOK, Clicks
  PROVE  PageOK' /\ tree' = tree
<1>0. PageOK /\ tree \in Tree /\ shown \subseteq AllKeys(tree)
  BY DEF TreeOK, PageOK
<1>1. CASE \/ \E i \in DOMAIN tree.nodes : Expand(i)
           \/ \E k \in AllKeys(tree) : Select(k)
           \/ Refresh \/ \E d \in Databases : CreateDatabase(d)
  <2>1. UNCHANGED <<tree, shown, ui>>
    BY <1>1 DEF Expand, Select, Refresh, CreateDatabase
  <2> QED BY <2>1, <1>0 DEF PageOK, ui
<1>2. CASE \E k \in AllKeys(tree) : RightClick(k)
  <2> PICK k \in AllKeys(tree) : RightClick(k)
    BY <1>2
  <2>1. currentNode' \in Node
    <3> DEFINE x == IF Len(k) = 3 THEN At(tree, k) ELSE tree.nodes[k[2]].name
    <3>a. \/ Len(k) = 2 /\ Len(k) # 3 /\ k \in Root /\ tree.nodes[k[2]].name \in Databases
          \/ Len(k) = 3 /\ k \in Leaf /\ At(tree, k) \in Table
      BY <1>0, AllKeysParts
    <3>1. (k \in Root /\ x \in Databases) \/ (k \in Leaf /\ x \in Table)
      BY <3>a
    <3>2. currentNode' = [key |-> k, title |-> x]
      BY DEF RightClick
    <3> HIDE DEF x
    <3> QED BY <3>1, <3>2, NodeIs
  <2>2. UNCHANGED <<tree, shown, dialog, tabs, wanted>> /\ dialog = None
    BY DEF RightClick
  <2> QED BY <2>1, <2>2, <1>0 DEF PageOK
<1>3. CASE \E text \in Texts \cup {None} : Filter(text)
  <2>1. UNCHANGED <<tree, currentNode, dialog, tabs, wanted>> /\ shown' \subseteq AllKeys(tree)
    BY <1>0, <1>3, FilteredKeys DEF Filter
  <2> QED BY <2>1, <1>0 DEF PageOK
<1>4. CASE OpenTab
  <2> DEFINE k == currentNode.key
  <2>1. k \in Leaf /\ currentNode.title \in Table
    BY <1>4, NodesOf, NodeParts DEF OpenTab, OnTable
  <2>2. /\ UNCHANGED <<tree, shown, dialog>> /\ currentNode' = None
        /\ wanted' = [key |-> k, table |-> currentNode.title]
        /\ tabs' = IF k \in DOMAIN tabs THEN tabs
                   ELSE [x \in DOMAIN tabs \cup {k} |-> IF x = k THEN currentNode.title ELSE tabs[x]]
    BY <1>4 DEF OpenTab, TabKey
  <2>3. wanted' \in [key : Leaf, table : Table]
    BY <2>1, <2>2
  <2> HIDE DEF k
  <2>4. DOMAIN tabs' \subseteq Leaf /\ (\A x \in DOMAIN tabs' : tabs'[x] \in Table)
          /\ tabs' = [x \in DOMAIN tabs' |-> tabs'[x]]
    BY <1>0, <2>1, <2>2, TabsParts
  <2>5. tabs' \in UNION {[K -> Table] : K \in SUBSET Leaf}
    BY <2>4, TabsAre
  <2> QED BY <2>2, <2>3, <2>5, <1>0 DEF PageOK
<1>5. CASE \E k \in DOMAIN tabs : CloseTab(k)
  <2> PICK k \in DOMAIN tabs : CloseTab(k)
    BY <1>5
  <2>1. /\ UNCHANGED <<tree, shown, dialog, currentNode>> /\ wanted' \in {None, wanted}
        /\ tabs' = [x \in DOMAIN tabs \ {k} |-> tabs[x]]
    BY DEF CloseTab
  <2>2. DOMAIN tabs' \subseteq Leaf /\ (\A x \in DOMAIN tabs' : tabs'[x] \in Table)
          /\ tabs' = [x \in DOMAIN tabs' |-> tabs'[x]]
    BY <1>0, <2>1, TabsParts
  <2>3. tabs' \in UNION {[K -> Table] : K \in SUBSET Leaf}
    BY <2>2, TabsAre
  <2> QED BY <2>1, <2>3, <1>0 DEF PageOK
<1>6. CASE \E what \in Items : Asks(what)
  <2> PICK what \in Items : Asks(what)
    BY <1>6
  <2>1. /\ UNCHANGED <<tree, shown, tabs, wanted>> /\ currentNode' = None /\ currentNode # None
        /\ dialog' = [what |-> what, node |-> currentNode, found |-> Found]
    BY DEF Asks
  <2>2. currentNode \in Node
    BY <2>1, NodesOf
  <2>3. what \in Questions
    BY DEF Items, DatabaseItems, TablesItems, RoutinesItems, TableItems, RoutineItems, Questions
  <2>4. what \in OfDatabase <=> Len(currentNode.key) = 2
    BY <2>1 DEF Items, DatabaseItems, TablesItems, RoutinesItems, TableItems, RoutineItems,
         OfDatabase, OnDatabase
  <2>5. Found \in BOOLEAN
    BY DEF Found
  <2>6. dialog' \in Dialog /\ dialog'.node = currentNode /\ dialog'.what = what
    BY <2>1, <2>2, <2>3, <2>5 DEF Dialog
  <2>7. IF what \in OfDatabase THEN currentNode.key \in Root /\ currentNode.title \in Databases
        ELSE currentNode.key \in Leaf /\ currentNode.title \in Table
    BY <2>2, <2>4, NodeParts
  <2> QED BY <2>1, <2>6, <2>7, <1>0 DEF PageOK
<1>7. CASE CopyTable \/ ExportDatabase \/ ExportTable
  <2>1. UNCHANGED <<tree, shown, dialog, tabs, wanted>> /\ currentNode' = None
    BY <1>7 DEF CopyTable, ExportDatabase, ExportTable, Exports
  <2> QED BY <2>1, <1>0 DEF PageOK
<1>8. CASE GiveUp
  <2>1. UNCHANGED <<tree, shown, currentNode, tabs, wanted>> /\ dialog' = None
    BY <1>8 DEF GiveUp
  <2> QED BY <2>1, <1>0 DEF PageOK
<1>9. tree' = tree
  BY DEF Clicks, Expand, Select, RightClick, Filter, OpenTab, CloseTab, Refresh, CreateDatabase,
     Asks, CopyTable, ExportDatabase, ExportTable, Exports, GiveUp
<1> QED BY <1>1, <1>2, <1>3, <1>4, <1>5, <1>6, <1>7, <1>8, <1>9 DEF Clicks

\* Where the tree is changed, all of it is shown.
LEMMA PageByTree ==
  ASSUME PageOK, tree' \in Tree, shown' \subseteq AllKeys(tree'), UNCHANGED <<currentNode, tabs, wanted>>,
         dialog' \in {dialog, None}
  PROVE  PageOK'
  BY DEF PageOK

LEMMA PageByAnswer ==
  ASSUME TreeOK, Answer
  PROVE  PageOK'
<1>0. PageOK /\ tree \in Tree /\ shown \subseteq AllKeys(tree)
  BY DEF TreeOK, PageOK
<1>1. UNCHANGED <<currentNode, tabs, wanted>> /\ dialog' = None
  BY AnswerSends
<1>2. UNCHANGED <<tree, shown>> \/ \E k : DeleteNode(k)
  BY DEF Answer, DropDatabase, Import, Truncate, Drop, Create, Rename
<1>3. tree' \in Tree /\ shown' \subseteq AllKeys(tree')
  BY <1>0, <1>2, WithoutTree DEF DeleteNode
<1> QED BY <1>0, <1>1, <1>3, PageByTree

\* What an answer does to the tree.
LEMMA TreeByWork ==
  ASSUME TreeOK, Work, NEW a, a = jsonObject[1]
  PROVE  /\ tree' \in Tree /\ shown' \subseteq AllKeys(tree') /\ UNCHANGED <<currentNode, dialog, tabs, wanted>>
         /\ \/ UNCHANGED tree
            \/ /\ a.what = "databases"
               /\ tree' = [prefix |-> a.prefix, nodes |-> [i \in DOMAIN a.nodes |->
                             [name |-> a.nodes[i], tables |-> <<>>, loaded |-> FALSE]]]
            \/ /\ a.what = "tables" /\ a.key \in DatabaseKeys(tree) /\ a.children \in Placed(Table)
               /\ tree' = Relisted(tree, a.key, a.children)
               /\ harm' = Marked(Shifted(tree', a.key), "shifted")
            \/ /\ a.what = "drop" /\ kind = "routine" /\ tree' = Without(tree, a.key)
            \/ /\ a.what = "rename" /\ a.key \in TableKeys(tree) /\ a.name \in Titles
               /\ tree' = Relisted(tree, a.key, [tree.nodes[a.key[2]].tables EXCEPT ![a.key[3]].name = a.name])
               /\ harm' = Marked(a.key \in {r[1] : r \in References}, "renamed")
<1>0. PageOK /\ tree \in Tree /\ shown \subseteq AllKeys(tree)
  BY DEF TreeOK, PageOK
<1>1. a \in Result
  BY WorkedOn
<1>2. UNCHANGED <<currentNode, dialog, tabs, wanted>>
  BY DEF Work
<1>3. Empties(a) \/ NewDatabases(a) \/ NewTables(a) \/ Definition(a) \/ Dropped(a)
        \/ Renamed(a) \/ Reloads(a) \/ Transferred(a)
  BY DEF Work
<1>4. CASE Empties(a) \/ Definition(a) \/ Reloads(a) \/ Transferred(a)
  <2>1. UNCHANGED <<tree, shown>>
    BY <1>4 DEF Empties, Definition, Reloads, Transferred
  <2> QED BY <2>1, <1>0, <1>2
<1>5. CASE NewDatabases(a)
  <2> DEFINE new == [i \in DOMAIN a.nodes |-> [name |-> a.nodes[i], tables |-> <<>>, loaded |-> FALSE]]
  <2>1. a.what = "databases" /\ tree' = [prefix |-> a.prefix, nodes |-> new] /\ shown' = AllKeys(tree')
    BY <1>5 DEF NewDatabases, Drawn
  <2>2. a.prefix \in Nat /\ a.nodes \in Placed(Databases)
    BY <1>1, <2>1, ResultParts
  <2>3. DOMAIN a.nodes \subseteq Nat /\ \A i \in DOMAIN a.nodes : a.nodes[i] \in Databases
    BY <2>2, PlacedParts
  <2>4. DOMAIN new = DOMAIN a.nodes /\ \A i \in DOMAIN a.nodes : new[i] \in Nodes
    BY <2>3, EmptyPlaced DEF Nodes
  <2>5. new = [i \in DOMAIN new |-> new[i]]
    OBVIOUS
  <2> HIDE DEF new
  <2>6. new \in Placed(Nodes)
    BY <2>3, <2>4, <2>5, IsPlaced
  <2>7. tree' \in Tree
    BY <2>1, <2>2, <2>6 DEF Tree
  <2> QED BY <1>2, <2>1, <2>7 DEF new
<1>6. CASE NewTables(a)
  <2>1. a.what = "tables" /\ shown' = AllKeys(tree')
    BY <1>6 DEF NewTables, Drawn
  <2>2. a.children \in Placed(Table)
    BY <1>1, <2>1, ResultParts
  <2>3. CASE a.key \in DatabaseKeys(tree)
    <3>1. a.key[2] \in DOMAIN tree.nodes
      BY <1>0, <2>3, TreeKeys
    <3>2. tree' = Relisted(tree, a.key, a.children) /\ harm' = Marked(Shifted(tree', a.key), "shifted")
      BY <1>6, <2>3 DEF NewTables
    <3>3. tree' \in Tree
      BY <1>0, <2>2, <3>1, <3>2, RelistedTree
    <3> QED BY <1>2, <2>1, <2>2, <2>3, <3>2, <3>3
  <2>4. CASE a.key \notin DatabaseKeys(tree)
    BY <1>0, <1>2, <1>6, <2>1, <2>4 DEF NewTables
  <2> QED BY <2>3, <2>4
<1>7. CASE Dropped(a)
  <2>1. a.what = "drop" /\ ((kind = "routine" /\ DeleteNode(a.key)) \/ UNCHANGED <<tree, shown>>)
    BY <1>7 DEF Dropped
  <2> QED BY <1>0, <1>2, <2>1, WithoutTree DEF DeleteNode
<1>8. CASE Renamed(a)
  <2>1. a.what = "rename" /\ a.name \in Titles
    BY <1>1, <1>8, ResultParts DEF Renamed
  <2>2. CASE a.key \in TableKeys(tree)
    <3> DEFINE tables == tree.nodes[a.key[2]].tables
               new == [tables EXCEPT ![a.key[3]].name = a.name]
    <3>1. a.key[2] \in DOMAIN tree.nodes /\ tree.nodes[a.key[2]] \in Nodes /\ a.key[3] \in DOMAIN tables
      BY <1>0, <2>2, TreeKeys
    <3>2. tables \in Placed(Table)
      BY <3>1 DEF Nodes
    <3>3. tree' = Relisted(tree, a.key, new) /\ harm' = Marked(a.key \in {r[1] : r \in References}, "renamed")
            /\ shown' = AllKeys(tree')
      BY <1>8, <2>2 DEF Renamed, Drawn
    <3>4. new \in Placed(Table)
      BY <2>1, <3>1, <3>2, RenamedPlaced
    <3>5. tree' \in Tree
      <4> HIDE DEF new, tables
      <4> QED BY <1>0, <3>1, <3>3, <3>4, RelistedTree
    <3> QED BY <1>2, <2>1, <2>2, <3>3, <3>5
  <2>3. CASE a.key \notin TableKeys(tree)
    BY <1>0, <1>2, <1>8, <2>3 DEF Renamed
  <2> QED BY <2>2, <2>3
<1> QED BY <1>3, <1>4, <1>5, <1>6, <1>7, <1>8

LEMMA Inductive ==
  ASSUME TreeOK, Step \/ UNCHANGED treeVars
  PROVE  TreeOK'
<1>0. PageOK /\ ServerOK
  BY DEF TreeOK
<1>1. CASE Clicks
  BY <1>1, ServerByPage, PageByClicks DEF TreeOK
<1>2. CASE Answer
  BY <1>2, ServerByPage, PageByAnswer DEF TreeOK
<1>3. CASE Execute
  <2>1. UNCHANGED <<tree, shown, ui>>
    BY <1>3 DEF Execute
  <2>2. PageOK'
    BY <1>0, <2>1 DEF PageOK, ui
  <2> QED BY <1>3, <2>2, ServerByExecute DEF TreeOK
<1>4. CASE Arrive
  <2>1. UNCHANGED <<tree, shown, ui>>
    BY <1>4 DEF Arrive
  <2>2. PageOK'
    BY <1>0, <2>1 DEF PageOK, ui
  <2> QED BY <1>4, <2>2, ServerByArrive DEF TreeOK
<1>5. CASE Work
  <2>1. PageOK'
    BY <1>0, <1>5, TreeByWork, PageByTree
  <2> QED BY <1>5, <2>1, ServerByWork DEF TreeOK
<1>6. CASE UNCHANGED treeVars
  BY <1>6 DEF TreeOK, ServerOK, PageOK, treeVars, server, ui
<1> QED BY <1>1, <1>2, <1>3, <1>4, <1>5, <1>6, StepIs

LEMMA Initially == Init => TreeOK
<1> SUFFICES ASSUME Init PROVE TreeOK
  OBVIOUS
<1>1. <<>> \in Placed(Nodes) /\ DOMAIN <<>> = {}
  BY EmptyPlaced
<1>2. tree \in Tree
  BY <1>1 DEF Init, Empty, Tree
<1>3. wire \in Seq(Statement)
  BY OnlyOne DEF Init, Statement
<1>4. tabs \in UNION {[K -> Table] : K \in SUBSET Leaf}
  <2>1. DOMAIN tabs = {} /\ tabs = [k \in DOMAIN tabs |-> tabs[k]]
    BY DEF Init
  <2> QED BY <2>1, TabsAre
<1>5. sent \in 1..MaxSent
  BY SendsAreCounted DEF Init
<1>6. DOMAIN store \subseteq Databases /\ \A d \in DOMAIN store : store[d] \subseteq Titles
  BY TablesAreNamed DEF Init
<1>7. answers \in Seq(Result) /\ jsonObject \in Seq(Result) /\ Len(jsonObject) <= 1
  BY DEF Init
<1>8. harm \subseteq Harms /\ mode \in {"single", "multiple"} /\ kind \in Kinds
  BY DEF Init
<1>9. shown = {} /\ currentNode = None /\ dialog = None /\ wanted = None
  BY DEF Init
<1> QED BY <1>2, <1>3, <1>4, <1>5, <1>6, <1>7, <1>8, <1>9 DEF TreeOK, ServerOK, PageOK

LEMMA TreeIsTyped == TreeOK => TypeOK
<1> SUFFICES ASSUME TreeOK PROVE TypeOK
  OBVIOUS
<1>1. ServerOK /\ PageOK /\ tree \in Tree /\ shown \subseteq AllKeys(tree)
  BY DEF TreeOK, PageOK
<1>2. \A i \in DOMAIN tree.nodes : tree.nodes[i].name \in Databases
  BY <1>1, TreeKeys DEF Nodes
<1>3. \A k \in TableKeys(tree) : At(tree, k) \in Table
  BY <1>1, TreeKeys
<1>4. \A k \in DOMAIN tabs : tabs[k] \in Table
  BY <1>1, TabsParts
<1> QED BY <1>1, <1>2, <1>3, <1>4 DEF TypeOK, ServerOK

\* The types of the tree, the menus, the tabs and of what is under way, for any
\* databases and tables, and any number of statements and mishaps: a table is
\* listed only below a database of the tree, and nothing is shown that is not in it.
THEOREM TreeTypes == Spec => []TypeOK
<1>1. TreeOK /\ [Next]_treeVars => TreeOK'
  BY Inductive DEF Next
<1> QED BY <1>1, Initially, TreeIsTyped, PTL DEF Spec

-----------------------------------------------------------------------------
\* What is known of a table: its key and the table the key was seen to be of.
TabRefs == {<<k, tabs[k]>> : k \in DOMAIN tabs}
AskedRefs == IF dialog = None THEN {} ELSE Held(dialog.node)
SentRefs == UNION {Named(s) : s \in Among(wire) \cup Among(answers)}
LastRefs == UNION {Named(a) : a \in Among(jsonObject)}
Known == References \cup LastRefs

\* Whatever is known of a key is the same, and is so in the tree, if the key is in
\* it; and the tab that was asked for last is open.
Agreement ==
  /\ \A r \in Known : r[1] \in TableKeys(tree) => At(tree, r[1]) = r[2]
  /\ \A r, s \in Known : r[1] = s[1] => r[2] = s[2]
  /\ wanted # None => wanted.key \in DOMAIN tabs /\ tabs[wanted.key] = wanted.table
Unmoved(h) == h \cap {"shifted", "renamed"} = {}
Agreed == Unmoved(harm) => Agreement

LEMMA KnownIs ==
  /\ Known = TabRefs \cup Held(currentNode) \cup AskedRefs \cup SentRefs \cup LastRefs
  /\ Known' = TabRefs' \cup Held(currentNode)' \cup AskedRefs' \cup SentRefs' \cup LastRefs'
  BY DEF Known, References, TabRefs, AskedRefs, SentRefs

LEMMA AmongSequences ==
  ASSUME NEW T, NEW s \in Seq(T)
  PROVE  /\ \A x \in T : Among(Append(s, x)) = Among(s) \cup {x}
         /\ s # <<>> => Among(Tail(s)) \subseteq Among(s) /\ Head(s) \in Among(s)
<1>0. Len(s) \in Nat /\ DOMAIN s = 1..Len(s)
  BY LenProperties
<1>1. ASSUME NEW x \in T
      PROVE  Among(Append(s, x)) = Among(s) \cup {x}
  <2> DEFINE u == Append(s, x)
  <2>1. /\ DOMAIN u = 1..(Len(s) + 1) /\ u[Len(s) + 1] = x
        /\ \A i \in 1..Len(s) : u[i] = s[i]
    BY <1>1, AppendProperties, LenProperties
  <2> HIDE DEF u
  <2>2. DOMAIN u = DOMAIN s \cup {Len(s) + 1}
    BY <1>0, <2>1
  <2> QED BY <1>0, <2>1, <2>2 DEF Among
<1>2. ASSUME s # <<>>
      PROVE  Among(Tail(s)) \subseteq Among(s) /\ Head(s) \in Among(s)
  <2> DEFINE u == Tail(s)
  <2>1. u \in Seq(T) /\ Len(u) = Len(s) - 1 /\ Head(s) = s[1] /\ Len(s) # 0
         /\ \A i \in 1..(Len(s) - 1) : u[i] = s[i + 1]
    BY <1>2, TailIn
  <2>2. DOMAIN u = 1..(Len(s) - 1)
    BY <2>1, LenProperties
  <2> HIDE DEF u
  <2>3. \A i \in DOMAIN u : i + 1 \in DOMAIN s /\ u[i] = s[i + 1]
    BY <1>0, <2>1, <2>2
  <2>4. 1 \in DOMAIN s
    BY <1>0, <2>1
  <2> QED BY <2>1, <2>3, <2>4 DEF Among, u
<1> QED BY <1>1, <1>2

\* A statement that is sent adds what it names.
LEMMA SentRefsBySend ==
  ASSUME ServerOK, NEW s \in Statement, Sends(s) \/ SendsNamed(s) \/ SendsUnnamed(s),
         UNCHANGED answers
  PROVE  SentRefs' \subseteq SentRefs \cup Named(s)
<1>0. wire \in Seq(Statement)
  BY DEF ServerOK
<1>1. Among(Append(wire, s)) = Among(wire) \cup {s}
  BY <1>0, AmongSequences
<1>2. wire' = wire \/ wire' = Append(wire, s)
  BY DEF Sends, SendsNamed, SendsUnnamed
<1>3. Among(wire') \subseteq Among(wire) \cup {s}
  BY <1>1, <1>2
<1>4. SentRefs' = UNION {Named(x) : x \in Among(wire') \cup Among(answers)}
  BY DEF SentRefs, Named
<1> QED BY <1>3, <1>4 DEF SentRefs

\* A statement that names no key adds none.
LEMMA NamesNone == \A s : s.what \notin {"rename", "drop"} => Named(s) = {}
  BY DEF Named

\* Nothing more is known, and the tree has at most fewer tables.
LEMMA AgreeingLess ==
  ASSUME Agreement, Known' \subseteq Known,
         \A k \in TableKeys(tree') : k \in TableKeys(tree) /\ At(tree', k) = At(tree, k),
         wanted' # None => wanted'.key \in DOMAIN tabs' /\ tabs'[wanted'.key] = wanted'.table
  PROVE  Agreement'
  BY DEF Agreement, At, TableKeys

LEMMA HeldIs ==
  ASSUME NEW n \in Node
  PROVE  /\ n.key \in Leaf => Held(n) = {<<n.key, n.title>>}
         /\ n.key \in Root => Held(n) = {}
  BY KeyParts, NoNode DEF Held

\* Clicks keep what is known, but for a table whose menu is opened, which is known
\* from the tree, and a table that gets a tab, which is known from the menu.
LEMMA AgreeByClicks ==
  ASSUME TreeOK, Clicks, Agreement
  PROVE  Agreement'
<1>0. ServerOK /\ PageOK /\ tree \in Tree /\ tree' = tree
  BY PageByClicks DEF TreeOK, PageOK
<1>1. UNCHANGED <<answers, jsonObject>>
  BY ClicksSend
<1>2. LastRefs' = LastRefs
  BY <1>1 DEF LastRefs, Named, Among
<1>3. \A k \in TableKeys(tree') : k \in TableKeys(tree) /\ At(tree', k) = At(tree, k)
  BY <1>0
<1>4. ASSUME UNCHANGED <<tabs, wanted>>,
             Held(currentNode)' \subseteq Held(currentNode),
             AskedRefs' \subseteq AskedRefs \cup Held(currentNode), SentRefs' \subseteq SentRefs
      PROVE  Agreement'
  <2>1. TabRefs' = TabRefs
    BY <1>4 DEF TabRefs
  <2>2. Known' \subseteq Known
    BY <1>2, <1>4, <2>1, KnownIs
  <2>3. wanted' # None => wanted'.key \in DOMAIN tabs' /\ tabs'[wanted'.key] = wanted'.table
    BY <1>4 DEF Agreement
  <2> QED BY <1>3, <2>2, <2>3, AgreeingLess
<1>5. ASSUME UNCHANGED <<currentNode, dialog, tabs, wanted>> \/ (currentNode' = None /\ UNCHANGED <<dialog, tabs, wanted>>),
             NEW s \in Statement, Sends(s) \/ SendsNamed(s) \/ SendsUnnamed(s), s.what \notin {"rename", "drop"}
      PROVE  Agreement'
  <2>1. SentRefs' \subseteq SentRefs
    BY <1>0, <1>1, <1>5, SentRefsBySend, NamesNone
  <2>2. AskedRefs' = AskedRefs /\ Held(currentNode)' \subseteq Held(currentNode)
    BY <1>5 DEF AskedRefs, Held
  <2> QED BY <1>4, <1>5, <2>1, <2>2
<1>6. ASSUME UNCHANGED wire
      PROVE  SentRefs' = SentRefs
  BY <1>1, <1>6 DEF SentRefs, Named, Among
<1>7. CASE \E i \in DOMAIN tree.nodes : Expand(i)
  <2> PICK i \in DOMAIN tree.nodes : Expand(i)
    BY <1>7
  <2> DEFINE s == [what |-> "tables", key |-> <<tree.prefix, i>>, of |-> tree.nodes[i].name]
  <2>1. tree.prefix \in Nat /\ i \in Nat /\ tree.nodes[i].name \in Databases
    BY <1>0, TreeKeys DEF Tree, Nodes
  <2>2. s \in Statement
    BY <2>1 DEF Statement, Root
  <2>3. SendsNamed(s) /\ UNCHANGED <<currentNode, dialog, tabs, wanted>>
    BY DEF Expand, ui
  <2> QED BY <1>5, <2>2, <2>3
<1>8. CASE \E k \in AllKeys(tree) : Select(k)
  <2> PICK k \in AllKeys(tree) : Select(k)
    BY <1>8
  <2> DEFINE s == [what |-> "ddl", table |-> At(tree, k)]
  <2>1. At(tree, k) \in Table
    BY <1>0, TreeKeys DEF Select
  <2>2. s \in Statement
    BY <2>1 DEF Statement
  <2>3. SendsNamed(s) /\ UNCHANGED <<currentNode, dialog, tabs, wanted>>
    BY DEF Select, ui
  <2> QED BY <1>5, <2>2, <2>3
<1>9. CASE \E k \in AllKeys(tree) : RightClick(k)
  <2> PICK k \in AllKeys(tree) : RightClick(k)
    BY <1>9
  <2> DEFINE n == currentNode'
  <2>1. UNCHANGED <<tree, dialog, tabs, wanted, wire>> /\ n.key = k
    BY DEF RightClick
  <2>2. TabRefs' = TabRefs /\ AskedRefs' = AskedRefs /\ SentRefs' = SentRefs
    BY <1>6, <2>1 DEF TabRefs, AskedRefs, Held
  <2>3. \/ Held(n) = {}
        \/ k \in TableKeys(tree) /\ Held(n) = {<<k, At(tree, k)>>}
    BY <1>0, AllKeysParts DEF RightClick, Held
  <2>4. Held(currentNode)' = Held(n)
    BY DEF Held
  <2>5. \/ Known' \subseteq Known
        \/ k \in TableKeys(tree) /\ Known' \subseteq Known \cup {<<k, At(tree, k)>>}
    BY <1>2, <2>2, <2>3, <2>4, KnownIs
  <2> HIDE DEF n
  <2>6. \A r \in Known' : r \in Known \/ (r[1] \in TableKeys(tree) /\ r[2] = At(tree, r[1]))
    BY <2>5
  <2> QED BY <2>1, <2>6 DEF Agreement, At, TableKeys
<1>10. CASE (\E text \in Texts \cup {None} : Filter(text)) \/ GiveUp
  <2>1. UNCHANGED <<currentNode, tabs, wanted, wire>> /\ dialog' \in {dialog, None}
    BY <1>10 DEF Filter, GiveUp
  <2>2. Held(currentNode)' = Held(currentNode) /\ AskedRefs' \subseteq AskedRefs
    BY <2>1 DEF AskedRefs, Held
  <2> QED BY <1>4, <1>6, <2>1, <2>2
<1>11. CASE OpenTab
  <2> DEFINE k == currentNode.key
             x == currentNode.title
  <2>1. currentNode \in Node /\ k \in Leaf
    BY <1>11, NodesOf, NodeParts DEF OpenTab, OnTable
  <2>2. /\ UNCHANGED <<dialog, wire>> /\ currentNode' = None /\ wanted' = [key |-> k, table |-> x]
        /\ tabs' = IF k \in DOMAIN tabs THEN tabs
                   ELSE [y \in DOMAIN tabs \cup {k} |-> IF y = k THEN x ELSE tabs[y]]
    BY <1>11 DEF OpenTab, TabKey
  <2>3. <<k, x>> \in Known
    BY <2>1, HeldIs, KnownIs
  <2>4. Held(currentNode)' = {} /\ AskedRefs' = AskedRefs /\ SentRefs' = SentRefs
    BY <1>6, <2>2 DEF AskedRefs, Held
  <2> HIDE DEF k, x
  <2>5. TabRefs' \subseteq TabRefs \cup {<<k, x>>}
    BY <2>2 DEF TabRefs
  <2>6. Known' \subseteq Known
    BY <1>2, <2>3, <2>4, <2>5, KnownIs
  <2>7. k \in DOMAIN tabs' /\ tabs'[k] = x
    <3>1. CASE k \in DOMAIN tabs
      <4>1. <<k, tabs[k]>> \in Known
        BY <3>1, KnownIs DEF TabRefs
      <4> QED BY <2>2, <2>3, <3>1, <4>1 DEF Agreement
    <3>2. CASE k \notin DOMAIN tabs
      BY <2>2, <3>2
    <3> QED BY <3>1, <3>2
  <2> QED BY <1>3, <2>2, <2>6, <2>7, AgreeingLess
<1>12. CASE \E k \in DOMAIN tabs : CloseTab(k)
  <2> PICK k \in DOMAIN tabs : CloseTab(k)
    BY <1>12
  <2>1. /\ UNCHANGED <<dialog, currentNode, wire>> /\ tabs' = [y \in DOMAIN tabs \ {k} |-> tabs[y]]
        /\ wanted' = IF wanted # None /\ wanted.key = k THEN None ELSE wanted
    BY DEF CloseTab
  <2>2. TabRefs' \subseteq TabRefs
    BY <2>1 DEF TabRefs
  <2>3. Held(currentNode)' = Held(currentNode) /\ AskedRefs' = AskedRefs /\ SentRefs' = SentRefs
    BY <1>6, <2>1 DEF AskedRefs, Held
  <2>4. Known' \subseteq Known
    BY <1>2, <2>2, <2>3, KnownIs
  <2>5. wanted' # None => wanted'.key \in DOMAIN tabs' /\ tabs'[wanted'.key] = wanted'.table
    BY <2>1 DEF Agreement
  <2> QED BY <1>3, <2>4, <2>5, AgreeingLess
<1>13. CASE Refresh
  <2>1. AllDatabases \in Statement /\ AllDatabases.what = "databases"
    BY <1>0 DEF Statement, AllDatabases, Prefix, ServerOK
  <2>2. SendsUnnamed(AllDatabases) /\ UNCHANGED <<currentNode, dialog, tabs, wanted>>
    BY <1>13 DEF Refresh, ui
  <2> QED BY <1>5, <2>1, <2>2
<1>14. CASE \E d \in Databases : CreateDatabase(d)
  <2> PICK d \in Databases : CreateDatabase(d)
    BY <1>14
  <2> DEFINE s == [what |-> "createDatabase", of |-> d]
  <2>1. s \in Statement
    BY DEF Statement
  <2>2. SendsUnnamed(s) /\ UNCHANGED <<currentNode, dialog, tabs, wanted>>
    BY DEF CreateDatabase, ui
  <2> QED BY <1>5, <2>1, <2>2
<1>15. CASE \E what \in Items : Asks(what)
  <2> PICK what \in Items : Asks(what)
    BY <1>15
  <2>1. /\ UNCHANGED <<tabs, wanted, wire>> /\ currentNode' = None
        /\ dialog' = [what |-> what, node |-> currentNode, found |-> Found]
    BY DEF Asks
  <2>2. Held(currentNode)' = {} /\ AskedRefs' \subseteq Held(currentNode)
    BY <2>1 DEF AskedRefs, Held
  <2> QED BY <1>4, <1>6, <2>1, <2>2
<1>16. CASE CopyTable
  <2> DEFINE s == [what |-> "copy", table |-> currentNode.title]
  <2>1. currentNode.title \in Table
    BY <1>16, NodesOf, NodeParts DEF CopyTable, OnTable
  <2>2. s \in Statement
    BY <2>1 DEF Statement
  <2>3. SendsNamed(s) /\ currentNode' = None /\ UNCHANGED <<dialog, tabs, wanted>>
    BY <1>16 DEF CopyTable
  <2> QED BY <1>5, <2>2, <2>3
<1>17. CASE ExportDatabase \/ ExportTable
  <2> DEFINE s == [what |-> "export", node |-> currentNode]
  <2>1. currentNode \in Node
    BY <1>17, NodesOf DEF ExportDatabase, ExportTable, OnDatabase, OnTable
  <2>2. s \in Statement
    BY <2>1 DEF Statement
  <2>3. SendsNamed(s) /\ currentNode' = None /\ UNCHANGED <<dialog, tabs, wanted>>
    BY <1>17 DEF ExportDatabase, ExportTable, Exports
  <2> QED BY <1>5, <2>2, <2>3
<1> QED BY <1>7, <1>8, <1>9, <1>10, <1>11, <1>12, <1>13, <1>14, <1>15, <1>16, <1>17 DEF Clicks

\* What is answered to a question names what the question was about; a table that is
\* dropped leaves the tree.
LEMMA AgreeByAnswer ==
  ASSUME TreeOK, Answer, Agreement
  PROVE  Agreement'
<1>0. ServerOK /\ PageOK /\ tree \in Tree
  BY DEF TreeOK, PageOK
<1>1. /\ UNCHANGED <<answers, jsonObject, currentNode, tabs, wanted>>
      /\ dialog # None /\ dialog' = None
  BY AnswerSends
<1>2. /\ LastRefs' = LastRefs /\ TabRefs' = TabRefs /\ Held(currentNode)' = Held(currentNode)
      /\ AskedRefs = Held(dialog.node) /\ AskedRefs' = {}
  BY <1>1 DEF LastRefs, Named, Among, TabRefs, Held, AskedRefs
<1>3. \A k \in TableKeys(tree') : k \in TableKeys(tree) /\ At(tree', k) = At(tree, k)
  <2>1. UNCHANGED tree \/ \E k : tree' = Without(tree, k)
    BY DEF Answer, DropDatabase, Import, Truncate, Drop, Create, Rename, DeleteNode
  <2> QED BY <1>0, <2>1, WithoutTree
<1>4. ASSUME NEW s \in Statement, Sends(s) \/ SendsNamed(s) \/ SendsUnnamed(s),
             Named(s) \subseteq Held(dialog.node)
      PROVE  Agreement'
  <2>1. SentRefs' \subseteq SentRefs \cup Held(dialog.node)
    BY <1>0, <1>1, <1>4, SentRefsBySend
  <2>2. Known' \subseteq Known
    BY <1>2, <2>1, KnownIs
  <2>3. wanted' # None => wanted'.key \in DOMAIN tabs' /\ tabs'[wanted'.key] = wanted'.table
    BY <1>1 DEF Agreement
  <2> QED BY <1>3, <2>2, <2>3, AgreeingLess
<1>5. CASE DropDatabase
  <2> DEFINE s == [what |-> "dropDatabase", of |-> dialog.node.title]
  <2>1. s \in Statement
    BY <1>5, QuestionOf DEF DropDatabase, Answers, Statement, OfDatabase
  <2>2. SendsUnnamed(s) /\ Named(s) = {}
    BY <1>5, NamesNone DEF DropDatabase
  <2> QED BY <1>4, <2>1, <2>2
<1>6. CASE Import
  <2> DEFINE s == [what |-> "import", node |-> dialog.node]
  <2>1. s \in Statement
    BY <1>6, QuestionOf DEF Import, Answers, Statement
  <2>2. SendsUnnamed(s) /\ Named(s) = {}
    BY <1>6, NamesNone DEF Import
  <2> QED BY <1>4, <2>1, <2>2
<1>7. CASE Truncate
  <2> DEFINE s == [what |-> "truncate", table |-> dialog.node.title]
  <2>1. s \in Statement
    BY <1>7, QuestionOf DEF Truncate, Answers, Statement
  <2>2. SendsNamed(s) /\ Named(s) = {}
    BY <1>7, NamesNone DEF Truncate
  <2> QED BY <1>4, <2>1, <2>2
<1>8. CASE Drop
  <2> DEFINE s == [what |-> "drop", key |-> dialog.node.key, table |-> dialog.node.title]
  <2>1. dialog.what = "drop" /\ Sends(s)
    BY <1>8 DEF Drop, Answers
  <2>2. dialog.node \in Node /\ dialog.node.key \in Leaf /\ dialog.node.title \in Table
    BY <1>1, <2>1, QuestionOf
  <2>3. s \in Statement /\ Named(s) = Held(dialog.node)
    BY <2>2, HeldIs DEF Statement, Named
  <2> QED BY <1>4, <2>1, <2>3
<1>9. ASSUME NEW n \in Titles, Create(n)
      PROVE  Agreement'
  <2> DEFINE s == [what |-> "create", key |-> dialog.node.key,
                   table |-> [of |-> dialog.node.title, name |-> n]]
  <2>1. dialog.what = "create" /\ Sends(s)
    BY <1>9 DEF Create, Answers
  <2>2. dialog.node.key \in Root /\ [of |-> dialog.node.title, name |-> n] \in Table
    BY <1>1, <2>1, QuestionOf DEF OfDatabase, Table
  <2>3. s \in Statement /\ Named(s) = {}
    BY <2>2, NamesNone DEF Statement
  <2> QED BY <1>4, <2>1, <2>3
<1>10. ASSUME NEW n \in Titles, Rename(n)
       PROVE  Agreement'
  <2> DEFINE s == [what |-> "rename", key |-> dialog.node.key, table |-> dialog.node.title,
                   name |-> n]
  <2>1. dialog.what = "rename" /\ Sends(s)
    BY <1>10 DEF Rename, Answers
  <2>2. dialog.node \in Node /\ dialog.node.key \in Leaf /\ dialog.node.title \in Table
    BY <1>1, <2>1, QuestionOf
  <2>3. s \in Statement /\ Named(s) = Held(dialog.node)
    BY <2>2, HeldIs DEF Statement, Named
  <2> QED BY <1>4, <2>1, <2>3
<1> QED BY <1>5, <1>6, <1>7, <1>8, <1>9, <1>10 DEF Answer

\* An answer names what its statement named.
LEMMA ReplyNames ==
  ASSUME NEW s \in Statement
  PROVE  Named(Reply(s)) \subseteq Named(s)
<1>1. CASE s.what \in {"rename", "drop"}
  BY <1>1 DEF Reply
<1>2. CASE s.what \notin {"rename", "drop"}
  <2>1. Reply(s).what \notin {"rename", "drop"}
    BY <1>2, StatementParts DEF Reply
  <2> QED BY <2>1, NamesNone
<1> QED BY <1>1, <1>2

LEMMA AgreeByExecute ==
  ASSUME TreeOK, Execute, Agreement
  PROVE  Agreement'
<1> DEFINE s == Head(wire)
<1>0. ServerOK /\ wire \in Seq(Statement) /\ answers \in Seq(Result)
  BY DEF TreeOK, ServerOK
<1>1. s \in Statement /\ Among(Tail(wire)) \subseteq Among(wire) /\ s \in Among(wire)
  BY <1>0, TailIn, AmongSequences DEF Execute
<1>2. wire' = Tail(wire) /\ UNCHANGED <<tree, currentNode, dialog, tabs, wanted, jsonObject>>
  BY DEF Execute, ui
<1> HIDE DEF s
<1>3. Among(answers') \subseteq Among(answers) \cup {Reply(s)}
  <2>1. CASE Possible(s)
    <3>1. answers' = Append(answers, Reply(s)) /\ Reply(s) \in Result
      BY <1>0, <1>1, <2>1, ReplyIsResult DEF Execute, s
    <3> QED BY <1>0, <3>1, AmongSequences
  <2>2. CASE ~Possible(s)
    BY <2>2 DEF Execute, s
  <2> QED BY <2>1, <2>2
<1>4. Named(Reply(s)) \subseteq Named(s)
  BY <1>1, ReplyNames
<1>5. SentRefs' = UNION {Named(x) : x \in Among(wire') \cup Among(answers')}
  BY DEF SentRefs, Named
<1>6. SentRefs' \subseteq SentRefs
  BY <1>1, <1>2, <1>3, <1>4, <1>5 DEF SentRefs
<1>7. /\ LastRefs' = LastRefs /\ TabRefs' = TabRefs /\ Held(currentNode)' = Held(currentNode)
      /\ AskedRefs' = AskedRefs
  BY <1>2 DEF LastRefs, Named, Among, TabRefs, Held, AskedRefs
<1>8. Known' \subseteq Known
  BY <1>6, <1>7, KnownIs
<1> QED BY <1>2, <1>8, AgreeingLess DEF Agreement

LEMMA AgreeByArrive ==
  ASSUME TreeOK, Arrive, Agreement
  PROVE  Agreement'
<1>0. answers \in Seq(Result)
  BY DEF TreeOK, ServerOK
<1>1. Among(Tail(answers)) \subseteq Among(answers) /\ Head(answers) \in Among(answers)
  BY <1>0, AmongSequences DEF Arrive
<1>2. /\ answers' = Tail(answers) /\ jsonObject' = <<Head(answers)>>
      /\ UNCHANGED <<tree, currentNode, dialog, tabs, wanted, wire>>
  BY DEF Arrive, ui
<1>3. Among(jsonObject') = {Head(answers)}
  BY <1>2 DEF Among
<1>4. /\ SentRefs' = UNION {Named(x) : x \in Among(wire') \cup Among(answers')}
      /\ LastRefs' = UNION {Named(x) : x \in Among(jsonObject')}
  BY DEF SentRefs, LastRefs, Named
<1>5. SentRefs' \subseteq SentRefs /\ LastRefs' \subseteq SentRefs
  BY <1>1, <1>2, <1>3, <1>4 DEF SentRefs
<1>6. /\ TabRefs' = TabRefs /\ Held(currentNode)' = Held(currentNode) /\ AskedRefs' = AskedRefs
  BY <1>2 DEF TabRefs, Held, AskedRefs
<1>7. Known' \subseteq Known
  BY <1>5, <1>6, KnownIs
<1> QED BY <1>2, <1>7, AgreeingLess DEF Agreement

\* An answer adds nothing to what is known.
LEMMA KnownByWork ==
  ASSUME TreeOK, Work
  PROVE  Known' \subseteq References /\ UNCHANGED <<tabs, wanted>>
<1> DEFINE a == jsonObject[1]
<1>0. ServerOK /\ wire \in Seq(Statement) /\ sent \in Nat
  BY DEF TreeOK, ServerOK
<1>1. a \in Result /\ jsonObject' = <<>>
  BY WorkedOn
<1>2. UNCHANGED <<answers, currentNode, dialog, tabs, wanted>>
  BY DEF Work
<1>3. LastRefs' = {}
  BY <1>1 DEF LastRefs, Among
<1>4. SentRefs' \subseteq SentRefs
  <2>1. CASE Reloads(a)
    <3>1. PICK s \in Statement : s.what \in {"databases", "tables"} /\ SendsUnnamed(s)
      <4>1. AllDatabases \in Statement /\ AllDatabases.what = "databases"
        BY <1>0 DEF AllDatabases, Prefix, Statement
      <4>2. a.what = "create" => [what |-> "tables", key |-> a.key, of |-> a.table.of] \in Statement
        BY <1>1, ResultParts DEF Statement, Table
      <4> QED BY <2>1, <4>1, <4>2 DEF Reloads
    <3> QED BY <1>0, <1>2, <3>1, SentRefsBySend, NamesNone
  <2>2. CASE ~Reloads(a)
    <3>1. UNCHANGED <<wire, answers>>
      BY <1>2, <2>2 DEF Work, Empties, NewDatabases, NewTables, Definition, Dropped, Renamed, Transferred
    <3> QED BY <3>1 DEF SentRefs, Named, Among
  <2> QED BY <2>1, <2>2
<1>5. /\ TabRefs' = TabRefs /\ Held(currentNode)' = Held(currentNode) /\ AskedRefs' = AskedRefs
  BY <1>2 DEF TabRefs, Held, AskedRefs
<1>6. References = TabRefs \cup Held(currentNode) \cup AskedRefs \cup SentRefs
  BY DEF References, TabRefs, AskedRefs, SentRefs
<1> QED BY <1>2, <1>3, <1>4, <1>5, <1>6, KnownIs

\* Tables that change their places under a key that is known, and a known table that
\* is renamed, are mishaps.
LEMMA AgreeByWork ==
  ASSUME TreeOK, Work, Agreement, Unmoved(harm')
  PROVE  Agreement'
<1> DEFINE a == jsonObject[1]
<1>0. tree \in Tree /\ tree' \in Tree
  BY TreeByWork DEF TreeOK, PageOK
<1>1. Known' \subseteq References /\ References \subseteq Known /\ UNCHANGED <<tabs, wanted>>
  BY KnownByWork DEF Known
<1>2. ASSUME \A r \in References : r[1] \in TableKeys(tree') => At(tree', r[1]) = r[2]
      PROVE  Agreement'
  <2>1. \A r \in Known' : r[1] \in TableKeys(tree') => At(tree', r[1]) = r[2]
    BY <1>1, <1>2
  <2>2. \A r, s \in Known' : r[1] = s[1] => r[2] = s[2]
    BY <1>1 DEF Agreement
  <2>3. wanted' # None => wanted'.key \in DOMAIN tabs' /\ tabs'[wanted'.key] = wanted'.table
    BY <1>1 DEF Agreement
  <2> QED BY <2>1, <2>2, <2>3 DEF Agreement, At, TableKeys
<1>3. ASSUME \A k \in TableKeys(tree') : k \in TableKeys(tree) /\ At(tree', k) = At(tree, k)
      PROVE  Agreement'
  BY <1>1, <1>2, <1>3 DEF Agreement
<1>4. CASE UNCHANGED tree
  BY <1>3, <1>4
<1>5. CASE tree' = [prefix |-> a.prefix, nodes |-> [i \in DOMAIN a.nodes |->
                      [name |-> a.nodes[i], tables |-> <<>>, loaded |-> FALSE]]]
  <2>1. \A i \in DOMAIN tree'.nodes : DOMAIN tree'.nodes[i].tables = {}
    BY <1>5
  <2>2. TableKeys(tree') = {}
    BY <2>1 DEF TableKeys
  <2> QED BY <1>3, <2>2
<1>6. CASE /\ a.key \in DatabaseKeys(tree) /\ a.children \in Placed(Table)
           /\ tree' = Relisted(tree, a.key, a.children)
           /\ harm' = Marked(Shifted(tree', a.key), "shifted")
  <2>1. ~Shifted(tree', a.key)
    BY <1>6 DEF Marked, Unmoved
  <2>2. a.key[2] \in DOMAIN tree.nodes /\ a.key[1] = tree.prefix /\ a.key \in Root
    BY <1>0, <1>6, TreeKeys
  <2>3. ASSUME NEW r \in References, r[1] \in TableKeys(tree')
        PROVE  At(tree', r[1]) = r[2]
    <3>1. CASE r[1][2] # a.key[2]
      <4>1. r[1] \in TableKeys(tree) /\ At(tree', r[1]) = At(tree, r[1])
        BY <1>0, <1>6, <2>2, <2>3, <3>1, RelistedKeys
      <4> QED BY <1>1, <4>1 DEF Agreement
    <3>2. CASE r[1][2] = a.key[2]
      <4>1. tree'.prefix = tree.prefix
        BY <1>0, <1>6, RelistedPrefix
      <4>2. r[1][1] = a.key[1]
        BY <1>0, <2>2, <2>3, <4>1, TreeKeys
      <4>3. Above(r[1]) = a.key
        BY <2>2, <3>2, <4>2, KeyParts DEF Above
      <4> QED BY <2>1, <2>3, <4>3 DEF Shifted
    <3> QED BY <3>1, <3>2
  <2> QED BY <1>2, <2>3
<1>7. CASE tree' = Without(tree, a.key)
  BY <1>0, <1>3, <1>7, WithoutTree
<1>8. CASE /\ a.what = "rename" /\ a.key \in TableKeys(tree) /\ a.name \in Titles
           /\ tree' = Relisted(tree, a.key, [tree.nodes[a.key[2]].tables EXCEPT ![a.key[3]].name = a.name])
           /\ harm' = Marked(a.key \in {r[1] : r \in References}, "renamed")
  <2> DEFINE tables == tree.nodes[a.key[2]].tables
             new == [tables EXCEPT ![a.key[3]].name = a.name]
  <2>1. a.key \notin {r[1] : r \in References}
    BY <1>8 DEF Marked, Unmoved
  <2>2. a.key[2] \in DOMAIN tree.nodes /\ tree.nodes[a.key[2]] \in Nodes /\ a.key[3] \in DOMAIN tables
    BY <1>0, <1>8, TreeKeys
  <2>3. tables \in Placed(Table)
    BY <2>2 DEF Nodes
  <2>4. /\ new \in Placed(Table) /\ DOMAIN new = DOMAIN tables
        /\ \A j \in DOMAIN tables \ {a.key[3]} : new[j] = tables[j]
    BY <1>8, <2>2, <2>3, RenamedPlaced
  <2>5. tree' = Relisted(tree, a.key, new)
    BY <1>8
  <2> HIDE DEF new
  <2>6. ASSUME NEW r \in References, r[1] \in TableKeys(tree')
        PROVE  At(tree', r[1]) = r[2]
    <3>1. CASE r[1][2] # a.key[2]
      <4>1. r[1] \in TableKeys(tree) /\ At(tree', r[1]) = At(tree, r[1])
        BY <1>0, <2>2, <2>4, <2>5, <2>6, <3>1, RelistedKeys
      <4> QED BY <1>1, <4>1 DEF Agreement
    <3>2. CASE r[1][2] = a.key[2]
      <4>1. r[1][3] \in DOMAIN tables /\ At(tree', r[1]) = new[r[1][3]]
        BY <1>0, <2>2, <2>4, <2>5, <2>6, <3>2, RelistedKeys
      <4>2. tree'.prefix = tree.prefix
        BY <1>0, <2>5, RelistedPrefix
      <4>3. r[1] = <<tree.prefix, a.key[2], r[1][3]>> /\ a.key = <<tree.prefix, a.key[2], a.key[3]>>
        BY <1>0, <1>8, <2>6, <3>2, <4>2, TreeKeys
      <4>4. r[1] # a.key
        BY <2>1
      <4>5. r[1][3] # a.key[3]
        BY <4>3, <4>4
      <4>6. r[1] \in TableKeys(tree)
        <5>1. <<tree.prefix, a.key[2], r[1][3]>> \in TableKeys(tree)
          BY <2>2, <4>1, KeyIn
        <5> QED BY <4>3, <5>1, Zenon
      <4>7. At(tree', r[1]) = tables[r[1][3]]
        BY <2>4, <4>1, <4>5
      <4>8. At(tree', r[1]) = At(tree, r[1])
        BY <3>2, <4>7 DEF At
      <4> QED BY <1>1, <4>6, <4>8 DEF Agreement
    <3> QED BY <3>1, <3>2
  <2> QED BY <1>2, <2>6
<1> QED BY <1>4, <1>5, <1>6, <1>7, <1>8, TreeByWork

\* No mishap is forgotten.
LEMMA HarmStays ==
  ASSUME TreeOK, Step
  PROVE  harm \subseteq harm'
<1>1. CASE Clicks \/ Answer
  BY <1>1, ClicksSend, AnswerSends
<1>2. CASE Execute \/ Arrive
  BY <1>2 DEF Execute, Arrive, Marked
<1>3. CASE Work
  BY <1>3 DEF Work, Empties, NewDatabases, NewTables, Definition, Dropped, Renamed, Reloads,
       Transferred, SendsUnnamed, Marked
<1> QED BY <1>1, <1>2, <1>3, StepIs

\* What is known agrees at first, and after every step.
LEMMA AgreedInitially == Init => Agreed
<1> SUFFICES ASSUME Init PROVE Agreement
  BY DEF Agreed
<1>1. wire = <<[what |-> "databases", prefix |-> 1]>> /\ answers = <<>> /\ jsonObject = <<>>
  BY DEF Init
<1>2. Among(wire) = {[what |-> "databases", prefix |-> 1]} /\ Among(answers) = {} /\ Among(jsonObject) = {}
  BY <1>1 DEF Among
<1>3. SentRefs = {} /\ LastRefs = {}
  BY <1>2 DEF SentRefs, LastRefs, Named
<1>4. TabRefs = {} /\ AskedRefs = {} /\ Held(currentNode) = {} /\ wanted = None
  BY DEF Init, TabRefs, AskedRefs, Held
<1>5. Known = {}
  BY <1>3, <1>4, KnownIs
<1> QED BY <1>4, <1>5 DEF Agreement

LEMMA AgreedInductive == TreeOK /\ Agreed /\ [Next]_treeVars => Agreed'
<1> SUFFICES ASSUME TreeOK, Agreed, [Next]_treeVars, Unmoved(harm') PROVE Agreement'
  BY DEF Agreed, Unmoved
<1>1. CASE UNCHANGED treeVars
  <2>1. UNCHANGED <<tree, tabs, wanted, currentNode, dialog, wire, answers, jsonObject, harm>>
    BY <1>1 DEF treeVars, ui
  <2>2. Agreement
    BY <2>1 DEF Agreed
  <2> QED BY <2>1, <2>2 DEF Agreement, Known, References, LastRefs, Held, Named, Among, At, TableKeys
<1>2. CASE Step
  <2>1. harm \subseteq harm'
    BY <1>2, HarmStays
  <2>2. Agreement
    BY <2>1 DEF Agreed, Unmoved
  <2> QED BY <1>2, <2>2, StepIs, AgreeByClicks, AgreeByAnswer, AgreeByExecute, AgreeByArrive, AgreeByWork
<1> QED BY <1>1, <1>2 DEF Next

\* A tab that is asked for from the menu of a table is the tab of that table, for
\* any number of tabs, statements and mishaps: what tabs, menus, questions and
\* statements know of a key, they keep knowing, and an answer that makes it untrue is
\* one of the two mishaps.
THEOREM TabsAreTrue == Spec => []TabsAreOfTables
<1>1. TreeOK /\ [Next]_treeVars => TreeOK'
  BY Inductive DEF Next
<1>2. Agreed => TabsAreOfTables
  BY DEF Agreed, Agreement, Unmoved, TabsAreOfTables
<1> QED BY <1>1, <1>2, AgreedInitially, AgreedInductive, Initially, PTL DEF Spec
=============================================================================
