------------------------- MODULE EditorTruthProofs -------------------------
(***************************************************************************)
(* That a quiet tree is true (QuietTreeIsTrue), for any databases and      *)
(* names of tables, any number of statements.  All of it is about          *)
(* behaviours without a mishap.                                            *)
(*                                                                         *)
(* What is under way stands in a line: the answer that waits, the answers  *)
(* on their way, the statements sent.  The front of the line is worked on, *)
(* its middle is executed, its end is added to, so that the line tells     *)
(* what the tree has yet to learn: the tables that the answers in the line *)
(* start from (h[0]) lead by them to those of the server (h[Done]).        *)
(***************************************************************************)
EXTENDS EditorTreeProofs

Done == Len(jsonObject) + Len(answers)
Total == Done + Len(wire)
Line == [n \in 1..Total |->
  IF n <= Len(jsonObject) THEN jsonObject[n]
  ELSE IF n <= Done THEN answers[n - Len(jsonObject)] ELSE wire[n - Done]]

Altering == {"create", "rename", "drop"}
Keyed == Altering \cup {"tables"}
Renewing == {"databases", "executed", "createDatabase", "copy", "dropDatabase", "truncate"}
Transfers == {"export", "import"}

\* The nodes that the menu and the question hold.
Pointed ==
  (IF currentNode = None THEN {} ELSE {currentNode}) \cup (IF dialog = None THEN {} ELSE {dialog.node})
NameAt(i) == tree.nodes[i].name
KeyAt(i) == <<tree.prefix, i>>
Tables(i) == tree.nodes[i].tables

\* Keys of an earlier tree are older than the prefix of the present one, and this is
\* older than those to come.
Aged ==
  /\ tree.prefix <= sent
  /\ \A n \in 1..Total : Line[n].what = "databases" => tree.prefix < Line[n].prefix /\ Line[n].prefix <= sent
  /\ \A n, m \in 1..Total : n < m /\ Line[n].what = "databases" /\ Line[m].what = "databases"
       => Line[n].prefix < Line[m].prefix
  /\ \A n \in 1..Total : Line[n].what \in Keyed => Line[n].key[1] <= tree.prefix
  /\ \A x \in Pointed : x.key[1] <= tree.prefix

\* What has the key of a database is about that database.
Belongs(a, answered, d) ==
  IF a.what # "tables" THEN a.table.of = d
  ELSE IF answered THEN \A j \in DOMAIN a.children : a.children[j].of = d ELSE a.of = d
PointsTo(x, d) == IF Len(x.key) = 3 THEN x.title.of = d ELSE x.title = d
Owned == \A i \in DOMAIN tree.nodes :
  /\ \A j \in DOMAIN Tables(i) : Tables(i)[j].of = NameAt(i)
  /\ tree.nodes[i].loaded \/ DOMAIN Tables(i) = {}
  /\ \A n \in 1..Total : Line[n].what \in Keyed /\ Above(Line[n].key) = KeyAt(i)
       => Belongs(Line[n], n <= Done, NameAt(i))
  /\ \A x \in Pointed : Above(x.key) = KeyAt(i) => PointsTo(x, NameAt(i))

Once(f) == \A i, j \in DOMAIN f : f[i] = f[j] => i = j
Distinct ==
  /\ \A i, j \in DOMAIN tree.nodes : NameAt(i) = NameAt(j) => i = j
  /\ \A n \in 1..Done : Line[n].what = "databases" => Once(Line[n].nodes)

\* What was sent about a table of an earlier tree is before all that the present
\* tree learns of its tables.
Stale(a) == a.what \in Altering /\ Above(a.key) \notin DatabaseKeys(tree)
OldFirst == \A n \in 1..Total : Stale(Line[n]) =>
  /\ \A i \in DOMAIN tree.nodes : ~tree.nodes[i].loaded
  /\ \A m \in 1..Total : Line[m].what = "tables" /\ Line[m].key \in DatabaseKeys(tree) => n < m

\* A table is dropped while no tables are being listed.
DropsFirst == kind = "table" =>
  \A n, m \in 1..Total : Line[n].what = "drop" /\ Line[m].what = "tables" => n < m

\* What is said to go on is under way.
Going == \A k \in progress : \E n \in 1..Total : Line[n].what \in Transfers /\ Line[n].node.key = k

\* Routines are not renamed.
Routines == kind = "routine" =>
  /\ \A n \in 1..Total : Line[n].what # "rename"
  /\ dialog # None => dialog.what # "rename"

InOrder == Aged /\ Owned /\ Distinct /\ OldFirst /\ DropsFirst /\ Going /\ Routines

-----------------------------------------------------------------------------
\* The line.
LEMMA LineTyped ==
  ASSUME ServerOK
  PROVE  /\ Done \in Nat /\ Total \in Nat /\ Done <= Total /\ Total - Done = Len(wire)
         /\ \A n \in 1..Done : Line[n] \in Result
         /\ \A n \in 1..Total : n > Done => Line[n] = wire[n - Done] /\ Line[n] \in Statement
         /\ \A n \in 1..Total : n <= Len(jsonObject) => Line[n] = jsonObject[n]
         /\ \A n \in 1..Total : n > Len(jsonObject) /\ n <= Done => Line[n] = answers[n - Len(jsonObject)]
<1>1. wire \in Seq(Statement) /\ answers \in Seq(Result) /\ jsonObject \in Seq(Result)
  BY DEF ServerOK
<1>2. Len(wire) \in Nat /\ Len(answers) \in Nat /\ Len(jsonObject) \in Nat
  BY <1>1, LenProperties
<1>3. \A n \in 1..Len(wire) : wire[n] \in Statement
  BY <1>1, ElementOfSeq
<1>4. /\ \A n \in 1..Len(answers) : answers[n] \in Result
      /\ \A n \in 1..Len(jsonObject) : jsonObject[n] \in Result
  BY <1>1, ElementOfSeq
<1> QED BY <1>2, <1>3, <1>4 DEF Done, Total, Line

\* A statement more at its end.
LEMMA LineSent ==
  ASSUME ServerOK, UNCHANGED <<answers, jsonObject>>, NEW s \in Statement, Adds(s)
  PROVE  /\ Done' = Done /\ Total' = Total + 1
         /\ Line'[Total'] = s /\ \A n \in 1..Total : Line'[n] = Line[n]
<1>1. wire \in Seq(Statement) /\ wire' = Append(wire, s)
  BY DEF ServerOK, Adds
<1>2. /\ Len(wire') = Len(wire) + 1 /\ Len(wire) \in Nat /\ wire'[Len(wire) + 1] = s
      /\ \A n \in 1..Len(wire) : wire'[n] = wire[n]
  BY <1>1, AppendIn
<1>3. Done' = Done /\ Total' = Total + 1 /\ Done \in Nat /\ Total = Done + Len(wire)
  BY <1>2, LineTyped DEF Done, Total
<1>4. Line' = [n \in 1..Total' |-> IF n <= Len(jsonObject) THEN jsonObject[n]
                 ELSE IF n <= Done THEN answers[n - Len(jsonObject)] ELSE wire'[n - Done]]
  BY <1>3 DEF Line
<1>5. Len(jsonObject) \in Nat /\ Len(jsonObject) <= Done
  BY LenProperties DEF ServerOK, Done
<1> QED BY <1>2, <1>3, <1>4, <1>5 DEF Line

LEMMA LineKept ==
  ASSUME UNCHANGED <<answers, jsonObject, wire>>
  PROVE  Done' = Done /\ Total' = Total /\ Line' = Line
  BY DEF Done, Total, Line

\* The first statement is executed: its answer takes its place.
LEMMA LineExecuted ==
  ASSUME ServerOK, Execute, harm' = {}
  PROVE  /\ Done' = Done + 1 /\ Total' = Total /\ Done + 1 \in 1..Total
         /\ Line[Done + 1] = Head(wire) /\ Head(wire) \in Statement /\ Possible(Head(wire)) /\ Changes(Head(wire))
         /\ Line'[Done + 1] = Reply(Head(wire))
         /\ \A n \in 1..Total \ {Done + 1} : Line'[n] = Line[n]
<1> DEFINE s == Head(wire)
<1>0. wire \in Seq(Statement) /\ wire # <<>> /\ answers \in Seq(Result) /\ jsonObject \in Seq(Result)
  BY DEF ServerOK, Execute
<1>1. Possible(s) /\ Changes(s) /\ answers' = Append(answers, Reply(s)) /\ wire' = Tail(wire) /\ jsonObject' = jsonObject
  BY DEF Execute
<1>2. /\ s \in Statement /\ Len(wire') = Len(wire) - 1 /\ s = wire[1] /\ Len(wire) \in Nat /\ Len(wire) # 0
      /\ \A n \in 1..(Len(wire) - 1) : wire'[n] = wire[n + 1]
  BY <1>0, <1>1, TailIn
<1> HIDE DEF s
<1>3. /\ Len(answers') = Len(answers) + 1 /\ answers'[Len(answers) + 1] = Reply(s) /\ Len(answers) \in Nat
      /\ \A n \in 1..Len(answers) : answers'[n] = answers[n]
  <2>1. Reply(s) \in Result
    BY <1>1, <1>2, ReplyIsResult
  <2> QED BY <1>0, <1>1, <2>1, AppendIn
<1>4. Len(jsonObject) \in Nat
  BY <1>0, LenProperties
<1>5. Done' = Done + 1 /\ Total' = Total /\ Done \in Nat /\ Total = Done + Len(wire) /\ Done = Len(jsonObject) + Len(answers)
  BY <1>1, <1>2, <1>3, <1>4 DEF Done, Total
<1>6. Line' = [n \in 1..Total |-> IF n <= Len(jsonObject) THEN jsonObject[n]
                 ELSE IF n <= Done + 1 THEN answers'[n - Len(jsonObject)] ELSE wire'[n - (Done + 1)]]
  BY <1>1, <1>5 DEF Line
<1>7. Line[Done + 1] = s /\ Done + 1 \in 1..Total
  BY <1>2, <1>4, <1>5 DEF Line
<1>8. Line'[Done + 1] = Reply(s)
  BY <1>2, <1>3, <1>4, <1>5, <1>6
<1>9. ASSUME NEW n \in 1..Total, n # Done + 1
      PROVE  Line'[n] = Line[n]
  <2>1. CASE n <= Len(jsonObject)
    BY <1>4, <1>5, <1>6, <2>1 DEF Line
  <2>2. CASE n > Len(jsonObject) /\ n <= Done
    <3>1. Line[n] = answers[n - Len(jsonObject)] /\ n - Len(jsonObject) \in 1..Len(answers)
      BY <1>3, <1>4, <1>5, <2>2 DEF Line
    <3>2. Line'[n] = answers'[n - Len(jsonObject)]
      BY <1>3, <1>4, <1>5, <1>6, <2>2
    <3> QED BY <1>3, <3>1, <3>2
  <2>3. CASE n > Done + 1
    <3>1. Line[n] = wire[n - Done] /\ n - Done - 1 \in 1..(Len(wire) - 1) /\ n - Done = (n - Done - 1) + 1
      BY <1>2, <1>3, <1>4, <1>5, <2>3 DEF Line
    <3>2. Line'[n] = wire'[n - Done - 1]
      BY <1>2, <1>3, <1>4, <1>5, <1>6, <2>3
    <3> QED BY <1>2, <3>1, <3>2
  <2> QED BY <1>3, <1>4, <1>5, <1>9, <2>1, <2>2, <2>3
<1> QED BY <1>1, <1>2, <1>5, <1>7, <1>8, <1>9 DEF s

\* An answer that arrives keeps its place, unless another was waiting.
LEMMA LineArrived ==
  ASSUME ServerOK, Arrive, harm' = {}
  PROVE  Done' = Done /\ Total' = Total /\ Line' = Line
<1>0. answers \in Seq(Result) /\ answers # <<>> /\ answers' = Tail(answers) /\ jsonObject' = <<Head(answers)>> /\ wire' = wire
  BY DEF ServerOK, Arrive
<1>1. jsonObject = <<>>
  BY DEF Arrive, Marked
<1>2. /\ Len(answers') = Len(answers) - 1 /\ Head(answers) = answers[1] /\ Len(answers) \in Nat /\ Len(answers) # 0
      /\ \A n \in 1..(Len(answers) - 1) : answers'[n] = answers[n + 1]
  BY <1>0, TailIn
<1>3. Len(jsonObject) = 0 /\ Len(jsonObject') = 1 /\ jsonObject'[1] = answers[1]
  BY <1>0, <1>1, <1>2
<1>4. Done' = Done /\ Total' = Total /\ Done = Len(answers) /\ Len(wire) \in Nat
  BY <1>0, <1>2, <1>3, LenProperties DEF Done, Total, ServerOK
<1>5. Line' = [n \in 1..Total |-> IF n <= 1 THEN jsonObject'[n]
                 ELSE IF n <= Done THEN answers'[n - 1] ELSE wire[n - Done]]
  BY <1>0, <1>3, <1>4 DEF Line
<1>6. Line = [n \in 1..Total |-> IF n <= Done THEN answers[n] ELSE wire[n - Done]]
  <2>1. Line = [n \in 1..Total |-> IF n <= 0 THEN jsonObject[n]
                 ELSE IF n <= Done THEN answers[n - 0] ELSE wire[n - Done]]
    BY <1>3 DEF Line
  <2>2. \A n \in 1..Total : ~(n <= 0) /\ n - 0 = n
    OBVIOUS
  <2> QED BY <2>1, <2>2
<1>7. \A n \in 1..Total : Line'[n] = Line[n]
  <2> TAKE n \in 1..Total
  <2>1. CASE n = 1
    BY <1>2, <1>3, <1>4, <1>5, <1>6, <2>1
  <2>2. CASE n > 1
    BY <1>2, <1>4, <1>5, <1>6, <2>2
  <2> QED BY <2>1, <2>2
<1> QED BY <1>4, <1>5, <1>6, <1>7

\* The front is worked on and leaves the line.
LEMMA LineWorked ==
  ASSUME ServerOK, jsonObject # <<>>, jsonObject' = <<>>, UNCHANGED answers,
         UNCHANGED wire \/ \E s \in Statement : Adds(s)
  PROVE  /\ Done \in Nat \ {0} /\ Done' = Done - 1 /\ Line[1] = jsonObject[1]
         /\ \A n \in 1..(Total - 1) : Line'[n] = Line[n + 1]
         /\ UNCHANGED wire => Total' = Total - 1
         /\ \A s \in Statement : Adds(s) => Total' = Total /\ Line'[Total'] = s
<1>0. jsonObject \in Seq(Result) /\ Len(jsonObject) <= 1 /\ wire \in Seq(Statement) /\ answers \in Seq(Result)
  BY DEF ServerOK
<1>1. Len(jsonObject) = 1 /\ Len(jsonObject') = 0 /\ Len(answers) \in Nat /\ Len(wire) \in Nat
  BY <1>0, AloneIn, LenProperties
<1>2. Done = Len(answers) + 1 /\ Done' = Len(answers) /\ Total = Done + Len(wire)
  BY <1>1 DEF Done, Total
<1>3. /\ \A n \in 1..Len(wire) : wire'[n] = wire[n]
      /\ Len(wire') \in {Len(wire), Len(wire) + 1}
      /\ UNCHANGED wire => Len(wire') = Len(wire)
      /\ \A s \in Statement : Adds(s) => Len(wire') = Len(wire) + 1 /\ wire'[Len(wire) + 1] = s
  BY <1>0, <1>1, AppendIn DEF Adds
<1>4. Total' = Len(answers) + Len(wire')
  BY <1>2 DEF Total
<1>5. Line = [n \in 1..Total |-> IF n <= 1 THEN jsonObject[n]
                 ELSE IF n <= Done THEN answers[n - 1] ELSE wire[n - Done]]
  BY <1>1 DEF Line
<1>6. \A n \in 1..Total' : Line'[n] = IF n <= Len(answers) THEN answers[n] ELSE wire'[n - Len(answers)]
  <2>1. Line' = [n \in 1..Total' |-> IF n <= 0 THEN jsonObject'[n]
                 ELSE IF n <= Len(answers) THEN answers[n - 0] ELSE wire'[n - Len(answers)]]
    BY <1>1, <1>2 DEF Line
  <2>2. \A n \in 1..Total' : ~(n <= 0) /\ n - 0 = n
    OBVIOUS
  <2> QED BY <2>1, <2>2
<1>7. \A n \in 1..(Total - 1) : Line'[n] = Line[n + 1]
  <2> TAKE n \in 1..(Total - 1)
  <2>1. n \in 1..Total' /\ n + 1 \in 1..Total
    BY <1>1, <1>2, <1>3, <1>4
  <2>2. CASE n <= Len(answers)
    BY <1>1, <1>2, <1>5, <1>6, <2>1, <2>2
  <2>3. CASE n > Len(answers)
    <3>1. Line'[n] = wire'[n - Len(answers)] /\ n - Len(answers) \in 1..Len(wire)
      BY <1>1, <1>2, <1>6, <2>1, <2>3
    <3>2. Line[n + 1] = wire[n - Len(answers)]
      BY <1>1, <1>2, <1>5, <2>1, <2>3
    <3> QED BY <1>3, <3>1, <3>2
  <2> QED BY <1>1, <2>2, <2>3
<1>8. Line[1] = jsonObject[1]
  BY <1>1, <1>2, <1>5
<1>9. \A s \in Statement : Adds(s) => Total' = Total /\ Line'[Total'] = s
  <2> TAKE s \in Statement
  <2> HAVE Adds(s)
  <2>1. Len(wire') = Len(wire) + 1 /\ wire'[Len(wire) + 1] = s
    BY <1>3
  <2>2. Total' = Total /\ Total' \in 1..Total' /\ ~(Total' <= Len(answers)) /\ Total' - Len(answers) = Len(wire) + 1
    BY <1>1, <1>2, <1>4, <2>1
  <2> QED BY <1>6, <2>1, <2>2
<1> QED BY <1>1, <1>2, <1>3, <1>4, <1>7, <1>8, <1>9

\* What stands in the line is in one of its parts.
LEMMA LineAmong ==
  ASSUME ServerOK, NEW n \in 1..Total
  PROVE  /\ Line[n] \in Among(jsonObject) \cup Among(answers) \cup Among(wire)
         /\ n > Len(jsonObject) => Line[n] \in Among(answers) \cup Among(wire)
<1>1. wire \in Seq(Statement) /\ answers \in Seq(Result) /\ jsonObject \in Seq(Result)
  BY DEF ServerOK
<1>2. /\ Len(wire) \in Nat /\ Len(answers) \in Nat /\ Len(jsonObject) \in Nat
      /\ DOMAIN wire = 1..Len(wire) /\ DOMAIN answers = 1..Len(answers) /\ DOMAIN jsonObject = 1..Len(jsonObject)
  BY <1>1, LenProperties
<1>3. CASE n <= Len(jsonObject)
  <2>1. Line[n] = jsonObject[n] /\ n \in DOMAIN jsonObject
    BY <1>2, <1>3, LineTyped
  <2> QED BY <1>3, <1>2, <2>1 DEF Among
<1>4. CASE n > Len(jsonObject) /\ n <= Done
  <2>1. Line[n] = answers[n - Len(jsonObject)] /\ n - Len(jsonObject) \in DOMAIN answers
    BY <1>2, <1>4, LineTyped DEF Done
  <2> QED BY <2>1 DEF Among
<1>5. CASE n > Done
  <2>1. Line[n] = wire[n - Done] /\ n - Done \in DOMAIN wire
    BY <1>2, <1>5, LineTyped
  <2> QED BY <2>1 DEF Among
<1> QED BY <1>2, <1>3, <1>4, <1>5, LineTyped

-----------------------------------------------------------------------------
\* Steps without a mishap.

\* A node of the tree as it is.
Clicked(x) ==
  x.key \in AllKeys(tree) /\ x.title = IF Len(x.key) = 3 THEN At(tree, x.key) ELSE NameAt(x.key[2])

\* What is sent names what is there, or what the question named in the present tree.
Sensible(s) ==
  /\ s \in Statement
  /\ s.what = "databases" => s.prefix = sent + 1
  /\ s.what = "tables" =>
       \/ \E i \in DOMAIN tree.nodes : s.key = KeyAt(i) /\ s.of = NameAt(i)
       \/ \E n \in 1..Total : Line[n].what = "create" /\ s.key = Line[n].key /\ s.of = Line[n].table.of
  /\ s.what \in Altering =>
       /\ dialog # None /\ dialog.what = s.what /\ s.key = dialog.node.key
       /\ Above(s.key) \in DatabaseKeys(tree)
       /\ IF s.what = "create" THEN s.table.of = dialog.node.title ELSE s.table = dialog.node.title
  /\ s.what = "drop" /\ kind = "table" => \A n \in 1..Total : Line[n].what # "tables"

\* What the page does where a statement is sent.
Sent(s) ==
  /\ Sensible(s) /\ Adds(s)
  /\ tree' = IF s.what = "drop" /\ kind = "table" THEN Without(tree, s.key) ELSE tree
  /\ \A k \in progress' : k \in progress \/ (s.what \in Transfers /\ s.node.key = k)
  /\ s.what = "drop" => Pointed' = {}
ByPage ==
  /\ UNCHANGED <<mode, kind, store, answers, jsonObject>>
  /\ \A x \in Pointed' : x \in Pointed \/ (x \in Node /\ Clicked(x))
  /\ dialog' # None => dialog' = dialog \/ (kind = "routine" => dialog'.what # "rename")
  /\ UNCHANGED <<wire, sent, tree, progress>> \/ \E s \in Statement : Sent(s)

LEMMA Plainly ==
  ASSUME NEW s \in Statement, harm = {}, harm' = {}, SendsNamed(s) \/ SendsUnnamed(s) \/ Sends(s)
  PROVE  Adds(s)
  BY DEF SendsNamed, SendsUnnamed, Sends, Adds

LEMMA PlainlySent ==
  ASSUME NEW s \in Statement, Adds(s), UNCHANGED tree, s.what \notin Keyed,
         s.what = "databases" => s.prefix = sent + 1,
         \A k \in progress' : k \in progress \/ (s.what \in Transfers /\ s.node.key = k)
  PROVE  Sent(s)
  BY DEF Sent, Sensible, Keyed, Altering

LEMMA PageByClick ==
  ASSUME TreeOK, Clicks, harm = {}, harm' = {}
  PROVE  ByPage
<1>0. tree \in Tree /\ ServerOK /\ tree' = tree /\ sent \in Nat
  BY PageByClicks DEF TreeOK, PageOK, ServerOK
<1>1. UNCHANGED <<mode, kind, store, answers, jsonObject>>
  BY ClicksSend DEF server
<1>2. ASSUME Pointed' \subseteq Pointed, dialog' \in {dialog, None},
             NEW s \in Statement, Sent(s)
      PROVE  ByPage
  BY <1>1, <1>2 DEF ByPage
<1>3. ASSUME Pointed' \subseteq Pointed, dialog' \in {dialog, None}, UNCHANGED <<wire, sent, progress>>
      PROVE  ByPage
  BY <1>0, <1>1, <1>3 DEF ByPage
<1>4. ASSUME UNCHANGED dialog, currentNode' \in {currentNode, None}
      PROVE  Pointed' \subseteq Pointed /\ dialog' \in {dialog, None}
  BY <1>4 DEF Pointed
<1>5. CASE \E i \in DOMAIN tree.nodes : Expand(i)
  <2> PICK i \in DOMAIN tree.nodes : Expand(i)
    BY <1>5
  <2> DEFINE s == [what |-> "tables", key |-> <<tree.prefix, i>>, of |-> tree.nodes[i].name]
  <2>1. tree.prefix \in Nat /\ i \in Nat /\ tree.nodes[i].name \in Databases
    BY <1>0, TreeKeys DEF Tree, Nodes
  <2>2. s \in Statement
    BY <2>1 DEF Statement, Root
  <2>3. Adds(s) /\ UNCHANGED <<currentNode, dialog, progress>>
    BY <2>2, Plainly DEF Expand, ui
  <2>4. Sent(s)
    BY <1>0, <2>2, <2>3 DEF Sent, Sensible, KeyAt, NameAt, Altering
  <2> QED BY <1>2, <1>4, <2>2, <2>3, <2>4
<1>6. CASE \E k \in AllKeys(tree) : Select(k)
  <2> PICK k \in AllKeys(tree) : Select(k)
    BY <1>6
  <2> DEFINE s == [what |-> "ddl", table |-> At(tree, k)]
  <2>1. At(tree, k) \in Table
    BY <1>0, TreeKeys DEF Select
  <2>2. s \in Statement
    BY <2>1 DEF Statement
  <2>3. Adds(s) /\ UNCHANGED <<currentNode, dialog, progress>>
    BY <2>2, Plainly DEF Select, ui
  <2>4. Sent(s)
    BY <1>0, <2>2, <2>3, PlainlySent DEF Keyed, Altering
  <2> QED BY <1>2, <1>4, <2>2, <2>3, <2>4
<1>7. CASE \E k \in AllKeys(tree) : RightClick(k)
  <2> PICK k \in AllKeys(tree) : RightClick(k)
    BY <1>7
  <2>1. UNCHANGED <<dialog, wire, sent, progress>> /\ dialog = None
    BY DEF RightClick
  <2>2. currentNode' = [key |-> k, title |-> IF Len(k) = 3 THEN At(tree, k) ELSE tree.nodes[k[2]].name]
    BY DEF RightClick
  <2>3. currentNode'.key = k /\ currentNode'.title = IF Len(k) = 3 THEN At(tree, k) ELSE tree.nodes[k[2]].name
    BY <2>2
  <2>4. PageOK'
    BY <1>7, PageByClicks DEF Clicks
  <2>5. Clicked(currentNode')
    BY <2>3 DEF Clicked, NameAt
  <2>6. currentNode' # None => currentNode' \in Node
    BY <2>4 DEF PageOK
  <2>7. Pointed' \subseteq {currentNode'} /\ (currentNode' = None => Pointed' = {})
    BY <2>1 DEF Pointed
  <2> QED BY <1>0, <1>1, <2>1, <2>5, <2>6, <2>7 DEF ByPage
<1>8. CASE (\E text \in Texts \cup {None} : Filter(text)) \/ OpenTab \/ (\E k \in DOMAIN tabs : CloseTab(k))
  <2>1. UNCHANGED <<dialog, wire, sent, progress>> /\ currentNode' \in {currentNode, None}
    BY <1>8 DEF Filter, OpenTab, CloseTab
  <2> QED BY <1>3, <1>4, <2>1
<1>9. CASE GiveUp
  <2>1. UNCHANGED <<currentNode, wire, sent, progress>> /\ dialog' = None
    BY <1>9 DEF GiveUp
  <2> QED BY <1>3, <2>1 DEF Pointed
<1>10. CASE \E what \in Items : Asks(what)
  <2> PICK what \in Items : Asks(what)
    BY <1>10
  <2>1. /\ UNCHANGED <<wire, sent, progress>> /\ currentNode' = None /\ currentNode # None
        /\ dialog' = [what |-> what, node |-> currentNode, found |-> Found]
    BY DEF Asks
  <2>2. Pointed' \subseteq Pointed
    BY <2>1 DEF Pointed
  <2>3. kind = "routine" => dialog'.what # "rename"
    BY <2>1 DEF Items, DatabaseItems, TablesItems, RoutinesItems, TableItems, RoutineItems
  <2> QED BY <1>0, <1>1, <2>1, <2>2, <2>3 DEF ByPage
<1>11. CASE Refresh
  <2>1. AllDatabases \in Statement /\ AllDatabases.what = "databases" /\ AllDatabases.prefix = sent + 1
    BY <1>0 DEF Statement, AllDatabases, Prefix
  <2>2. Adds(AllDatabases) /\ UNCHANGED <<currentNode, dialog, progress>>
    BY <1>11, <2>1, Plainly DEF Refresh, ui
  <2>3. Sent(AllDatabases)
    BY <1>0, <2>1, <2>2, PlainlySent DEF Keyed, Altering
  <2> QED BY <1>2, <1>4, <2>1, <2>2, <2>3
<1>12. CASE \E d \in Databases : CreateDatabase(d)
  <2> PICK d \in Databases : CreateDatabase(d)
    BY <1>12
  <2> DEFINE s == [what |-> "createDatabase", of |-> d]
  <2>1. s \in Statement
    BY DEF Statement
  <2>2. Adds(s) /\ UNCHANGED <<currentNode, dialog, progress>>
    BY <2>1, Plainly DEF CreateDatabase, ui
  <2>3. Sent(s)
    BY <1>0, <2>1, <2>2, PlainlySent DEF Keyed, Altering
  <2> QED BY <1>2, <1>4, <2>1, <2>2, <2>3
<1>13. CASE CopyTable
  <2> DEFINE s == [what |-> "copy", table |-> currentNode.title]
  <2>1. currentNode.title \in Table
    BY <1>13, NodesOf, NodeParts DEF CopyTable, OnTable
  <2>2. s \in Statement
    BY <2>1 DEF Statement
  <2>3. Adds(s) /\ UNCHANGED <<dialog, progress>> /\ currentNode' = None
    BY <1>13, <2>2, Plainly DEF CopyTable
  <2>4. Sent(s)
    BY <1>0, <2>2, <2>3, PlainlySent DEF Keyed, Altering
  <2> QED BY <1>2, <1>4, <2>2, <2>3, <2>4
<1>14. CASE ExportDatabase \/ ExportTable
  <2> DEFINE s == [what |-> "export", node |-> currentNode]
  <2>1. currentNode \in Node
    BY <1>14, NodesOf DEF ExportDatabase, ExportTable, OnDatabase, OnTable
  <2>2. s \in Statement
    BY <2>1 DEF Statement
  <2>3. Adds(s) /\ UNCHANGED dialog /\ currentNode' = None /\ progress' = progress \cup {currentNode.key}
    BY <1>14, <2>2, Plainly DEF ExportDatabase, ExportTable, Exports
  <2>4. Sent(s)
    BY <1>0, <2>2, <2>3, PlainlySent DEF Keyed, Altering, Transfers
  <2> QED BY <1>2, <1>4, <2>2, <2>3, <2>4
<1> QED BY <1>5, <1>6, <1>7, <1>8, <1>9, <1>10, <1>11, <1>12, <1>13, <1>14 DEF Clicks

LEMMA PageByReply ==
  ASSUME TreeOK, Answer, harm = {}, harm' = {}
  PROVE  ByPage
<1>0. tree \in Tree /\ ServerOK
  BY DEF TreeOK, PageOK
<1>1. UNCHANGED <<mode, kind, store, answers, jsonObject, currentNode>> /\ dialog # None /\ dialog' = None
  BY AnswerSends DEF server
<1>2. currentNode = None /\ Pointed' = {}
  BY <1>1 DEF Pointed, TreeOK, PageOK
<1>3. ASSUME NEW s \in Statement, Sent(s)
      PROVE  ByPage
  BY <1>1, <1>2, <1>3 DEF ByPage
<1>4. CASE DropDatabase
  <2> DEFINE s == [what |-> "dropDatabase", of |-> dialog.node.title]
  <2>1. s \in Statement
    BY <1>4, QuestionOf DEF DropDatabase, Answers, Statement, OfDatabase
  <2>2. Adds(s) /\ UNCHANGED <<tree, progress>>
    BY <1>4, <2>1, Plainly DEF DropDatabase
  <2> QED BY <1>3, <2>1, <2>2, PlainlySent DEF Keyed, Altering
<1>5. CASE Import
  <2> DEFINE s == [what |-> "import", node |-> dialog.node]
  <2>1. s \in Statement
    BY <1>5, QuestionOf DEF Import, Answers, Statement
  <2>2. Adds(s) /\ UNCHANGED tree /\ progress' = progress \cup {dialog.node.key}
    BY <1>5, <2>1, Plainly DEF Import
  <2> QED BY <1>3, <2>1, <2>2, PlainlySent DEF Keyed, Altering, Transfers
<1>6. CASE Truncate
  <2> DEFINE s == [what |-> "truncate", table |-> dialog.node.title]
  <2>1. s \in Statement
    BY <1>6, QuestionOf DEF Truncate, Answers, Statement
  <2>2. Adds(s) /\ UNCHANGED <<tree, progress>>
    BY <1>6, <2>1, Plainly DEF Truncate
  <2> QED BY <1>3, <2>1, <2>2, PlainlySent DEF Keyed, Altering
<1>7. CASE Drop
  <2> DEFINE s == [what |-> "drop", key |-> dialog.node.key, table |-> dialog.node.title]
  <2>1. s \in Statement
    BY <1>7, QuestionOf DEF Drop, Answers, Statement
  <2>2. Adds(s) /\ UNCHANGED progress
    BY <1>7, <2>1, Plainly DEF Drop
  <2>3. tree' = IF kind = "table" THEN Without(tree, s.key) ELSE tree
    BY <1>7 DEF Drop, DeleteNode
  <2>4. Above(s.key) \in DatabaseKeys(tree) /\ ~(kind = "table" /\ BeingListed)
    BY <1>7 DEF Drop, Outlived, Marked
  <2>5. kind = "table" => \A n \in 1..Total : Line[n].what # "tables"
    BY <1>0, <2>4, LineAmong DEF BeingListed
  <2>6. dialog.what = "drop"
    BY <1>7 DEF Drop, Answers
  <2>7. Sensible(s)
    BY <1>1, <2>1, <2>4, <2>5, <2>6 DEF Sensible
  <2> QED BY <1>2, <1>3, <2>1, <2>2, <2>3, <2>7 DEF Sent
<1>8. ASSUME NEW n \in Titles, Create(n)
      PROVE  ByPage
  <2> DEFINE s == [what |-> "create", key |-> dialog.node.key,
                   table |-> [of |-> dialog.node.title, name |-> n]]
  <2>1. dialog.what = "create" /\ Sends(s) /\ UNCHANGED <<tree, progress>>
    BY <1>8 DEF Create, Answers
  <2>2. dialog.node.key \in Root /\ [of |-> dialog.node.title, name |-> n] \in Table
    BY <1>1, <2>1, QuestionOf DEF OfDatabase, Table
  <2>3. s \in Statement
    BY <2>2 DEF Statement
  <2>4. Above(s.key) \in DatabaseKeys(tree)
    BY <1>8 DEF Create, Outlived, Marked
  <2>5. Sensible(s)
    BY <1>1, <2>1, <2>3, <2>4 DEF Sensible
  <2>6. Adds(s)
    BY <2>1, <2>3, Plainly
  <2> QED BY <1>3, <2>1, <2>3, <2>5, <2>6 DEF Sent
<1>9. ASSUME NEW n \in Titles, Rename(n)
      PROVE  ByPage
  <2> DEFINE s == [what |-> "rename", key |-> dialog.node.key, table |-> dialog.node.title,
                   name |-> n]
  <2>1. dialog.what = "rename" /\ Sends(s) /\ UNCHANGED <<tree, progress>>
    BY <1>9 DEF Rename, Answers
  <2>2. dialog.node.key \in Leaf /\ dialog.node.title \in Table
    BY <1>1, <2>1, QuestionOf
  <2>3. s \in Statement
    BY <2>2 DEF Statement
  <2>4. Above(s.key) \in DatabaseKeys(tree)
    BY <1>9 DEF Rename, Outlived, Marked
  <2>5. Sensible(s)
    BY <1>1, <2>1, <2>3, <2>4 DEF Sensible
  <2>6. Adds(s)
    BY <2>1, <2>3, Plainly
  <2> QED BY <1>3, <2>1, <2>3, <2>5, <2>6 DEF Sent
<1> QED BY <1>4, <1>5, <1>6, <1>7, <1>8, <1>9 DEF Answer

\* What an answer does to the tree.
Fresh(a) == [prefix |-> a.prefix, nodes |-> [i \in DOMAIN a.nodes |->
               [name |-> a.nodes[i], tables |-> <<>>, loaded |-> FALSE]]]
Retitled(a) == [tree.nodes[a.key[2]].tables EXCEPT ![a.key[3]].name = a.name]
Teaches(a) ==
  /\ a.what = "databases" => tree' = Fresh(a)
  /\ a.what = "tables" =>
       IF a.key \in DatabaseKeys(tree)
       THEN tree' = Relisted(tree, a.key, a.children) /\ ~Shifted(tree', a.key)
       ELSE tree' = tree
  /\ a.what = "drop" => tree' = IF kind = "routine" THEN Without(tree, a.key) ELSE tree
  /\ a.what = "rename" =>
       /\ a.key \notin {r[1] : r \in References}
       /\ tree' = IF a.key \in TableKeys(tree) THEN Relisted(tree, a.key, Retitled(a)) ELSE tree
  /\ a.what \notin {"databases", "tables", "drop", "rename"} => tree' = tree
AsksAgain(a) == \E s \in Statement :
  /\ Sensible(s) /\ Adds(s)
  /\ a.what = "executed" => s.what = "databases"
  /\ a.what = "create" => s.what = "tables" /\ s.key = a.key /\ s.of = a.table.of
ByAnswer(a) ==
  /\ UNCHANGED <<mode, kind, store, answers, currentNode, dialog>> /\ progress' = Ended(a)
  /\ Teaches(a)
  /\ a.what \in {"executed", "create"} => AsksAgain(a)
  /\ a.what \notin {"executed", "create"} => UNCHANGED <<wire, sent>>

LEMMA AnswerWorkedOn ==
  ASSUME TreeOK, Work, harm = {}, harm' = {}
  PROVE  /\ jsonObject # <<>> /\ jsonObject' = <<>> /\ Line[1] = jsonObject[1] /\ Line[1] \in Result
         /\ Done \in Nat \ {0} /\ 1 \in 1..Total /\ ByAnswer(Line[1])
<1> DEFINE a == jsonObject[1]
<1>0. ServerOK /\ tree \in Tree /\ sent \in Nat
  BY DEF TreeOK, PageOK, ServerOK
<1>1. jsonObject # <<>> /\ Len(jsonObject) = 1 /\ a \in Result /\ jsonObject' = <<>>
  BY WorkedOn
<1>2. UNCHANGED <<mode, kind, store, answers, currentNode, dialog>> /\ progress' = Ended(a)
  BY DEF Work, server
<1>3. Done \in Nat \ {0} /\ 1 \in 1..Total /\ Line[1] = a
  <2>1. Done = 1 + Len(answers) /\ Len(answers) \in Nat
    BY <1>0, <1>1, LenProperties DEF Done, ServerOK
  <2>2. Done <= Total /\ Total \in Nat
    BY <1>0, LineTyped
  <2> QED BY <1>0, <1>1, <2>1, <2>2, LineTyped
<1>4. \/ Empties(a) \/ NewDatabases(a) \/ NewTables(a) \/ Definition(a) \/ Dropped(a)
      \/ Renamed(a) \/ Reloads(a) \/ Transferred(a)
  BY DEF Work
<1> HIDE DEF a
<1>5. ASSUME Empties(a) PROVE ByAnswer(a)
  BY <1>5 DEF Empties
<1>6. ASSUME NewDatabases(a) PROVE ByAnswer(a)
  <2>1. a.what = "databases" /\ tree' = Fresh(a) /\ UNCHANGED <<wire, sent>>
    BY <1>6 DEF NewDatabases, Fresh
  <2> QED BY <1>2, <2>1 DEF ByAnswer, Teaches
<1>7. ASSUME NewTables(a) PROVE ByAnswer(a)
  <2>1. a.what = "tables" /\ UNCHANGED <<wire, sent>>
    BY <1>7 DEF NewTables
  <2>2. IF a.key \in DatabaseKeys(tree)
         THEN tree' = Relisted(tree, a.key, a.children) /\ ~Shifted(tree', a.key)
         ELSE tree' = tree
    BY <1>7 DEF NewTables, Marked
  <2> QED BY <1>2, <2>1, <2>2 DEF ByAnswer, Teaches
<1>8. ASSUME Definition(a) \/ Transferred(a) PROVE ByAnswer(a)
  <2>1. a.what \in {"ddl", "export", "import"} /\ UNCHANGED <<wire, sent, tree>>
    BY <1>8 DEF Definition, Transferred
  <2> QED BY <1>2, <2>1 DEF ByAnswer, Teaches
<1>9. ASSUME Dropped(a) PROVE ByAnswer(a)
  <2>1. a.what = "drop" /\ UNCHANGED <<wire, sent>> /\ tree' = IF kind = "routine" THEN Without(tree, a.key) ELSE tree
    BY <1>9 DEF Dropped, DeleteNode
  <2> QED BY <1>2, <2>1 DEF ByAnswer, Teaches
<1>10. ASSUME Renamed(a) PROVE ByAnswer(a)
  <2>1. a.what = "rename" /\ UNCHANGED <<wire, sent>> /\ a.key \notin {r[1] : r \in References}
    BY <1>10 DEF Renamed, Marked
  <2>2. tree' = IF a.key \in TableKeys(tree) THEN Relisted(tree, a.key, Retitled(a)) ELSE tree
    BY <1>10 DEF Renamed, Retitled
  <2> QED BY <1>2, <2>1, <2>2 DEF ByAnswer, Teaches
<1>11. ASSUME Reloads(a) PROVE ByAnswer(a)
  <2>1. a.what \in {"executed", "create"} /\ UNCHANGED tree
    BY <1>11 DEF Reloads
  <2>2. CASE a.what = "executed"
    <3>1. AllDatabases \in Statement /\ AllDatabases.what = "databases" /\ AllDatabases.prefix = sent + 1
      BY <1>0 DEF Statement, AllDatabases, Prefix
    <3>2. Adds(AllDatabases)
      BY <1>11, <2>2, <3>1, Plainly DEF Reloads
    <3>3. Sensible(AllDatabases)
      BY <3>1 DEF Sensible, Altering
    <3> QED BY <1>2, <2>1, <2>2, <3>1, <3>2, <3>3 DEF ByAnswer, Teaches, AsksAgain
  <2>3. CASE a.what = "create"
    <3> DEFINE s == [what |-> "tables", key |-> a.key, of |-> a.table.of]
    <3>1. s \in Statement
      BY <1>1, <2>3, ResultParts DEF Statement, Table
    <3>2. Adds(s)
      BY <1>11, <2>3, <3>1, Plainly DEF Reloads
    <3>3. Sensible(s)
      BY <1>3, <2>3, <3>1 DEF Sensible, Altering
    <3> QED BY <1>2, <2>1, <2>3, <3>1, <3>2, <3>3 DEF ByAnswer, Teaches, AsksAgain
  <2> QED BY <2>1, <2>2, <2>3
<1>12. ByAnswer(a)
  BY <1>4, <1>5, <1>6, <1>7, <1>8, <1>9, <1>10, <1>11
<1> QED BY <1>1, <1>3, <1>12 DEF a

\* A statement and its answer, as far as the order of the line tells them apart.
Alike(x, y) ==
  /\ x.what = y.what \/ (x.what = "executed" /\ y.what \in Renewing)
  /\ x.what = "databases" => x.prefix = y.prefix
  /\ x.what \in Keyed => x.key = y.key
  /\ x.what \in Altering => x.table = y.table
  /\ x.what \in Transfers => x.node = y.node

LEMMA ReplyAlike ==
  ASSUME NEW s \in Statement
  PROVE  Alike(Reply(s), s)
<1>1. CASE s.what = "databases"
  <2>1. Reply(s).what = "databases" /\ Reply(s).prefix = s.prefix
    BY <1>1 DEF Reply
  <2> QED BY <1>1, <2>1 DEF Alike, Keyed, Altering, Transfers
<1>2. CASE s.what = "tables"
  <2>1. Reply(s).what = "tables" /\ Reply(s).key = s.key
    BY <1>2 DEF Reply
  <2> QED BY <1>2, <2>1 DEF Alike, Keyed, Altering, Transfers
<1>3. CASE s.what \in {"truncate", "copy", "dropDatabase", "createDatabase"}
  <2>1. Reply(s).what = "executed"
    BY <1>3 DEF Reply
  <2> QED BY <1>3, <2>1 DEF Alike, Keyed, Altering, Transfers, Renewing
<1>4. CASE s.what \in {"ddl", "export", "import", "create", "rename", "drop"}
  <2>1. Reply(s) = s
    BY <1>4 DEF Reply
  <2> QED BY <2>1 DEF Alike
<1> QED BY <1>1, <1>2, <1>3, <1>4, StatementParts

\* The line after a step in which k answers are worked on: what stood in it moves up,
\* one statement may be executed, and one may be added.
Moves(k) ==
  /\ k \in {0, 1} /\ Total' >= Total - k
  /\ \A n \in 1..Total' :
       \/ n + k \in 1..Total /\ Alike(Line'[n], Line[n + k])
       \/ n = Total' /\ n + k = Total + 1 /\ Sensible(Line'[n]) /\ sent' = sent + 1

\* The tree is the same but for the tables, or another.
Shape ==
  /\ tree'.prefix = tree.prefix /\ DOMAIN tree'.nodes = DOMAIN tree.nodes
  /\ \A i \in DOMAIN tree.nodes : tree'.nodes[i].name = tree.nodes[i].name
Renewed == Line[1].what = "databases" /\ tree' = Fresh(Line[1]) /\ Pointed' = Pointed /\ Total' = Total - 1
Advances(k) ==
  /\ Moves(k) /\ kind' = kind /\ sent' \in {sent, sent + 1}
  /\ Total' + k = Total + 1 => Done' < Total'
  /\ Shape \/ (k = 1 /\ 1 \in 1..Total /\ 1 <= Done /\ Renewed)
  /\ \A x \in Pointed' : x \in Pointed \/ (x \in Node /\ Clicked(x))

LEMMA LineParts ==
  ASSUME ServerOK, NEW n \in 1..Total
  PROVE  /\ Line[n].what = "databases" => Line[n].prefix \in Nat
         /\ Line[n].what \in {"tables", "create"} => Line[n].key \in Root
         /\ Line[n].what \in {"rename", "drop"} => Line[n].key \in Leaf
         /\ Line[n].what \in Keyed => Line[n].key[1] \in Nat /\ Line[n].key[2] \in Nat
         /\ Line[n].what \in Altering => Line[n].table \in Table
         /\ Line[n].what \in Transfers => Line[n].node \in Node
         /\ Line[n].what = "rename" => Line[n].name \in Titles
<1> DEFINE x == Line[n]
<1>1. /\ x.what = "databases" => x.prefix \in Nat
      /\ x.what \in {"tables", "create"} => x.key \in Root
      /\ x.what \in {"rename", "drop"} => x.key \in Leaf
      /\ x.what \in Altering => x.table \in Table
      /\ x.what \in Transfers => x.node \in Node
      /\ x.what = "rename" => x.name \in Titles
  <2>0. x \in Result \/ x \in Statement
    BY LineTyped
  <2> HIDE DEF x
  <2>1. CASE x \in Result
    BY <2>1, ResultParts DEF Altering, Transfers
  <2>2. CASE x \in Statement
    BY <2>2, StatementParts DEF Altering, Transfers
  <2> QED BY <2>0, <2>1, <2>2
<1> HIDE DEF x
<1>2. x.what \in Keyed => x.key \in Root \/ x.key \in Leaf
  BY <1>1 DEF Keyed, Altering
<1>3. x.what \in Keyed => x.key[1] \in Nat /\ x.key[2] \in Nat
  BY <1>2 DEF Root, Leaf
<1> QED BY <1>1, <1>3 DEF x

LEMMA RelistedShape ==
  ASSUME TreeOK, NEW key, key[2] \in DOMAIN tree.nodes, NEW tables \in Placed(Table),
         tree' = Relisted(tree, key, tables)
  PROVE  Shape
<1>1. tree \in Tree
  BY DEF TreeOK, PageOK
<1>2. /\ tree'.prefix = tree.prefix /\ DOMAIN tree'.nodes = DOMAIN tree.nodes
      /\ tree'.nodes[key[2]] = [name |-> tree.nodes[key[2]].name, tables |-> tables, loaded |-> TRUE]
      /\ \A i \in DOMAIN tree.nodes \ {key[2]} : tree'.nodes[i] = tree.nodes[i]
  BY <1>1, RelistedTree
<1> QED BY <1>2 DEF Shape

\* What Without does, as Relisted does it.
LEMMA WithoutIs ==
  ASSUME NEW t \in Tree, NEW k \in TableKeys(t), NEW i \in DOMAIN t.nodes, k[2] = i
  PROVE  /\ [j \in DOMAIN t.nodes[i].tables \ {k[3]} |-> t.nodes[i].tables[j]] \in Placed(Table)
         /\ Without(t, k) = Relisted(t, k, [j \in DOMAIN t.nodes[i].tables \ {k[3]} |-> t.nodes[i].tables[j]])
<1>1. t.nodes[i] \in Nodes
  BY TreeKeys
<1>2. t.nodes[i].tables \in Placed(Table)
  BY <1>1 DEF Nodes
<1> QED BY <1>2, FewerPlaced DEF Without

LEMMA SameShape ==
  ASSUME TreeOK
  PROVE  (UNCHANGED tree => Shape) /\ \A k : tree' = Without(tree, k) => Shape
<1>0. tree \in Tree
  BY DEF TreeOK, PageOK
<1>1. UNCHANGED tree => Shape
  BY DEF Shape
<1>2. ASSUME NEW k, tree' = Without(tree, k)
      PROVE  Shape
  <2>1. CASE k \notin TableKeys(tree)
    BY <1>1, <1>2, <2>1 DEF Without
  <2>2. CASE k \in TableKeys(tree)
    <3> DEFINE i == k[2]
               less == [j \in DOMAIN tree.nodes[i].tables \ {k[3]} |-> tree.nodes[i].tables[j]]
    <3>1. i \in DOMAIN tree.nodes
      BY <1>0, <2>2, TreeKeys
    <3>2. less \in Placed(Table) /\ tree' = Relisted(tree, k, less)
      BY <1>0, <1>2, <2>2, <3>1, WithoutIs
    <3> HIDE DEF less
    <3> QED BY <3>1, <3>2, RelistedShape
  <2> QED BY <2>1, <2>2
<1> QED BY <1>1, <1>2

\* Nothing is new in the line but what is sent.
LEMMA AdvancesByPage ==
  ASSUME TreeOK, ByPage
  PROVE  /\ Advances(0) /\ Done' = Done /\ Done \in Nat /\ Total \in Nat /\ Done <= Total
         /\ \A n \in 1..Total : Line'[n] = Line[n]
         /\ \/ Total' = Total /\ UNCHANGED <<tree, progress>>
            \/ Total' = Total + 1 /\ Line'[Total'] \in Statement /\ Sent(Line'[Total'])
<1>0. ServerOK
  BY DEF TreeOK
<1>1. Done \in Nat /\ Total \in Nat /\ Done <= Total
  BY <1>0, LineTyped
<1>2. UNCHANGED <<kind, answers, jsonObject>> /\ \A x \in Pointed' : x \in Pointed \/ (x \in Node /\ Clicked(x))
  BY DEF ByPage
<1>3. \A x : Alike(x, x)
  BY DEF Alike
<1>4. CASE UNCHANGED <<wire, sent, tree, progress>>
  <2>1. Done' = Done /\ Total' = Total /\ Line' = Line
    BY <1>2, <1>4, LineKept
  <2>2. Moves(0)
    BY <1>1, <1>3, <2>1 DEF Moves
  <2>3. Shape
    BY <1>4, SameShape
  <2> QED BY <1>1, <1>2, <1>4, <2>1, <2>2, <2>3 DEF Advances
<1>5. CASE \E s \in Statement : Sent(s)
  <2> PICK s \in Statement : Sent(s)
    BY <1>5
  <2>1. Adds(s) /\ Sensible(s) /\ sent' = sent + 1
    BY DEF Sent, Adds
  <2>2. Done' = Done /\ Total' = Total + 1 /\ Line'[Total'] = s /\ \A n \in 1..Total : Line'[n] = Line[n]
    BY <1>0, <1>2, <2>1, LineSent
  <2>3. Moves(0)
    BY <1>1, <1>3, <2>1, <2>2 DEF Moves
  <2>4. Shape
    BY SameShape DEF Sent
  <2> QED BY <1>1, <1>2, <2>1, <2>2, <2>3, <2>4 DEF Advances
<1> QED BY <1>4, <1>5 DEF ByPage

LEMMA AdvancesByExecute ==
  ASSUME TreeOK, Execute, harm' = {}
  PROVE  Advances(0)
<1>0. ServerOK /\ UNCHANGED <<tree, currentNode, dialog, kind, sent>>
  BY DEF TreeOK, Execute, ui
<1>1. /\ Total' = Total /\ Done + 1 \in 1..Total /\ Head(wire) \in Statement
      /\ Line[Done + 1] = Head(wire) /\ Line'[Done + 1] = Reply(Head(wire))
      /\ \A n \in 1..Total \ {Done + 1} : Line'[n] = Line[n]
  BY <1>0, LineExecuted
<1>2. Total \in Nat
  BY <1>0, LineTyped
<1>3. \A n \in 1..Total : Alike(Line'[n], Line[n])
  <2> TAKE n \in 1..Total
  <2>1. CASE n = Done + 1
    BY <1>1, <2>1, ReplyAlike
  <2>2. CASE n # Done + 1
    BY <1>1, <2>2 DEF Alike
  <2> QED BY <2>1, <2>2
<1>4. Moves(0)
  BY <1>1, <1>2, <1>3 DEF Moves
<1>5. Shape /\ Pointed' = Pointed
  BY <1>0, SameShape DEF Pointed
<1> QED BY <1>0, <1>1, <1>2, <1>4, <1>5 DEF Advances

LEMMA AdvancesByArrive ==
  ASSUME TreeOK, Arrive, harm' = {}
  PROVE  Advances(0)
<1>0. ServerOK /\ UNCHANGED <<tree, currentNode, dialog, kind, sent>>
  BY DEF TreeOK, Arrive, ui, server
<1>1. Done' = Done /\ Total' = Total /\ Line' = Line /\ Total \in Nat
  BY <1>0, LineArrived, LineTyped
<1>2. \A x : Alike(x, x)
  BY DEF Alike
<1>3. Moves(0)
  BY <1>1, <1>2 DEF Moves
<1>4. Shape /\ Pointed' = Pointed
  BY <1>0, SameShape DEF Pointed
<1> QED BY <1>0, <1>1, <1>3, <1>4 DEF Advances

LEMMA AdvancesByAnswer ==
  ASSUME TreeOK, jsonObject # <<>>, jsonObject' = <<>>, Done \in Nat \ {0},
         Line[1] \in Result, ByAnswer(Line[1])
  PROVE  /\ Advances(1) /\ Done' = Done - 1 /\ Total \in Nat /\ Done <= Total
         /\ \A n \in 1..(Total - 1) : Line'[n] = Line[n + 1]
         /\ \/ Line[1].what \notin {"executed", "create"} /\ Total' = Total - 1
            \/ /\ Line[1].what \in {"executed", "create"} /\ Total' = Total
               /\ Line'[Total'] \in Statement /\ Sensible(Line'[Total'])
               /\ Line[1].what = "executed" => Line'[Total'].what = "databases"
               /\ Line[1].what = "create" => /\ Line'[Total'].what = "tables" /\ Line'[Total'].key = Line[1].key
                                             /\ Line'[Total'].of = Line[1].table.of
<1> DEFINE a == Line[1]
<1>0. ServerOK /\ tree \in Tree /\ UNCHANGED <<answers, currentNode, dialog, kind>>
  BY DEF TreeOK, PageOK, ByAnswer
<1>1. Total \in Nat /\ Done <= Total
  BY <1>0, LineTyped
<1>2. Pointed' = Pointed
  BY <1>0 DEF Pointed
<1>3. UNCHANGED wire \/ \E s \in Statement : Adds(s)
  BY DEF ByAnswer, AsksAgain
<1>4. /\ Done' = Done - 1 /\ \A n \in 1..(Total - 1) : Line'[n] = Line[n + 1]
      /\ UNCHANGED wire => Total' = Total - 1
      /\ \A s \in Statement : Adds(s) => Total' = Total /\ Line'[Total'] = s
  BY <1>0, <1>3, LineWorked
<1>5. \A x : Alike(x, x)
  BY DEF Alike
<1> HIDE DEF a
<1>6. Shape \/ Renewed
  <2>1. CASE a.what = "databases"
    <3>1. UNCHANGED wire /\ tree' = Fresh(a)
      BY <2>1 DEF ByAnswer, Teaches, a
    <3> QED BY <1>2, <1>4, <2>1, <3>1 DEF Renewed, a
  <2>2. CASE a.what = "tables" /\ a.key \in DatabaseKeys(tree)
    <3>1. tree' = Relisted(tree, a.key, a.children) /\ a.children \in Placed(Table) /\ a.key[2] \in DOMAIN tree.nodes
      BY <1>0, <2>2, ResultParts, TreeKeys DEF ByAnswer, Teaches, a
    <3> QED BY <3>1, RelistedShape, SameShape
  <2>3. CASE a.what = "rename" /\ a.key \in TableKeys(tree)
    <3>1. tree' = Relisted(tree, a.key, Retitled(a)) /\ a.name \in Titles
      BY <2>3, ResultParts DEF ByAnswer, Teaches, a
    <3>2. a.key[2] \in DOMAIN tree.nodes /\ tree.nodes[a.key[2]] \in Nodes /\ a.key[3] \in DOMAIN tree.nodes[a.key[2]].tables
      BY <1>0, <2>3, TreeKeys
    <3>3. tree.nodes[a.key[2]].tables \in Placed(Table)
      BY <3>2 DEF Nodes
    <3>4. Retitled(a) \in Placed(Table)
      BY <3>1, <3>2, <3>3, RenamedPlaced DEF Retitled
    <3> QED BY <3>1, <3>2, <3>4, RelistedShape
  <2>4. CASE /\ a.what # "databases" /\ ~(a.what = "tables" /\ a.key \in DatabaseKeys(tree))
             /\ ~(a.what = "rename" /\ a.key \in TableKeys(tree))
    <3>1. UNCHANGED tree \/ tree' = Without(tree, a.key)
      BY <2>4 DEF ByAnswer, Teaches, a
    <3> QED BY <3>1, RelistedShape, SameShape
  <2> QED BY <2>1, <2>2, <2>3, <2>4
<1>7. CASE a.what \notin {"executed", "create"}
  <2>1. UNCHANGED <<wire, sent>> /\ Total' = Total - 1
    BY <1>4, <1>7 DEF ByAnswer, a
  <2>2. Moves(1)
    BY <1>1, <1>4, <1>5, <2>1 DEF Moves
  <2> QED BY <1>0, <1>1, <1>2, <1>4, <1>6, <1>7, <2>1, <2>2 DEF Advances, a
<1>8. CASE a.what \in {"executed", "create"}
  <2> PICK s \in Statement : /\ Sensible(s) /\ Adds(s)
                             /\ a.what = "executed" => s.what = "databases"
                             /\ a.what = "create" => s.what = "tables" /\ s.key = a.key /\ s.of = a.table.of
    BY <1>8 DEF ByAnswer, AsksAgain, a
  <2>1. Total' = Total /\ Line'[Total'] = s /\ sent' = sent + 1
    BY <1>4 DEF Adds
  <2>2. Moves(1)
    BY <1>1, <1>4, <1>5, <2>1 DEF Moves
  <2> QED BY <1>0, <1>1, <1>2, <1>4, <1>6, <1>8, <2>1, <2>2 DEF Advances, a
<1> QED BY <1>7, <1>8

-----------------------------------------------------------------------------
\* The order of the line.
LEMMA LineTypedNext ==
  ASSUME ServerOK'
  PROVE  Done' \in Nat /\ Total' \in Nat /\ Done' <= Total'
<1>1. Len(wire') \in Nat /\ Len(answers') \in Nat /\ Len(jsonObject') \in Nat
  BY LenProperties DEF ServerOK
<1>2. Done' = Len(jsonObject') + Len(answers') /\ Total' = Done' + Len(wire')
  BY DEF Done, Total
<1> QED BY <1>1, <1>2

LEMMA Where ==
  ASSUME ServerOK, ServerOK', NEW k, Advances(k), NEW n \in 1..Total'
  PROVE  /\ k \in {0, 1} /\ Total \in Nat /\ Total' \in Nat /\ n \in Nat
         /\ \/ n + k \in 1..Total /\ Alike(Line'[n], Line[n + k])
            \/ n = Total' /\ n + k = Total + 1 /\ Sensible(Line'[n]) /\ sent' = sent + 1
  BY LineTyped, LineTypedNext DEF Advances, Moves

\* The key that is sent is of the present tree, or was sent before.
LEMMA SensibleKey ==
  ASSUME TreeOK, NEW s, Sensible(s), s.what \in Keyed
  PROVE  \/ s.what = "tables" /\ \E i \in DOMAIN tree.nodes : s.key = KeyAt(i) /\ s.of = NameAt(i)
         \/ s.what = "tables" /\ \E n \in 1..Total : /\ Line[n].what = "create" /\ s.key = Line[n].key
                                                     /\ s.of = Line[n].table.of
         \/ /\ s.what \in Altering /\ dialog # None /\ dialog.node \in Pointed /\ s.key = dialog.node.key
            /\ dialog.what = s.what /\ Above(s.key) \in DatabaseKeys(tree)
            /\ IF s.what = "create" THEN s.table.of = dialog.node.title ELSE s.table = dialog.node.title
  BY DEF Sensible, Keyed, Pointed

LEMMA AgedByStep ==
  ASSUME TreeOK, TreeOK', NEW k, Advances(k), Aged
  PROVE  Aged'
<1>0. /\ ServerOK /\ ServerOK' /\ sent \in Nat /\ sent' \in Nat /\ sent' \in {sent, sent + 1}
      /\ tree \in Tree /\ tree.prefix \in Nat /\ tree'.prefix \in Nat
  BY DEF TreeOK, PageOK, ServerOK, Advances, Tree
<1>1. tree.prefix <= tree'.prefix /\ tree'.prefix <= sent
  <2>1. CASE Shape
    BY <1>0, <2>1 DEF Shape, Aged
  <2>2. CASE 1 \in 1..Total /\ Renewed
    <3>1. tree'.prefix = Line[1].prefix /\ Line[1].prefix \in Nat
      BY <1>0, <2>2, LineParts DEF Renewed, Fresh
    <3> QED BY <1>0, <2>2, <3>1 DEF Aged, Renewed
  <2> QED BY <2>1, <2>2 DEF Advances
<1>2. ASSUME NEW n \in 1..Total', Line'[n].what = "databases"
      PROVE  tree'.prefix < Line'[n].prefix /\ Line'[n].prefix <= sent' /\ Line'[n].prefix \in Nat
  <2>1. CASE n + k \in 1..Total /\ Alike(Line'[n], Line[n + k])
    <3>1. Line[n + k].what = "databases" /\ Line'[n].prefix = Line[n + k].prefix /\ Line'[n].prefix \in Nat
      BY <1>0, <1>2, <2>1, LineParts DEF Alike
    <3>2. tree.prefix < Line[n + k].prefix /\ Line[n + k].prefix <= sent
      BY <2>1, <3>1 DEF Aged
    <3>3. CASE Shape
      BY <1>0, <3>1, <3>2, <3>3 DEF Shape
    <3>4. CASE k = 1 /\ 1 \in 1..Total /\ Renewed
      <4>1. tree'.prefix = Line[1].prefix /\ Line[1].what = "databases"
        BY <3>4 DEF Renewed, Fresh
      <4>2. 1 < n + k
        BY <1>2, <3>4
      <4>3. Line[1].prefix < Line[n + k].prefix
        BY <2>1, <3>1, <3>4, <4>1, <4>2 DEF Aged
      <4> QED BY <1>0, <3>1, <3>2, <4>1, <4>3
    <3> QED BY <3>3, <3>4 DEF Advances
  <2>2. CASE Sensible(Line'[n]) /\ sent' = sent + 1
    <3>1. Line'[n].prefix = sent + 1
      BY <1>2, <2>2 DEF Sensible
    <3> QED BY <1>0, <1>1, <2>2, <3>1
  <2> QED BY <1>0, <2>1, <2>2, Where
<1>3. ASSUME NEW n \in 1..Total', NEW m \in 1..Total', n < m, Line'[n].what = "databases", Line'[m].what = "databases"
      PROVE  Line'[n].prefix < Line'[m].prefix
  <2>0. Total \in Nat /\ Total' \in Nat /\ k \in {0, 1}
    BY <1>0, Where
  <2>1. n + k \in 1..Total /\ Alike(Line'[n], Line[n + k])
    BY <1>0, <1>3, <2>0, Where
  <2>2. Line[n + k].what = "databases" /\ Line'[n].prefix = Line[n + k].prefix
    BY <1>3, <2>1 DEF Alike
  <2>3. CASE m + k \in 1..Total /\ Alike(Line'[m], Line[m + k])
    <3>1. Line[m + k].what = "databases" /\ Line'[m].prefix = Line[m + k].prefix
      BY <1>3, <2>3 DEF Alike
    <3>2. n + k < m + k
      BY <1>3, <2>0
    <3> QED BY <2>1, <2>2, <2>3, <3>1, <3>2 DEF Aged
  <2>4. CASE Sensible(Line'[m])
    <3>1. Line'[m].prefix = sent + 1
      BY <1>3, <2>4 DEF Sensible
    <3>2. Line[n + k].prefix <= sent
      BY <2>1, <2>2 DEF Aged
    <3> QED BY <1>0, <1>2, <1>3, <2>2, <3>1, <3>2
  <2> QED BY <1>0, <2>3, <2>4, Where
<1>4. \A x \in Pointed' : x.key[1] <= tree'.prefix
  <2> TAKE x \in Pointed'
  <2>1. CASE x \in Pointed
    <3>1. x \in Node
      BY <2>1, NodesOf DEF Pointed
    <3>2. x.key[1] \in Nat
      BY <3>1, NodeParts DEF Root, Leaf
    <3> QED BY <1>0, <1>1, <2>1, <3>2 DEF Aged
  <2>2. CASE Clicked(x)
    <3>1. x.key[1] = tree.prefix
      BY <1>0, <2>2, TreeKeys DEF Clicked, AllKeys
    <3> QED BY <1>1, <3>1
  <2> QED BY <2>1, <2>2 DEF Advances
<1>5. ASSUME NEW n \in 1..Total', Line'[n].what \in Keyed
      PROVE  Line'[n].key[1] <= tree'.prefix
  <2>1. CASE n + k \in 1..Total /\ Alike(Line'[n], Line[n + k])
    <3>1. Line[n + k].what \in Keyed /\ Line'[n].key = Line[n + k].key
      BY <1>5, <2>1 DEF Alike, Keyed, Altering
    <3>2. Line[n + k].key[1] \in Nat /\ Line[n + k].key[1] <= tree.prefix
      BY <1>0, <2>1, <3>1, LineParts DEF Aged
    <3> QED BY <1>0, <1>1, <3>1, <3>2
  <2>2. CASE Sensible(Line'[n])
    <3> DEFINE s == Line'[n]
    <3>1. s.key[1] \in Nat
      BY <1>5, <2>2, StatementParts DEF Sensible, Keyed, Altering, Root, Leaf
    <3>2. s.key[1] <= tree.prefix
      <4> HIDE DEF s
      <4>1. CASE \E i \in DOMAIN tree.nodes : s.key = KeyAt(i)
        BY <1>0, <4>1 DEF KeyAt
      <4>2. CASE \E m \in 1..Total : Line[m].what = "create" /\ s.key = Line[m].key
        BY <4>2 DEF Aged, Keyed, Altering
      <4>3. CASE dialog.node \in Pointed /\ s.key = dialog.node.key
        BY <4>3 DEF Aged
      <4> QED BY <1>5, <2>2, <4>1, <4>2, <4>3, SensibleKey DEF s
    <3> QED BY <1>0, <1>1, <3>1, <3>2
  <2> QED BY <1>0, <2>1, <2>2, Where
<1>6. tree'.prefix <= sent'
  BY <1>0, <1>1
<1> QED BY <1>2, <1>3, <1>4, <1>5, <1>6 DEF Aged

\* After new databases nothing in the line is about the tree.
LEMMA NothingRenewed ==
  ASSUME TreeOK, 1 \in 1..Total, Renewed, Aged
  PROVE  /\ \A n \in 1..Total : Line[n].what \in Keyed => Above(Line[n].key) \notin DatabaseKeys(tree')
         /\ \A x \in Pointed : Above(x.key) \notin DatabaseKeys(tree')
         /\ \A i \in DOMAIN tree'.nodes : /\ ~tree'.nodes[i].loaded /\ DOMAIN tree'.nodes[i].tables = {}
                                          /\ i \in DOMAIN Line[1].nodes /\ tree'.nodes[i].name = Line[1].nodes[i]
<1>0. ServerOK /\ tree.prefix \in Nat
  BY DEF TreeOK, PageOK, Tree
<1>1. tree'.prefix = Line[1].prefix /\ Line[1].prefix \in Nat /\ tree.prefix < Line[1].prefix
  BY <1>0, LineParts DEF Renewed, Fresh, Aged
<1>2. \A c \in DatabaseKeys(tree') : c[1] = tree'.prefix
  BY DEF DatabaseKeys
<1>3. ASSUME NEW n \in 1..Total, Line[n].what \in Keyed
      PROVE  Above(Line[n].key) \notin DatabaseKeys(tree')
  <2>1. Line[n].key[1] \in Nat /\ Line[n].key[1] <= tree.prefix
    BY <1>0, <1>3, LineParts DEF Aged
  <2>2. Above(Line[n].key)[1] = Line[n].key[1]
    BY DEF Above
  <2> QED BY <1>0, <1>1, <1>2, <2>1, <2>2
<1>4. ASSUME NEW x \in Pointed
      PROVE  Above(x.key) \notin DatabaseKeys(tree')
  <2>1. x \in Node
    BY NodesOf DEF Pointed
  <2>2. x.key[1] \in Nat /\ x.key[1] <= tree.prefix
    BY <2>1, NodeParts DEF Root, Leaf, Aged
  <2>3. Above(x.key)[1] = x.key[1]
    BY DEF Above
  <2> QED BY <1>0, <1>1, <1>2, <2>2, <2>3
<1>5. tree'.nodes = [i \in DOMAIN Line[1].nodes |-> [name |-> Line[1].nodes[i], tables |-> <<>>, loaded |-> FALSE]]
  BY DEF Renewed, Fresh
<1>6. DOMAIN <<>> = {}
  OBVIOUS
<1> QED BY <1>3, <1>4, <1>5, <1>6

\* A node that the user points to is of the database it stands under.
LEMMA ClickedPoints ==
  ASSUME TreeOK, Owned, NEW x, Clicked(x), NEW i \in DOMAIN tree.nodes, Above(x.key) = KeyAt(i)
  PROVE  PointsTo(x, NameAt(i))
<1>0. tree \in Tree /\ x.key \in AllKeys(tree)
  BY DEF TreeOK, PageOK, Clicked
<1>1. x.key[2] = i
  BY DEF Above, KeyAt
<1>2. CASE Len(x.key) = 3
  <2>1. x.key \in TableKeys(tree)
    BY <1>0, <1>2, AllKeysParts
  <2>2. x.key[3] \in DOMAIN Tables(i) /\ At(tree, x.key) = Tables(i)[x.key[3]]
    BY <1>0, <1>1, <2>1, TreeKeys DEF At, Tables
  <2>3. x.title = At(tree, x.key)
    BY <1>2 DEF Clicked
  <2> QED BY <1>2, <2>2, <2>3 DEF Owned, PointsTo
<1>3. CASE Len(x.key) # 3
  <2>1. x.title = NameAt(i)
    BY <1>1, <1>3 DEF Clicked
  <2> QED BY <1>3, <2>1 DEF PointsTo
<1> QED BY <1>2, <1>3

\* What is sent under a database is about it.
LEMMA SensibleBelongs ==
  ASSUME TreeOK, Owned, NEW s, Sensible(s), s.what \in Keyed,
         NEW i \in DOMAIN tree.nodes, Above(s.key) = KeyAt(i)
  PROVE  Belongs(s, FALSE, NameAt(i))
<1>1. CASE s.what = "tables" /\ \E j \in DOMAIN tree.nodes : s.key = KeyAt(j) /\ s.of = NameAt(j)
  BY <1>1 DEF Above, KeyAt, Belongs
<1>2. CASE s.what = "tables" /\ \E n \in 1..Total : Line[n].what = "create" /\ s.key = Line[n].key
                                                     /\ s.of = Line[n].table.of
  <2> PICK n \in 1..Total : Line[n].what = "create" /\ s.key = Line[n].key /\ s.of = Line[n].table.of
    BY <1>2
  <2>1. Belongs(Line[n], n <= Done, NameAt(i))
    BY DEF Owned, Keyed, Altering
  <2> QED BY <1>2, <2>1 DEF Belongs
<1>3. CASE /\ s.what \in Altering /\ dialog # None /\ dialog.node \in Pointed /\ s.key = dialog.node.key
           /\ dialog.what = s.what /\ Above(s.key) \in DatabaseKeys(tree)
           /\ IF s.what = "create" THEN s.table.of = dialog.node.title ELSE s.table = dialog.node.title
  <2>1. PointsTo(dialog.node, NameAt(i))
    BY <1>3 DEF Owned
  <2>2. CASE s.what = "create"
    <3>1. Len(s.key) # 3
      BY <1>3, <2>2, QuestionOf, KeyParts DEF OfDatabase
    <3> QED BY <1>3, <2>1, <2>2, <3>1 DEF PointsTo, Belongs
  <2>3. CASE s.what # "create"
    <3>1. Len(s.key) = 3 /\ s.what \in {"drop", "rename"}
      BY <1>3, <2>3, QuestionOf, KeyParts DEF Altering
    <3> QED BY <1>3, <2>1, <2>3, <3>1 DEF PointsTo, Belongs
  <2> QED BY <2>2, <2>3
<1> QED BY <1>1, <1>2, <1>3, SensibleKey

\* What the tables of a tree owe to the databases they stand under.
Sorted(t) == \A i \in DOMAIN t.nodes :
  /\ \A j \in DOMAIN t.nodes[i].tables : t.nodes[i].tables[j].of = t.nodes[i].name
  /\ t.nodes[i].loaded \/ DOMAIN t.nodes[i].tables = {}

LEMMA OwnedByStep ==
  ASSUME TreeOK, TreeOK', NEW k, Advances(k), Aged, Owned, Sorted(tree'),
         \A d : \A n \in 1..Total' : /\ n + k \in 1..Total /\ Line[n + k].what \in Keyed
                                        /\ Belongs(Line[n + k], n + k <= Done, d)
                                        => Belongs(Line'[n], n <= Done', d)
  PROVE  Owned'
<1>0. ServerOK /\ ServerOK' /\ tree \in Tree
  BY DEF TreeOK, PageOK
<1>1. ASSUME NEW i \in DOMAIN tree'.nodes, NEW n \in 1..Total', Line'[n].what \in Keyed,
             Above(Line'[n].key) = KeyAt(i)'
      PROVE  Belongs(Line'[n], n <= Done', NameAt(i)')
  <2>1. CASE Shape
    <3>1. i \in DOMAIN tree.nodes /\ KeyAt(i)' = KeyAt(i) /\ NameAt(i)' = NameAt(i)
      BY <2>1 DEF Shape, KeyAt, NameAt
    <3>2. CASE n + k \in 1..Total /\ Alike(Line'[n], Line[n + k])
      <4>1. Line[n + k].what \in Keyed /\ Line'[n].key = Line[n + k].key
        BY <1>1, <3>2 DEF Alike, Keyed, Altering
      <4>2. Belongs(Line[n + k], n + k <= Done, NameAt(i))
        BY <1>1, <3>1, <3>2, <4>1 DEF Owned
      <4> QED BY <3>1, <3>2, <4>1, <4>2
    <3>3. CASE n = Total' /\ n + k = Total + 1 /\ Sensible(Line'[n])
      <4>1. Belongs(Line'[n], FALSE, NameAt(i))
        BY <1>1, <3>1, <3>3, SensibleBelongs
      <4>2. ~(n <= Done')
        BY <1>0, <3>3, LineTypedNext DEF Advances
      <4> QED BY <3>1, <4>1, <4>2 DEF Belongs
    <3> QED BY <1>0, <3>2, <3>3, Where
  <2>2. CASE k = 1 /\ 1 \in 1..Total /\ Renewed
    <3>1. n + k \in 1..Total /\ Alike(Line'[n], Line[n + k])
      BY <1>0, <2>2, Where DEF Renewed
    <3>2. Line[n + k].what \in Keyed /\ Line'[n].key = Line[n + k].key
      BY <1>1, <3>1 DEF Alike, Keyed, Altering
    <3>3. KeyAt(i)' \in DatabaseKeys(tree')
      BY DEF KeyAt, DatabaseKeys
    <3> QED BY <1>1, <2>2, <3>1, <3>2, <3>3, NothingRenewed
  <2> QED BY <2>1, <2>2 DEF Advances
<1>2. ASSUME NEW i \in DOMAIN tree'.nodes, NEW x \in Pointed', Above(x.key) = KeyAt(i)'
      PROVE  PointsTo(x, NameAt(i)')
  <2>1. CASE Shape
    <3>1. i \in DOMAIN tree.nodes /\ KeyAt(i)' = KeyAt(i) /\ NameAt(i)' = NameAt(i)
      BY <2>1 DEF Shape, KeyAt, NameAt
    <3>2. CASE x \in Pointed
      BY <1>2, <3>1, <3>2 DEF Owned
    <3>3. CASE Clicked(x)
      BY <1>2, <3>1, <3>3, ClickedPoints
    <3> QED BY <3>2, <3>3 DEF Advances
  <2>2. CASE 1 \in 1..Total /\ Renewed
    <3>1. KeyAt(i)' \in DatabaseKeys(tree')
      BY DEF KeyAt, DatabaseKeys
    <3>2. x \in Pointed
      BY <2>2 DEF Renewed
    <3> QED BY <1>2, <2>2, <3>1, <3>2, NothingRenewed
  <2> QED BY <2>1, <2>2 DEF Advances
<1>3. \A i \in DOMAIN tree'.nodes :
        /\ \A j \in DOMAIN Tables(i)' : Tables(i)'[j].of = NameAt(i)'
        /\ tree'.nodes[i].loaded \/ DOMAIN Tables(i)' = {}
  BY DEF Sorted, Tables, NameAt
<1> QED BY <1>1, <1>2, <1>3 DEF Owned, Belongs, PointsTo

LEMMA DistinctByStep ==
  ASSUME TreeOK, TreeOK', NEW k, Advances(k), Distinct,
         \A n \in 1..Done' : Line'[n].what = "databases" =>
            \/ n + k \in 1..Done /\ Line'[n] = Line[n + k]
            \/ Once(Line'[n].nodes)
  PROVE  Distinct'
<1>1. \A n \in 1..Done' : Line'[n].what = "databases" => Once(Line'[n].nodes)
  BY DEF Distinct
<1>2. \A i, j \in DOMAIN tree'.nodes : tree'.nodes[i].name = tree'.nodes[j].name => i = j
  <2>1. CASE Shape
    BY <2>1 DEF Shape, Distinct, NameAt
  <2>2. CASE 1 \in 1..Total /\ 1 <= Done /\ Renewed
    <3>1. Once(Line[1].nodes)
      <4>1. 1 \in 1..Done
        BY <2>2, LineTyped DEF TreeOK
      <4> QED BY <2>2, <4>1 DEF Distinct, Renewed
    <3>2. tree'.nodes = [i \in DOMAIN Line[1].nodes |-> [name |-> Line[1].nodes[i], tables |-> <<>>, loaded |-> FALSE]]
      BY <2>2 DEF Renewed, Fresh
    <3> QED BY <3>1, <3>2 DEF Once
  <2> QED BY <2>1, <2>2 DEF Advances
<1> QED BY <1>1, <1>2 DEF Distinct, NameAt, Once

LEMMA OldFirstByStep ==
  ASSUME TreeOK, TreeOK', NEW k, Advances(k), Aged, OldFirst,
         Shape => \A i \in DOMAIN tree.nodes : tree'.nodes[i].loaded =>
           \/ tree.nodes[i].loaded
           \/ k = 1 /\ 1 \in 1..Total /\ Line[1].what = "tables" /\ Line[1].key = KeyAt(i)
  PROVE  OldFirst'
<1>0. ServerOK /\ ServerOK' /\ Total \in Nat /\ Total' \in Nat
  BY LineTyped, LineTypedNext DEF TreeOK
<1> SUFFICES ASSUME NEW n \in 1..Total', Line'[n].what \in Altering,
                    Above(Line'[n].key) \notin DatabaseKeys(tree')
             PROVE  /\ \A i \in DOMAIN tree'.nodes : ~tree'.nodes[i].loaded
                    /\ \A m \in 1..Total' : Line'[m].what = "tables" /\ Line'[m].key \in DatabaseKeys(tree') => n < m
  BY DEF OldFirst, Stale
<1>1. CASE Shape
  <2>1. DatabaseKeys(tree') = DatabaseKeys(tree)
    BY <1>1 DEF Shape, DatabaseKeys
  <2>2. n + k \in 1..Total /\ Alike(Line'[n], Line[n + k]) /\ k \in {0, 1}
    BY <1>0, <2>1, Where DEF Sensible
  <2>3. Stale(Line[n + k])
    BY <2>1, <2>2 DEF Alike, Stale, Altering, Keyed
  <2>4. \A i \in DOMAIN tree'.nodes : ~tree'.nodes[i].loaded
    <3> SUFFICES ASSUME NEW i \in DOMAIN tree'.nodes, tree'.nodes[i].loaded PROVE FALSE
      OBVIOUS
    <3>1. i \in DOMAIN tree.nodes /\ ~tree.nodes[i].loaded
      BY <1>1, <2>2, <2>3 DEF Shape, OldFirst
    <3>2. k = 1 /\ 1 \in 1..Total /\ Line[1].what = "tables" /\ Line[1].key \in DatabaseKeys(tree)
      BY <1>1, <3>1 DEF KeyAt, DatabaseKeys
    <3>3. n + k < 1
      BY <2>2, <2>3, <3>2 DEF OldFirst
    <3> QED BY <2>2, <3>3
  <2>5. ASSUME NEW m \in 1..Total', Line'[m].what = "tables", Line'[m].key \in DatabaseKeys(tree')
        PROVE  n < m
    <3>1. CASE m + k \in 1..Total /\ Alike(Line'[m], Line[m + k])
      <4>1. Line[m + k].what = "tables" /\ Line[m + k].key \in DatabaseKeys(tree)
        BY <2>1, <2>5, <3>1 DEF Alike, Keyed
      <4>2. n + k < m + k
        BY <2>2, <2>3, <3>1, <4>1 DEF OldFirst
      <4> QED BY <1>0, <2>2, <4>2
    <3>2. CASE m = Total'
      <4>1. n # m
        BY <2>5 DEF Altering
      <4> QED BY <1>0, <3>2, <4>1
    <3> QED BY <1>0, <3>1, <3>2, Where
  <2> QED BY <2>4, <2>5
<1>2. CASE k = 1 /\ 1 \in 1..Total /\ Renewed
  <2>1. \A i \in DOMAIN tree'.nodes : ~tree'.nodes[i].loaded
    BY <1>2, NothingRenewed
  <2>2. ASSUME NEW m \in 1..Total', Line'[m].what = "tables", Line'[m].key \in DatabaseKeys(tree')
        PROVE  FALSE
    <3>1. m + k \in 1..Total /\ Alike(Line'[m], Line[m + k])
      BY <1>0, <1>2, Where DEF Renewed
    <3>2. Line[m + k].what = "tables" /\ Line[m + k].key = Line'[m].key
      BY <2>2, <3>1 DEF Alike, Keyed
    <3>3. Line[m + k].key \in Root
      BY <1>0, <3>1, <3>2, LineParts
    <3>4. Above(Line[m + k].key) = Line[m + k].key
      BY <3>3, KeyParts
    <3> QED BY <1>2, <2>2, <3>1, <3>2, <3>4, NothingRenewed DEF Keyed
  <2> QED BY <2>1, <2>2
<1> QED BY <1>1, <1>2 DEF Advances

LEMMA DropsFirstByStep ==
  ASSUME TreeOK, TreeOK', NEW k, Advances(k), DropsFirst
  PROVE  DropsFirst'
<1>0. ServerOK /\ ServerOK' /\ Total \in Nat /\ Total' \in Nat /\ kind' = kind
  BY LineTyped, LineTypedNext DEF TreeOK, Advances
<1> SUFFICES ASSUME kind = "table", NEW n \in 1..Total', NEW m \in 1..Total', Line'[n].what = "drop",
                    Line'[m].what = "tables"
             PROVE  n < m
  BY <1>0 DEF DropsFirst
<1>1. n # m /\ k \in {0, 1}
  BY <1>0, Where
<1>2. CASE m + k \in 1..Total /\ Alike(Line'[m], Line[m + k])
  <2>1. Line[m + k].what = "tables"
    BY <1>2 DEF Alike
  <2>2. n + k \in 1..Total /\ Alike(Line'[n], Line[n + k])
    BY <1>0, <1>2, <2>1, Where DEF Sensible
  <2>3. n + k < m + k
    BY <1>2, <2>1, <2>2 DEF DropsFirst, Alike
  <2> QED BY <1>0, <1>1, <2>3
<1>3. CASE m = Total'
  BY <1>0, <1>1, <1>3
<1> QED BY <1>0, <1>2, <1>3, Where

LEMMA GoingByStep ==
  ASSUME TreeOK, TreeOK', NEW k, Advances(k), Going,
         \A x \in progress' :
           \/ x \in progress /\ (k = 1 => ~(Line[1].what \in Transfers /\ Line[1].node.key = x))
           \/ Total' \in 1..Total' /\ Line'[Total'].what \in Transfers /\ Line'[Total'].node.key = x
  PROVE  Going'
<1>0. ServerOK /\ ServerOK' /\ Total \in Nat /\ Total' \in Nat
  BY LineTyped, LineTypedNext DEF TreeOK
<1> SUFFICES ASSUME NEW x \in progress, k = 1 => ~(Line[1].what \in Transfers /\ Line[1].node.key = x)
             PROVE  \E n \in 1..Total' : Line'[n].what \in Transfers /\ Line'[n].node.key = x
  BY DEF Going
<1>1. PICK m \in 1..Total : Line[m].what \in Transfers /\ Line[m].node.key = x
  BY DEF Going
<1>2. k \in {0, 1} /\ Total' >= Total - k
  BY DEF Advances, Moves
<1>3. m > k
  BY <1>1, <1>2
<1>4. m - k \in 1..Total' /\ (m - k) + k = m
  BY <1>0, <1>2, <1>3
<1>5. Alike(Line'[m - k], Line[m])
  <2> DEFINE n == m - k
  <2>1. n \in 1..Total' /\ n + k = m /\ n + k # Total + 1
    BY <1>0, <1>4
  <2> HIDE DEF n
  <2>2. Alike(Line'[n], Line[n + k])
    BY <1>0, <2>1, Where
  <2> QED BY <2>1, <2>2 DEF n
<1> QED BY <1>1, <1>4, <1>5 DEF Alike, Transfers, Renewing

LEMMA RoutinesByStep ==
  ASSUME TreeOK, TreeOK', NEW k, Advances(k), Routines,
         dialog' # None => dialog' = dialog \/ (kind = "routine" => dialog'.what # "rename")
  PROVE  Routines'
<1>0. ServerOK /\ ServerOK' /\ kind' = kind
  BY DEF TreeOK, Advances
<1> SUFFICES ASSUME kind = "routine"
             PROVE  (\A n \in 1..Total' : Line'[n].what # "rename") /\ (dialog' # None => dialog'.what # "rename")
  BY <1>0 DEF Routines
<1>1. dialog' # None => dialog'.what # "rename"
  BY DEF Routines
<1>2. ASSUME NEW n \in 1..Total', Line'[n].what = "rename"
      PROVE  FALSE
  <2>1. CASE n + k \in 1..Total /\ Alike(Line'[n], Line[n + k])
    BY <1>2, <2>1 DEF Alike, Routines
  <2>2. CASE Sensible(Line'[n])
    BY <1>2, <2>2 DEF Sensible, Altering, Routines
  <2> QED BY <1>0, <2>1, <2>2, Where
<1> QED BY <1>1, <1>2

-----------------------------------------------------------------------------
\* The nodes of a tree, where tables leave it, get another name, or are listed.
LEMMA WithoutNode ==
  ASSUME NEW t \in Tree, NEW k, NEW u, u = Without(t, k), NEW i \in DOMAIN t.nodes
  PROVE  /\ DOMAIN u.nodes = DOMAIN t.nodes /\ u.prefix = t.prefix
         /\ k \in TableKeys(t) /\ k[2] = i =>
              /\ u.nodes[i].tables = [j \in DOMAIN t.nodes[i].tables \ {k[3]} |-> t.nodes[i].tables[j]]
              /\ u.nodes[i].name = t.nodes[i].name /\ u.nodes[i].loaded
         /\ ~(k \in TableKeys(t) /\ k[2] = i) => u.nodes[i] = t.nodes[i]
<1>1. CASE k \notin TableKeys(t)
  BY <1>1 DEF Without
<1>2. CASE k \in TableKeys(t)
  <2> DEFINE m == k[2]
             less == [j \in DOMAIN t.nodes[m].tables \ {k[3]} |-> t.nodes[m].tables[j]]
  <2>1. m \in DOMAIN t.nodes
    BY <1>2, TreeKeys
  <2>2. less \in Placed(Table) /\ u = Relisted(t, k, less)
    BY <1>2, <2>1, WithoutIs
  <2>3. less = [j \in DOMAIN t.nodes[m].tables \ {k[3]} |-> t.nodes[m].tables[j]]
    OBVIOUS
  <2> HIDE DEF less
  <2>4. /\ u.prefix = t.prefix /\ DOMAIN u.nodes = DOMAIN t.nodes
        /\ u.nodes[m] = [name |-> t.nodes[m].name, tables |-> less, loaded |-> TRUE]
        /\ \A l \in DOMAIN t.nodes \ {m} : u.nodes[l] = t.nodes[l]
    BY <2>1, <2>2, RelistedTree
  <2> QED BY <1>2, <2>3, <2>4
<1> QED BY <1>1, <1>2

LEMMA RetitledNode ==
  ASSUME tree \in Tree, NEW a, a.key \in TableKeys(tree), a.name \in Titles,
         NEW u, u = Relisted(tree, a.key, Retitled(a)), NEW i \in DOMAIN tree.nodes
  PROVE  /\ DOMAIN u.nodes = DOMAIN tree.nodes /\ u.prefix = tree.prefix
         /\ a.key[2] = i =>
              /\ DOMAIN u.nodes[i].tables = DOMAIN tree.nodes[i].tables /\ a.key[3] \in DOMAIN tree.nodes[i].tables
              /\ u.nodes[i].tables[a.key[3]] = [of |-> tree.nodes[i].tables[a.key[3]].of, name |-> a.name]
              /\ \A j \in DOMAIN tree.nodes[i].tables \ {a.key[3]} : u.nodes[i].tables[j] = tree.nodes[i].tables[j]
              /\ u.nodes[i].name = tree.nodes[i].name /\ u.nodes[i].loaded
         /\ a.key[2] # i => u.nodes[i] = tree.nodes[i]
<1> DEFINE m == a.key[2]
           f == tree.nodes[m].tables
           g == Retitled(a)
<1>1. m \in DOMAIN tree.nodes /\ tree.nodes[m] \in Nodes /\ a.key[3] \in DOMAIN f
  BY TreeKeys
<1>2. f \in Placed(Table)
  BY <1>1 DEF Nodes
<1>3. /\ g \in Placed(Table) /\ DOMAIN g = DOMAIN f /\ g[a.key[3]] = [of |-> f[a.key[3]].of, name |-> a.name]
      /\ \A l \in DOMAIN f \ {a.key[3]} : g[l] = f[l]
  <2>1. Retitled(a) = [f EXCEPT ![a.key[3]].name = a.name]
    BY DEF Retitled
  <2> HIDE DEF f
  <2>2. /\ [f EXCEPT ![a.key[3]].name = a.name] \in Placed(Table)
        /\ DOMAIN [f EXCEPT ![a.key[3]].name = a.name] = DOMAIN f
        /\ [f EXCEPT ![a.key[3]].name = a.name][a.key[3]] = [of |-> f[a.key[3]].of, name |-> a.name]
        /\ \A l \in DOMAIN f \ {a.key[3]} : [f EXCEPT ![a.key[3]].name = a.name][l] = f[l]
    BY <1>1, <1>2, RenamedPlaced, Zenon
  <2> QED BY <2>1, <2>2, Zenon
<1> HIDE DEF g
<1>4. /\ u.prefix = tree.prefix /\ DOMAIN u.nodes = DOMAIN tree.nodes
      /\ u.nodes[m] = [name |-> tree.nodes[m].name, tables |-> g, loaded |-> TRUE]
      /\ \A l \in DOMAIN tree.nodes \ {m} : u.nodes[l] = tree.nodes[l]
  BY <1>1, <1>3, RelistedTree DEF g
<1> QED BY <1>1, <1>3, <1>4

\* The tree after a step: what is under a database is of it, and no tables are listed
\* that were not, but those that the answer lists.
Follows(t, listed) ==
  /\ Sorted(t)
  /\ \A i \in DOMAIN tree.nodes \ listed : t.nodes[i].loaded => tree.nodes[i].loaded

LEMMA SortedTrees ==
  ASSUME TreeOK, Owned
  PROVE  /\ Follows(tree, {}) /\ \A k : Follows(Without(tree, k), {})
         /\ \A a : a.key \in TableKeys(tree) /\ a.name \in Titles => Follows(Relisted(tree, a.key, Retitled(a)), {})
         /\ \A key \in Root, f \in Placed(Table) :
              /\ key \in DatabaseKeys(tree) /\ \A j \in DOMAIN f : f[j].of = NameAt(key[2])
              => Follows(Relisted(tree, key, f), {key[2]})
<1>0. tree \in Tree
  BY DEF TreeOK, PageOK
<1>1. Sorted(tree) /\ Follows(tree, {})
  BY DEF Owned, Sorted, Tables, NameAt, Follows
<1>2. ASSUME NEW k
      PROVE  Follows(Without(tree, k), {})
  <2> DEFINE u == Without(tree, k)
  <2>1. \A i \in DOMAIN tree.nodes :
         /\ DOMAIN u.nodes = DOMAIN tree.nodes /\ u.prefix = tree.prefix
         /\ k \in TableKeys(tree) /\ k[2] = i =>
              /\ u.nodes[i].tables = [j \in DOMAIN tree.nodes[i].tables \ {k[3]} |-> tree.nodes[i].tables[j]]
              /\ u.nodes[i].name = tree.nodes[i].name /\ u.nodes[i].loaded
         /\ ~(k \in TableKeys(tree) /\ k[2] = i) => u.nodes[i] = tree.nodes[i]
    BY <1>0, WithoutNode
  <2>2. DOMAIN u.nodes = DOMAIN tree.nodes
    <3>1. CASE k \in TableKeys(tree)
      BY <1>0, <2>1, <3>1, TreeKeys
    <3>2. CASE k \notin TableKeys(tree)
      BY <3>2 DEF Without
    <3> QED BY <3>1, <3>2
  <2> HIDE DEF u
  <2>3. ASSUME NEW i \in DOMAIN tree.nodes
        PROVE  /\ \A j \in DOMAIN u.nodes[i].tables : u.nodes[i].tables[j].of = u.nodes[i].name
               /\ u.nodes[i].loaded \/ DOMAIN u.nodes[i].tables = {}
               /\ u.nodes[i].loaded => tree.nodes[i].loaded
    <3>1. CASE k \in TableKeys(tree) /\ k[2] = i
      <4>1. /\ u.nodes[i].tables = [j \in DOMAIN tree.nodes[i].tables \ {k[3]} |-> tree.nodes[i].tables[j]]
            /\ u.nodes[i].name = tree.nodes[i].name /\ u.nodes[i].loaded
        BY <2>1, <3>1
      <4>2. \A j \in DOMAIN u.nodes[i].tables : j \in DOMAIN tree.nodes[i].tables /\ u.nodes[i].tables[j] = tree.nodes[i].tables[j]
        BY <4>1
      <4>3. k[3] \in DOMAIN tree.nodes[i].tables
        BY <1>0, <3>1, TreeKeys
      <4>4. tree.nodes[i].loaded
        BY <1>1, <4>3 DEF Sorted
      <4> QED BY <1>1, <4>1, <4>2, <4>4 DEF Sorted
    <3>2. CASE ~(k \in TableKeys(tree) /\ k[2] = i)
      <4>1. u.nodes[i] = tree.nodes[i]
        BY <2>1, <3>2
      <4> QED BY <1>1, <4>1 DEF Sorted
    <3> QED BY <3>1, <3>2
  <2> QED BY <2>2, <2>3 DEF u, Sorted, Follows
<1>3. ASSUME NEW a, a.key \in TableKeys(tree), a.name \in Titles
      PROVE  Follows(Relisted(tree, a.key, Retitled(a)), {})
  <2> DEFINE u == Relisted(tree, a.key, Retitled(a))
  <2>1. a.key[2] \in DOMAIN tree.nodes /\ a.key[3] \in DOMAIN tree.nodes[a.key[2]].tables
    BY <1>0, <1>3, TreeKeys
  <2>2. \A i \in DOMAIN tree.nodes :
         /\ DOMAIN u.nodes = DOMAIN tree.nodes /\ u.prefix = tree.prefix
         /\ a.key[2] = i =>
              /\ DOMAIN u.nodes[i].tables = DOMAIN tree.nodes[i].tables /\ a.key[3] \in DOMAIN tree.nodes[i].tables
              /\ u.nodes[i].tables[a.key[3]] = [of |-> tree.nodes[i].tables[a.key[3]].of, name |-> a.name]
              /\ \A j \in DOMAIN tree.nodes[i].tables \ {a.key[3]} : u.nodes[i].tables[j] = tree.nodes[i].tables[j]
              /\ u.nodes[i].name = tree.nodes[i].name /\ u.nodes[i].loaded
         /\ a.key[2] # i => u.nodes[i] = tree.nodes[i]
    BY <1>0, <1>3, RetitledNode
  <2> HIDE DEF u
  <2>3. DOMAIN u.nodes = DOMAIN tree.nodes
    BY <2>1, <2>2
  <2>4. ASSUME NEW i \in DOMAIN tree.nodes
        PROVE  /\ \A j \in DOMAIN u.nodes[i].tables : u.nodes[i].tables[j].of = u.nodes[i].name
               /\ u.nodes[i].loaded \/ DOMAIN u.nodes[i].tables = {}
               /\ u.nodes[i].loaded => tree.nodes[i].loaded
    <3>1. CASE a.key[2] = i
      <4>1. \A j \in DOMAIN u.nodes[i].tables : u.nodes[i].tables[j].of = tree.nodes[i].tables[j].of
        <5>1. u.nodes[i].tables[a.key[3]].of = tree.nodes[i].tables[a.key[3]].of
          <6>1. u.nodes[i].tables[a.key[3]] = [of |-> tree.nodes[i].tables[a.key[3]].of, name |-> a.name]
            BY <2>2, <3>1
          <6> QED BY <6>1
        <5>2. \A j \in DOMAIN tree.nodes[i].tables \ {a.key[3]} : u.nodes[i].tables[j] = tree.nodes[i].tables[j]
          BY <2>2, <3>1
        <5>3. DOMAIN u.nodes[i].tables = DOMAIN tree.nodes[i].tables
          BY <2>2, <3>1
        <5> QED BY <5>1, <5>2, <5>3
      <4>2. DOMAIN u.nodes[i].tables = DOMAIN tree.nodes[i].tables /\ u.nodes[i].name = tree.nodes[i].name /\ u.nodes[i].loaded
        BY <2>2, <3>1
      <4>3. tree.nodes[i].loaded
        BY <1>1, <2>1, <3>1 DEF Sorted
      <4> QED BY <1>1, <4>1, <4>2, <4>3 DEF Sorted
    <3>2. CASE a.key[2] # i
      <4>1. u.nodes[i] = tree.nodes[i]
        BY <2>2, <3>2
      <4> QED BY <1>1, <4>1 DEF Sorted
    <3> QED BY <3>1, <3>2
  <2> QED BY <2>3, <2>4 DEF u, Sorted, Follows
<1>4. ASSUME NEW key \in Root, NEW f \in Placed(Table), key \in DatabaseKeys(tree),
             \A j \in DOMAIN f : f[j].of = NameAt(key[2])
      PROVE  Follows(Relisted(tree, key, f), {key[2]})
  <2> DEFINE u == Relisted(tree, key, f)
  <2>1. key[2] \in DOMAIN tree.nodes
    BY <1>0, <1>4, TreeKeys
  <2>2. /\ DOMAIN u.nodes = DOMAIN tree.nodes
        /\ u.nodes[key[2]] = [name |-> tree.nodes[key[2]].name, tables |-> f, loaded |-> TRUE]
        /\ \A l \in DOMAIN tree.nodes \ {key[2]} : u.nodes[l] = tree.nodes[l]
    BY <1>0, <2>1, RelistedTree
  <2> HIDE DEF u
  <2>3. Follows(u, {key[2]})
    BY <1>1, <1>4, <2>2 DEF Sorted, NameAt, Follows
  <2> QED BY <2>3 DEF u
<1> QED BY <1>1, <1>2, <1>3, <1>4

-----------------------------------------------------------------------------
\* What is listed is all there is, each at one place.
LEMMA OrderedIs ==
  ASSUME NEW S \in SUBSET Nat, IsFiniteSet(S)
  PROVE  /\ {Ordered(S)[i] : i \in DOMAIN Ordered(S)} = S /\ Once(Ordered(S))
<1> DEFINE P(x) == {y \in S : y <= x}
<1>1. \A x \in S : IsFiniteSet(P(x)) /\ Cardinality(P(x)) \in Nat
  BY FS_Subset, FS_CardinalityType
<1>2. ASSUME NEW x \in S, NEW y \in S, x < y
      PROVE  Place(x, S) < Place(y, S)
  <2>1. P(x) \subseteq P(y) /\ y \in P(y) /\ y \notin P(x)
    <3>1. x \in Nat /\ y \in Nat /\ \A z \in S : z \in Nat
      OBVIOUS
    <3>2. \A z \in S : z <= x => z <= y
      BY <1>2, <3>1
    <3>3. y <= y /\ ~(y <= x)
      BY <1>2, <3>1
    <3> QED BY <3>2, <3>3
  <2>2. Cardinality(P(x)) <= Cardinality(P(y)) /\ (Cardinality(P(x)) = Cardinality(P(y)) => P(x) = P(y))
    <3> HIDE DEF P
    <3> QED BY <1>1, <2>1, FS_Subset
  <2> QED BY <1>1, <2>1, <2>2 DEF Place
<1>3. \A x, y \in S : Place(x, S) = Place(y, S) => x = y
  <2> SUFFICES ASSUME NEW x \in S, NEW y \in S, Place(x, S) = Place(y, S), x # y PROVE FALSE
    OBVIOUS
  <2>1. x < y \/ y < x
    OBVIOUS
  <2>2. Place(x, S) \in Nat /\ Place(y, S) \in Nat
    BY <1>1 DEF Place
  <2> QED BY <1>2, <2>1, <2>2
<1>4. /\ DOMAIN Ordered(S) = {Place(x, S) : x \in S}
      /\ \A i \in DOMAIN Ordered(S) : Ordered(S)[i] = CHOOSE x \in S : Place(x, S) = i
  BY DEF Ordered
<1>5. \A x \in S : Place(x, S) \in DOMAIN Ordered(S) /\ Ordered(S)[Place(x, S)] = x
  <2> TAKE x \in S
  <2>1. (CHOOSE y \in S : Place(y, S) = Place(x, S)) = x
    BY <1>3
  <2> QED BY <1>4, <2>1
<1>6. \A i \in DOMAIN Ordered(S) : \E x \in S : i = Place(x, S) /\ Ordered(S)[i] = x
  BY <1>4, <1>5
<1> QED BY <1>5, <1>6 DEF Once

Lists(f, S) == {f[j].name : j \in DOMAIN f} = S /\ \A j, l \in DOMAIN f : f[j].name = f[l].name => j = l

LEMMA ChildrenList ==
  ASSUME ServerOK, NEW d \in DOMAIN store
  PROVE  Lists(Children(d), store[d]) /\ \A j \in DOMAIN Children(d) : Children(d)[j].of = d
<1>1. store[d] \in SUBSET Nat /\ IsFiniteSet(store[d])
  BY NamesAreOrdered, FS_Subset DEF ServerOK
<1> DEFINE f == Ordered(store[d])
<1>2. {f[i] : i \in DOMAIN f} = store[d] /\ Once(f)
  BY <1>1, OrderedIs
<1>3. Children(d) = [i \in DOMAIN f |-> [of |-> d, name |-> f[i]]]
  BY DEF Children
<1> HIDE DEF f
<1> QED BY <1>2, <1>3 DEF Lists, Once

-----------------------------------------------------------------------------
\* The line stays in order.

LEMMA InOrderByPage ==
  ASSUME TreeOK, TreeOK', ByPage, InOrder
  PROVE  InOrder'
<1>1. /\ Advances(0) /\ Done' = Done /\ Done \in Nat /\ Total \in Nat /\ Done <= Total
      /\ \A n \in 1..Total : Line'[n] = Line[n]
      /\ \/ Total' = Total /\ UNCHANGED <<tree, progress>>
         \/ Total' = Total + 1 /\ Line'[Total'] \in Statement /\ Sent(Line'[Total'])
  BY AdvancesByPage
<1>2. Aged /\ Owned /\ Distinct /\ OldFirst /\ DropsFirst /\ Going /\ Routines
  BY DEF InOrder
<1>3. UNCHANGED tree \/ \E k : tree' = Without(tree, k)
  BY <1>1 DEF Sent
<1>4. Follows(tree', {})
  BY <1>2, <1>3, SortedTrees
<1>5. Owned'
  BY <1>1, <1>2, <1>4, OwnedByStep DEF Follows
<1>6. Distinct'
  BY <1>1, <1>2, DistinctByStep
<1>8. OldFirst'
  BY <1>1, <1>2, <1>4, OldFirstByStep DEF Follows
<1>9. Going'
  <2>1. \A x \in progress' : x \in progress \/ (Total' \in 1..Total' /\ Line'[Total'].what \in Transfers /\ Line'[Total'].node.key = x)
    BY <1>1 DEF Sent
  <2> QED BY <1>1, <1>2, <2>1, GoingByStep
<1>10. Routines'
  BY <1>1, <1>2, RoutinesByStep DEF ByPage
<1> QED BY <1>1, <1>2, <1>5, <1>6, <1>8, <1>9, <1>10, AgedByStep, DropsFirstByStep DEF InOrder

LEMMA InOrderByExecute ==
  ASSUME TreeOK, TreeOK', Execute, harm' = {}, InOrder
  PROVE  InOrder'
<1> DEFINE s == Head(wire)
<1>0. ServerOK /\ UNCHANGED <<tree, dialog>>
  BY DEF TreeOK, Execute, ui
<1>1. /\ Done' = Done + 1 /\ Total' = Total /\ Done + 1 \in 1..Total
      /\ Line[Done + 1] = s /\ s \in Statement /\ Possible(s)
      /\ Line'[Done + 1] = Reply(s)
      /\ \A n \in 1..Total \ {Done + 1} : Line'[n] = Line[n]
  BY <1>0, LineExecuted
<1>2. Aged /\ Owned /\ Distinct /\ OldFirst /\ DropsFirst /\ Going /\ Routines
  BY DEF InOrder
<1>3. Advances(0) /\ Done \in Nat /\ Total \in Nat
  BY <1>0, AdvancesByExecute, LineTyped
<1>4. UNCHANGED progress
  BY DEF Execute
<1> HIDE DEF s
<1>5. ASSUME NEW d, s.what \in Keyed, Belongs(s, FALSE, d)
      PROVE  Belongs(Reply(s), TRUE, d)
  <2>1. CASE s.what = "tables"
    <3>1. Reply(s).what = "tables" /\ Reply(s).children = Children(s.of)
      BY <2>1 DEF Reply
    <3>2. s.of \in DOMAIN store /\ s.of = d
      BY <1>1, <1>5, <2>1 DEF Possible, Belongs
    <3>3. \A j \in DOMAIN Children(d) : Children(d)[j].of = d
      BY <1>0, <3>2, ChildrenList
    <3> QED BY <3>1, <3>2, <3>3 DEF Belongs
  <2>2. CASE s.what \in Altering
    <3>1. Reply(s) = s /\ s.what # "tables"
      BY <2>2 DEF Reply, Altering
    <3> QED BY <1>5, <3>1 DEF Belongs
  <2> QED BY <1>5, <2>1, <2>2 DEF Keyed
<1>6. Owned'
  <2>1. \A d : \A n \in 1..Total' : /\ n + 0 \in 1..Total /\ Line[n + 0].what \in Keyed
                                    /\ Belongs(Line[n + 0], n + 0 <= Done, d)
                                    => Belongs(Line'[n], n <= Done', d)
    <3> SUFFICES ASSUME NEW d, NEW n \in 1..Total, Line[n].what \in Keyed, Belongs(Line[n], n <= Done, d)
                 PROVE  Belongs(Line'[n], n <= Done', d)
      BY <1>1
    <3>1. CASE n = Done + 1
      <4>1. Belongs(s, FALSE, d)
        BY <1>1, <1>3, <3>1 DEF Belongs
      <4> QED BY <1>1, <1>3, <1>5, <3>1, <4>1 DEF Belongs
    <3>2. CASE n # Done + 1
      <4>1. (n <= Done) <=> (n <= Done')
        BY <1>1, <1>3, <3>2
      <4> QED BY <1>1, <3>2, <4>1 DEF Belongs
    <3> QED BY <3>1, <3>2
  <2>2. Sorted(tree')
    BY <1>0, <1>2, SortedTrees DEF Follows, Sorted
  <2> QED BY <1>2, <1>3, <2>1, <2>2, OwnedByStep
<1>7. Distinct'
  <2>1. ASSUME s.what = "databases"
        PROVE  Once(Reply(s).nodes)
    <3>1. Reply(s).nodes = Ordered(DOMAIN store)
      BY <2>1 DEF Reply
    <3>2. DOMAIN store \in SUBSET Nat /\ IsFiniteSet(DOMAIN store)
      BY <1>0, NamesAreOrdered, FS_Subset DEF ServerOK
    <3> QED BY <3>1, <3>2, OrderedIs
  <2>2. Alike(Reply(s), s)
    BY <1>1, ReplyAlike
  <2>3. \A n \in 1..Done' : Line'[n].what = "databases" =>
            \/ n + 0 \in 1..Done /\ Line'[n] = Line[n + 0]
            \/ Once(Line'[n].nodes)
    <3> SUFFICES ASSUME NEW n \in 1..Done', Line'[n].what = "databases"
                 PROVE  (n \in 1..Done /\ Line'[n] = Line[n]) \/ Once(Line'[n].nodes)
      BY <1>3
    <3>1. CASE n = Done + 1
      BY <1>1, <2>1, <2>2, <3>1 DEF Alike
    <3>2. CASE n # Done + 1
      BY <1>1, <1>3, <3>2
    <3> QED BY <3>1, <3>2
  <2> QED BY <1>2, <1>3, <2>3, DistinctByStep
<1>8. OldFirst'
  BY <1>0, <1>2, <1>3, OldFirstByStep
<1>9. Going'
  BY <1>2, <1>3, <1>4, GoingByStep
<1>10. Routines'
  BY <1>0, <1>2, <1>3, RoutinesByStep
<1> QED BY <1>2, <1>3, <1>6, <1>7, <1>8, <1>9, <1>10, AgedByStep, DropsFirstByStep DEF InOrder

LEMMA InOrderByArrive ==
  ASSUME TreeOK, TreeOK', Arrive, harm' = {}, InOrder
  PROVE  InOrder'
<1>0. ServerOK /\ UNCHANGED <<tree, dialog, progress>>
  BY DEF TreeOK, Arrive, ui
<1>1. Done' = Done /\ Total' = Total /\ Line' = Line /\ Done \in Nat /\ Total \in Nat
  BY <1>0, LineArrived, LineTyped
<1>2. Aged /\ Owned /\ Distinct /\ OldFirst /\ DropsFirst /\ Going /\ Routines
  BY DEF InOrder
<1>3. Advances(0)
  BY AdvancesByArrive
<1>4. Sorted(tree')
  BY <1>0, <1>2, SortedTrees DEF Follows, Sorted
<1>5. Owned'
  BY <1>1, <1>2, <1>3, <1>4, OwnedByStep
<1>6. Distinct'
  BY <1>1, <1>2, <1>3, DistinctByStep
<1>7. OldFirst' /\ Going' /\ Routines'
  BY <1>0, <1>2, <1>3, OldFirstByStep, GoingByStep, RoutinesByStep
<1> QED BY <1>2, <1>3, <1>5, <1>6, <1>7, AgedByStep, DropsFirstByStep DEF InOrder

\* What the tree learns of, it is asked for.
LEMMA FollowsAnswer ==
  ASSUME TreeOK, 1 \in 1..Total, 1 <= Done, Line[1] \in Result, ByAnswer(Line[1]), InOrder
  PROVE  Sorted(tree') /\ (Shape => Follows(tree', IF Line[1].what = "tables" /\ Line[1].key \in DatabaseKeys(tree)
                                            THEN {Line[1].key[2]} ELSE {}))
<1> DEFINE a == Line[1]
<1>2. Owned
  BY DEF InOrder
<1>3. tree \in Tree /\ a \in Result /\ ByAnswer(a)
  BY DEF TreeOK, PageOK
<1>4. Belongs(a, TRUE, NameAt(a.key[2])) \/ a.what \notin Keyed \/ Above(a.key) \notin DatabaseKeys(tree)
  <2>1. \A i \in DOMAIN tree.nodes : a.what \in Keyed /\ Above(a.key) = KeyAt(i) => Belongs(a, 1 <= Done, NameAt(i))
    BY <1>2 DEF Owned
  <2> HIDE DEF a
  <2>2. ASSUME NEW i \in DOMAIN tree.nodes, Above(a.key) = KeyAt(i)
        PROVE  a.key[2] = i
    BY <2>2 DEF Above, KeyAt
  <2> QED BY <2>1, <2>2 DEF DatabaseKeys, KeyAt, Belongs
<1>5. Sorted(tree') /\ (Shape => Follows(tree', IF a.what = "tables" /\ a.key \in DatabaseKeys(tree)
                                       THEN {a.key[2]} ELSE {}))
  <2> HIDE DEF a
  <2>0. Teaches(a)
    BY <1>3 DEF ByAnswer
  <2>1. CASE a.what = "databases"
    <3>1. tree' = Fresh(a)
      BY <2>0, <2>1 DEF Teaches
    <3>2. \A i \in DOMAIN tree'.nodes : tree'.nodes[i].tables = <<>>
      BY <3>1 DEF Fresh
    <3>3. DOMAIN <<>> = {}
      OBVIOUS
    <3>4. \A i \in DOMAIN tree'.nodes : ~tree'.nodes[i].loaded
      BY <3>1 DEF Fresh
    <3> QED BY <3>2, <3>3, <3>4 DEF Sorted, Shape, Follows
  <2>2. CASE a.what = "tables" /\ a.key \in DatabaseKeys(tree)
    <3>1. tree' = Relisted(tree, a.key, a.children) /\ a.key \in Root /\ a.children \in Placed(Table)
      BY <1>3, <2>0, <2>2, ResultParts DEF Teaches
    <3>2. \A j \in DOMAIN a.children : a.children[j].of = NameAt(a.key[2])
      BY <1>4, <2>2, <3>1, KeyParts DEF Keyed, Belongs
    <3>3. Follows(tree', {a.key[2]})
      BY <1>2, <2>2, <3>1, <3>2, SortedTrees
    <3> QED BY <2>2, <3>3 DEF Follows
  <2>3. CASE a.what = "rename" /\ a.key \in TableKeys(tree)
    <3>1. tree' = Relisted(tree, a.key, Retitled(a)) /\ a.name \in Titles
      BY <1>3, <2>0, <2>3, ResultParts DEF Teaches
    <3>2. Follows(tree', {})
      BY <1>2, <2>3, <3>1, SortedTrees
    <3> QED BY <2>3, <3>2 DEF Follows
  <2>4. CASE /\ a.what # "databases" /\ ~(a.what = "tables" /\ a.key \in DatabaseKeys(tree))
             /\ ~(a.what = "rename" /\ a.key \in TableKeys(tree))
    <3>1. UNCHANGED tree \/ tree' = Without(tree, a.key)
      BY <2>0, <2>4 DEF Teaches
    <3>2. Follows(tree', {})
      BY <1>2, <3>1, SortedTrees
    <3> QED BY <2>4, <3>2 DEF Follows
  <2> QED BY <2>1, <2>2, <2>3, <2>4
<1> QED BY <1>5

LEMMA InOrderByAnswer ==
  ASSUME TreeOK, TreeOK', jsonObject # <<>>, jsonObject' = <<>>, Done \in Nat \ {0},
         Line[1] \in Result, ByAnswer(Line[1]), InOrder
  PROVE  InOrder'
<1> DEFINE a == Line[1]
<1>1. /\ Advances(1) /\ Done' = Done - 1 /\ Total \in Nat /\ Done <= Total
      /\ \A n \in 1..(Total - 1) : Line'[n] = Line[n + 1]
      /\ Total' \in {Total - 1, Total} /\ 1 \in 1..Total
  BY AdvancesByAnswer
<1>2. Aged /\ Owned /\ Distinct /\ OldFirst /\ DropsFirst /\ Going /\ Routines
  BY DEF InOrder
<1>3. tree \in Tree /\ a \in Result /\ ByAnswer(a) /\ UNCHANGED dialog
  BY DEF TreeOK, PageOK, ByAnswer
<1>5. Sorted(tree') /\ (Shape => Follows(tree', IF a.what = "tables" /\ a.key \in DatabaseKeys(tree)
                                       THEN {a.key[2]} ELSE {}))
  BY <1>1, <1>3, FollowsAnswer
<1> HIDE DEF a
<1>6. Owned'
  <2>1. \A d : \A n \in 1..Total' : /\ n + 1 \in 1..Total /\ Line[n + 1].what \in Keyed
                                    /\ Belongs(Line[n + 1], n + 1 <= Done, d)
                                    => Belongs(Line'[n], n <= Done', d)
    <3> SUFFICES ASSUME NEW d, NEW n \in 1..(Total - 1), Belongs(Line[n + 1], n + 1 <= Done, d)
                 PROVE  Belongs(Line'[n], n <= Done', d)
      BY <1>1
    <3>1. (n + 1 <= Done) <=> (n <= Done')
      BY <1>1
    <3> QED BY <1>1, <3>1 DEF Belongs
  <2> QED BY <1>1, <1>2, <1>5, <2>1, OwnedByStep
<1>7. Distinct'
  <2>1. \A n \in 1..Done' : n + 1 \in 1..Done /\ n \in 1..(Total - 1)
    BY <1>1
  <2> QED BY <1>1, <1>2, <2>1, DistinctByStep
<1>8. OldFirst'
  <2> SUFFICES ASSUME Shape, NEW i \in DOMAIN tree.nodes, tree'.nodes[i].loaded, ~tree.nodes[i].loaded
               PROVE  a.what = "tables" /\ a.key = KeyAt(i)
    BY <1>1, <1>2, OldFirstByStep DEF a
  <2>1. a.what = "tables" /\ a.key \in DatabaseKeys(tree) /\ a.key[2] = i
    BY <1>5 DEF Follows
  <2> QED BY <2>1 DEF DatabaseKeys, KeyAt
<1>9. Going'
  <2>1. \A x \in progress' : x \in progress /\ ~(a.what \in Transfers /\ a.node.key = x)
    BY <1>2, <1>3 DEF ByAnswer, Ended, Transfers
  <2> QED BY <1>1, <1>2, <2>1, GoingByStep DEF a
<1>10. Routines'
  BY <1>1, <1>2, <1>3, RoutinesByStep
<1> QED BY <1>1, <1>2, <1>6, <1>7, <1>8, <1>9, <1>10, AgedByStep, DropsFirstByStep DEF InOrder

-----------------------------------------------------------------------------
\* What the answers in the line tell.

\* The names in a database before and after a statement.
Turned(a, d, names) ==
  IF a.what \notin Altering \/ a.table.of # d THEN names
  ELSE IF a.what = "create" THEN names \cup {a.table.name}
  ELSE IF a.what = "drop" THEN names \ {a.table.name}
  ELSE (names \ {a.table.name}) \cup {a.name}

\* The names there were, at one point of the line.
Snap == [Databases -> SUBSET Titles]
Now == [d \in Databases |-> IF d \in DOMAIN store THEN store[d] ELSE {}]

\* From one point to the next.  Of what was executed otherwise nothing is told.
Leads(a, x, y) == a.what # "executed" =>
  /\ \A d \in Databases : y[d] = Turned(a, d, x[d])
  /\ a.what \in {"rename", "drop"} => a.table.name \in x[a.table.of]
  /\ a.what = "rename" => a.name \notin x[a.table.of]
Chain(h) ==
  /\ h[Done] = Now
  /\ \A n \in 1..Done : Leads(Line[n], h[n - 1], h[n])
  /\ \A n \in 1..Done, i \in DOMAIN tree.nodes :
       Line[n].what = "tables" /\ Line[n].key = KeyAt(i) => Lists(Line[n].children, h[n][NameAt(i)])

LEMMA ExecuteLeads ==
  ASSUME ServerOK, NEW s \in Statement, Possible(s), Changes(s)
  PROVE  Leads(Reply(s), Now, Now')
<1>1. CASE s.what \in {"truncate", "copy", "dropDatabase", "createDatabase"}
  <2>1. Reply(s).what = "executed"
    BY <1>1 DEF Reply
  <2> QED BY <2>1 DEF Leads
<1>2. CASE s.what \in {"databases", "tables", "ddl", "export", "import"}
  <2>1. store' = store
    BY <1>2 DEF Changes
  <2>2. Reply(s).what \notin Altering \cup {"executed"}
    BY <1>2 DEF Reply, Altering
  <2>3. Now' = Now
    BY <2>1 DEF Now
  <2> QED BY <2>2, <2>3 DEF Leads, Turned, Altering
<1>3. CASE s.what \in Altering
  <2>1. Reply(s) = s
    BY <1>3 DEF Reply, Altering
  <2>2. s.table.of \in DOMAIN store /\ s.table.of \in Databases
    BY <1>3 DEF Possible, Has, Altering, ServerOK
  <2>3. Stores(s.table.of, Turned(s, s.table.of, store[s.table.of]))
    <3>1. CASE s.what = "create"
      BY <3>1 DEF Changes, Turned, Altering
    <3>2. CASE s.what = "drop"
      BY <3>2 DEF Changes, Turned, Altering
    <3>3. CASE s.what = "rename"
      BY <3>3 DEF Changes, Turned, Altering
    <3> QED BY <1>3, <3>1, <3>2, <3>3 DEF Altering
  <2>4. DOMAIN store' = DOMAIN store /\ \A d \in DOMAIN store : store'[d] = Turned(s, d, store[d])
    <3>1. \A d \in DOMAIN store \ {s.table.of} : Turned(s, d, store[d]) = store[d]
      BY DEF Turned
    <3> QED BY <2>2, <2>3, <3>1 DEF Stores
  <2>5. \A d \in Databases : Now'[d] = Turned(s, d, Now[d])
    <3> TAKE d \in Databases
    <3>1. Now' = [x \in Databases |-> IF x \in DOMAIN store' THEN store'[x] ELSE {}]
      BY DEF Now
    <3>2. CASE d \in DOMAIN store
      BY <2>4, <3>1, <3>2 DEF Now
    <3>3. CASE d \notin DOMAIN store
      <4>1. Turned(s, d, {}) = {}
        BY <2>2, <3>3 DEF Turned
      <4> QED BY <2>4, <3>1, <3>3, <4>1 DEF Now
    <3> QED BY <3>2, <3>3
  <2>6. s.what = "drop" => s.table.name \in Now[s.table.of]
    BY <2>2 DEF Possible, Has, Now
  <2>7. s.what = "rename" => s.table.name \in Now[s.table.of] /\ s.name \notin Now[s.table.of]
    <3> SUFFICES ASSUME s.what = "rename" PROVE s.table.name \in Now[s.table.of] /\ s.name \notin Now[s.table.of]
      OBVIOUS
    <3>1. Has(s.table) /\ ~Has([s.table EXCEPT !.name = s.name])
      BY DEF Possible
    <3>2. s.table \in Table
      BY StatementParts
    <3>3. [s.table EXCEPT !.name = s.name] = [of |-> s.table.of, name |-> s.name]
      BY <3>2 DEF Table
    <3> QED BY <2>2, <3>1, <3>3 DEF Has, Now
  <2> QED BY <2>1, <2>5, <2>6, <2>7 DEF Leads
<1> QED BY <1>1, <1>2, <1>3, StatementParts DEF Altering

LEMMA NowIsSnap ==
  /\ ServerOK => Now \in Snap
  /\ ServerOK' => Now' \in Snap
  BY DEF ServerOK, Now, Snap

\* The chain grows by what is executed, and loses what is worked on.
LEMMA ChainKept ==
  ASSUME NEW h, Chain(h), Shape, UNCHANGED store, Done \in Nat, Done' = Done, \A n \in 1..Done : Line'[n] = Line[n]
  PROVE  Chain(h)'
<1>1. Now' = Now
  BY DEF Now
<1>2. \A i \in DOMAIN tree'.nodes : i \in DOMAIN tree.nodes /\ KeyAt(i)' = KeyAt(i) /\ NameAt(i)' = NameAt(i)
  BY DEF Shape, KeyAt, NameAt
<1> QED BY <1>1, <1>2 DEF Chain

LEMMA ChainExecuted ==
  ASSUME TreeOK, ServerOK', Owned, Execute, harm' = {}, NEW h \in [0..Done -> Snap], Chain(h),
         NEW g, g = [n \in 0..(Done + 1) |-> IF n <= Done THEN h[n] ELSE Now']
  PROVE  g \in [0..Done' -> Snap] /\ Chain(g)' /\ g[0] = h[0]
<1> DEFINE s == Head(wire)
<1>0. ServerOK /\ UNCHANGED tree /\ Done \in Nat /\ Total \in Nat /\ Now' \in Snap
  BY LineTyped, NowIsSnap DEF TreeOK, Execute
<1>1. /\ Done' = Done + 1 /\ Done + 1 \in 1..Total
      /\ Line[Done + 1] = s /\ s \in Statement /\ Possible(s) /\ Changes(s)
      /\ Line'[Done + 1] = Reply(s)
      /\ \A n \in 1..Total \ {Done + 1} : Line'[n] = Line[n]
  BY <1>0, LineExecuted
<1> HIDE DEF s
<1>2. /\ g \in [0..Done' -> Snap] /\ g[Done + 1] = Now' /\ g[Done] = Now
      /\ \A n \in 0..Done : g[n] = h[n]
  BY <1>0, <1>1 DEF Chain
<1>3. \A i \in DOMAIN tree'.nodes : i \in DOMAIN tree.nodes /\ KeyAt(i)' = KeyAt(i) /\ NameAt(i)' = NameAt(i)
  BY <1>0 DEF KeyAt, NameAt
<1>4. \A n \in 1..Done' : Leads(Line'[n], g[n - 1], g[n])
  <2> TAKE n \in 1..Done'
  <2>1. CASE n = Done + 1
    <3>1. Leads(Reply(s), Now, Now')
      BY <1>0, <1>1, ExecuteLeads
    <3>2. n - 1 = Done
      BY <1>0, <2>1
    <3> QED BY <1>1, <1>2, <2>1, <3>1, <3>2
  <2>2. CASE n # Done + 1
    <3>1. n \in 1..Done /\ n - 1 \in 0..Done /\ Line'[n] = Line[n]
      BY <1>0, <1>1, <2>2
    <3> QED BY <1>2, <3>1 DEF Chain
  <2> QED BY <2>1, <2>2
<1>5. ASSUME NEW n \in 1..Done', NEW i \in DOMAIN tree.nodes, Line'[n].what = "tables", Line'[n].key = KeyAt(i)
      PROVE  Lists(Line'[n].children, g[n][NameAt(i)])
  <2>1. CASE n = Done + 1
    <3>1. Alike(Reply(s), s)
      BY <1>1, ReplyAlike
    <3>2. s.what = "tables" /\ s.key = KeyAt(i)
      BY <1>1, <1>5, <2>1, <3>1 DEF Alike, Keyed
    <3>3. Reply(s).children = Children(s.of) /\ s.of \in DOMAIN store /\ store' = store
      BY <1>1, <3>2 DEF Reply, Possible, Changes
    <3>4. s.of = NameAt(i)
      <4>1. Belongs(s, Done + 1 <= Done, NameAt(i))
        <5>1. Above(s.key) = KeyAt(i)
          BY <3>2 DEF Above, KeyAt
        <5> QED BY <1>1, <3>2, <5>1 DEF Owned, Keyed
      <4> QED BY <1>0, <3>2, <4>1 DEF Belongs
    <3>5. Lists(Children(s.of), store[s.of])
      BY <1>0, <3>3, ChildrenList
    <3>6. s.of \in Databases /\ Now'[s.of] = store[s.of]
      BY <1>0, <3>3 DEF ServerOK, Now
    <3> QED BY <1>1, <1>2, <2>1, <3>3, <3>4, <3>5, <3>6
  <2>2. CASE n # Done + 1
    <3>1. n \in 1..Done /\ Line'[n] = Line[n]
      BY <1>0, <1>1, <2>2
    <3> QED BY <1>2, <1>5, <3>1 DEF Chain
  <2> QED BY <2>1, <2>2
<1>6. Chain(g)'
  BY <1>1, <1>2, <1>3, <1>4, <1>5 DEF Chain
<1> QED BY <1>0, <1>2, <1>6

LEMMA ChainWorked ==
  ASSUME TreeOK, Aged, NEW h \in [0..Done -> Snap], Chain(h), UNCHANGED store,
         Shape \/ Renewed, Done \in Nat \ {0}, Done' = Done - 1, Total \in Nat, Done <= Total,
         \A n \in 1..(Total - 1) : Line'[n] = Line[n + 1],
         NEW g, g = [n \in 0..(Done - 1) |-> h[n + 1]]
  PROVE  g \in [0..Done' -> Snap] /\ Chain(g)' /\ g[0] = h[1] /\ Leads(Line[1], h[0], h[1])
<1>1. /\ g \in [0..Done' -> Snap] /\ \A n \in 0..(Done - 1) : g[n] = h[n + 1]
      /\ g[0] = h[1]
  OBVIOUS
<1>2. g[Done'] = Now'
  BY <1>1 DEF Chain, Now
<1>3. \A n \in 1..Done' : n + 1 \in 1..Done /\ Line'[n] = Line[n + 1] /\ g[n] = h[n + 1] /\ g[n - 1] = h[(n + 1) - 1]
  BY <1>1
<1>4. \A n \in 1..Done' : Leads(Line'[n], g[n - 1], g[n])
  <2> TAKE n \in 1..Done'
  <2>1. Leads(Line[n + 1], h[(n + 1) - 1], h[n + 1])
    BY <1>3 DEF Chain
  <2> QED BY <1>3, <2>1
<1>5. Leads(Line[1], h[0], h[1])
  <2>1. 1 \in 1..Done /\ 1 - 1 = 0
    OBVIOUS
  <2>2. Leads(Line[1], h[1 - 1], h[1])
    BY <2>1 DEF Chain
  <2> QED BY <2>1, <2>2
<1>6. ASSUME NEW n \in 1..Done', NEW i \in DOMAIN tree'.nodes, Line'[n].what = "tables", Line'[n].key = KeyAt(i)'
      PROVE  Lists(Line'[n].children, g[n][NameAt(i)'])
  <2>1. CASE Shape
    <3>1. i \in DOMAIN tree.nodes /\ KeyAt(i)' = KeyAt(i) /\ NameAt(i)' = NameAt(i)
      BY <2>1 DEF Shape, KeyAt, NameAt
    <3> QED BY <1>3, <1>6, <3>1 DEF Chain
  <2>2. CASE Renewed
    <3>1. n + 1 \in 1..Total /\ 1 \in 1..Total
      BY <1>3
    <3>2. Line[n + 1].what = "tables" /\ Above(Line[n + 1].key) = KeyAt(i)'
      <4>1. Line[n + 1].key = KeyAt(i)' /\ Line[n + 1].what = "tables"
        BY <1>3, <1>6
      <4> QED BY <4>1 DEF Above, KeyAt
    <3>3. KeyAt(i)' \in DatabaseKeys(tree')
      BY DEF KeyAt, DatabaseKeys
    <3> QED BY <2>2, <3>1, <3>2, <3>3, NothingRenewed DEF Keyed
  <2> QED BY <2>1, <2>2
<1>7. Chain(g)'
  BY <1>2, <1>4, <1>6 DEF Chain
<1> QED BY <1>1, <1>5, <1>7

-----------------------------------------------------------------------------
\* What the tree has learnt.

\* The tables of a database will not be listed anew; those that are dropped are not
\* listed already.
Listed(i) == \A n \in 1..Total : ~(Line[n].what \in {"tables", "create"} /\ Line[n].key = KeyAt(i))
DropOf(i, n) == kind = "table" /\ Line[n].what = "drop" /\ Above(Line[n].key) = KeyAt(i)
Leaving(i) == {Line[n].table.name : n \in {m \in 1..Total : DropOf(i, m)}}

\* The answers that look for the node of a table, and how they find it.
Due == IF kind = "table" THEN "rename" ELSE "drop"
Findable(t, i, key, table) ==
  key \in TableKeys(t) \/ (kind = "routine" /\ \A j \in DOMAIN t.nodes[i].tables : t.nodes[i].tables[j].name # table.name)

\* The tables listed at a node are those that the answers in the line start from.
Truth(i, S) ==
  /\ Lists(Tables(i), S \ Leaving(i))
  /\ \A n \in 1..Total : DropOf(i, n) =>
       /\ Line[n].table.name \in S
       /\ \A m \in 1..Total : m < n /\ Line[m].what \in {"rename", "drop"} => Line[m].table # Line[n].table
  /\ \A n \in 1..Total : Line[n].what = Due /\ Above(Line[n].key) = KeyAt(i)
       => Findable(tree, i, Line[n].key, Line[n].table)
  /\ \A x \in Pointed : x.key \in Leaf /\ Above(x.key) = KeyAt(i) => Findable(tree, i, x.key, x.title)
AllTrue(h) == \A i \in DOMAIN tree.nodes : tree.nodes[i].loaded /\ Listed(i) => Truth(i, h[0][NameAt(i)])

\* All will be listed anew, or an answer will meet with a mishap.
Renewal == \E n \in 1..Total : Line[n].what \in Renewing
Doomed == \E n, m \in 1..Total :
  n < m /\ Line[n].what = "rename" /\ Line[m].what \in {"rename", "drop"} /\ Line[n].key = Line[m].key

LearntFrom(h) == Chain(h) /\ (Renewal \/ Doomed \/ AllTrue(h))
Learnt == \E h \in [0..Done -> Snap] : LearntFrom(h)

\* Where an element of the line comes from and where it goes.
LEMMA Onwards ==
  ASSUME ServerOK, ServerOK', NEW k, Advances(k), NEW m \in 1..Total, m > k
  PROVE  m - k \in 1..Total' /\ Alike(Line'[m - k], Line[m])
<1> DEFINE n == m - k
<1>1. k \in {0, 1} /\ Total' >= Total - k /\ Total \in Nat /\ Total' \in Nat
  BY LineTyped, LineTypedNext DEF Advances, Moves
<1>2. n \in 1..Total' /\ n + k = m /\ n + k # Total + 1
  BY <1>1
<1> HIDE DEF n
<1>3. Alike(Line'[n], Line[n + k])
  BY <1>2, Where
<1> QED BY <1>2, <1>3 DEF n

LEMMA AlikeKeyed ==
  ASSUME NEW x, NEW y, Alike(x, y), x.what \in Keyed \/ y.what \in Keyed
  PROVE  x.what = y.what /\ x.key = y.key /\ (x.what \in Altering => x.table = y.table)
  BY DEF Alike, Keyed, Altering, Renewing

LEMMA DoomedStays ==
  ASSUME ServerOK, ServerOK', NEW k, Advances(k), Doomed,
         k = 1 => Len(jsonObject) = 1 /\ ByAnswer(Line[1])
  PROVE  Doomed'
<1> PICK n \in 1..Total, m \in 1..Total :
       n < m /\ Line[n].what = "rename" /\ Line[m].what \in {"rename", "drop"} /\ Line[n].key = Line[m].key
  BY DEF Doomed
<1>1. Total \in Nat /\ k \in {0, 1}
  BY LineTyped DEF Advances, Moves
<1>2. n > k
  <2> SUFFICES ASSUME k = 1, n = 1 PROVE FALSE
    BY <1>1
  <2>1. Line[m] \in Among(answers) \cup Among(wire)
    BY LineAmong
  <2>2. <<Line[m].key, Line[m].table>> \in References
    BY <2>1 DEF References, Named
  <2>3. Line[1].key \notin {r[1] : r \in References}
    BY DEF ByAnswer, Teaches
  <2> QED BY <2>2, <2>3
<1>3. m > k /\ n - k < m - k
  BY <1>1, <1>2
<1>4. n - k \in 1..Total' /\ Alike(Line'[n - k], Line[n]) /\ m - k \in 1..Total' /\ Alike(Line'[m - k], Line[m])
  BY <1>2, <1>3, Onwards
<1>5. /\ Line'[n - k].what = "rename" /\ Line'[m - k].what \in {"rename", "drop"}
      /\ Line'[n - k].key = Line'[m - k].key
  BY <1>4, AlikeKeyed DEF Keyed, Altering
<1> QED BY <1>3, <1>4, <1>5 DEF Doomed

LEMMA RenewalStays ==
  ASSUME ServerOK, ServerOK', NEW k, Advances(k), Renewal,
         k = 1 /\ Line[1].what \in Renewing => 1 \in 1..Total /\ Line[1] \in Result,
         k = 1 /\ Line[1].what = "executed" => Total' \in 1..Total' /\ Line'[Total'].what = "databases"
  PROVE  Renewal' \/ (k = 1 /\ Line[1].what = "databases")
<1> PICK n \in 1..Total : Line[n].what \in Renewing
  BY DEF Renewal
<1>1. Total \in Nat /\ k \in {0, 1}
  BY LineTyped DEF Advances, Moves
<1>2. CASE n > k
  <2>1. n - k \in 1..Total' /\ Alike(Line'[n - k], Line[n])
    BY <1>2, Onwards
  <2> QED BY <2>1 DEF Alike, Renewal, Renewing
<1>3. CASE n = 1 /\ k = 1
  <2>1. Line[1].what \in {"databases", "executed"}
    BY <1>3, ResultParts DEF Renewing
  <2> QED BY <1>3, <2>1 DEF Renewal, Renewing
<1> QED BY <1>1, <1>2, <1>3

\* What is in the line was to be listed before, but for what is worked on.
LEMMA ListedBefore ==
  ASSUME ServerOK, ServerOK', NEW k, Advances(k), Shape, NEW i, Listed(i)'
  PROVE  Listed(i) \/ (k = 1 /\ 1 \in 1..Total /\ Line[1].what \in {"tables", "create"} /\ Line[1].key = KeyAt(i))
<1>1. KeyAt(i)' = KeyAt(i)
  BY DEF Shape, KeyAt
<1>2. ASSUME NEW m \in 1..Total, m > k, Line[m].what \in {"tables", "create"}, Line[m].key = KeyAt(i)
      PROVE  FALSE
  <2>1. m - k \in 1..Total' /\ Alike(Line'[m - k], Line[m])
    BY <1>2, Onwards
  <2>2. Line'[m - k].what = Line[m].what /\ Line'[m - k].key = Line[m].key
    BY <1>2, <2>1, AlikeKeyed DEF Keyed, Altering
  <2> QED BY <1>1, <1>2, <2>1, <2>2 DEF Listed
<1>3. Total \in Nat /\ k \in {0, 1}
  BY LineTyped DEF Advances, Moves
<1>4. \A m \in 1..Total : m > k \/ (m = 1 /\ k = 1)
  BY <1>3
<1> QED BY <1>2, <1>4 DEF Listed

\* What the line and the page name is known.
LEMMA KnownLine ==
  ASSUME ServerOK, NEW n \in 1..Total, Line[n].what \in {"rename", "drop"}
  PROVE  /\ <<Line[n].key, Line[n].table>> \in Known
         /\ n > Len(jsonObject) => <<Line[n].key, Line[n].table>> \in References
  BY LineAmong DEF Known, References, LastRefs, Named

LEMMA KnownNode ==
  ASSUME TreeOK, NEW x \in Pointed, x.key \in Leaf
  PROVE  <<x.key, x.title>> \in References
<1>1. x \in Node
  BY NodesOf DEF Pointed
<1>2. Held(x) = {<<x.key, x.title>>}
  BY <1>1, HeldIs
<1>3. Held(x) \subseteq References
  BY DEF Pointed, References
<1> QED BY <1>2, <1>3

LEMMA FindableSame ==
  ASSUME TreeOK, TreeOK', Shape, kind' = kind, NEW i \in DOMAIN tree.nodes, Tables(i)' = Tables(i),
         NEW key, NEW table, Above(key) = KeyAt(i), Findable(tree, i, key, table)
  PROVE  Findable(tree', i, key, table)
<1>0. tree \in Tree
  BY DEF TreeOK, PageOK
<1>1. ASSUME key \in TableKeys(tree)
      PROVE  key \in TableKeys(tree')
  <2>1. key = <<tree.prefix, key[2], key[3]>> /\ key[3] \in DOMAIN Tables(key[2]) /\ key[2] = i
    BY <1>0, <1>1, TreeKeys DEF Above, KeyAt, Tables
  <2>2. key = <<tree'.prefix, i, key[3]>> /\ i \in DOMAIN tree'.nodes /\ key[3] \in DOMAIN tree'.nodes[i].tables
    BY <2>1 DEF Shape, Tables
  <2> QED BY <2>2, KeyIn
<1> QED BY <1>1 DEF Findable, Tables

\* The names of the tables that will be dropped after the first k in the line.
LeavingAfter(i, k) == {Line[n].table.name : n \in {m \in 1..Total : m > k /\ DropOf(i, m)}}

LEMMA DropsMove ==
  ASSUME ServerOK, ServerOK', NEW k, Advances(k), Shape, NEW i,
         \A n \in 1..Total' : n + k = Total + 1 => ~DropOf(i, n)'
  PROVE  /\ \A n \in 1..Total' : DropOf(i, n)' =>
              n + k \in 1..Total /\ n + k > k /\ DropOf(i, n + k) /\ Line'[n].table = Line[n + k].table
         /\ Leaving(i)' = LeavingAfter(i, k)
<1>0. Total \in Nat /\ Total' \in Nat /\ k \in {0, 1} /\ kind' = kind /\ KeyAt(i)' = KeyAt(i)
  BY LineTyped, LineTypedNext DEF Advances, Moves, Shape, KeyAt
<1>1. ASSUME NEW n \in 1..Total', DropOf(i, n)'
      PROVE  n + k \in 1..Total /\ n + k > k /\ DropOf(i, n + k) /\ Line'[n].table = Line[n + k].table
  <2>1. n + k \in 1..Total /\ Alike(Line'[n], Line[n + k])
    BY <1>1, Where
  <2>2. Line'[n].what = "drop" /\ Above(Line'[n].key) = KeyAt(i) /\ kind = "table"
    BY <1>0, <1>1 DEF DropOf
  <2>3. Line[n + k].what = "drop" /\ Line'[n].key = Line[n + k].key /\ Line'[n].table = Line[n + k].table
    BY <2>1, <2>2, AlikeKeyed DEF Keyed, Altering
  <2> QED BY <1>0, <2>1, <2>2, <2>3 DEF DropOf
<1>2. ASSUME NEW m \in 1..Total, m > k, DropOf(i, m)
      PROVE  m - k \in 1..Total' /\ DropOf(i, m - k)' /\ Line'[m - k].table = Line[m].table
  <2>1. m - k \in 1..Total' /\ Alike(Line'[m - k], Line[m])
    BY <1>2, Onwards
  <2>2. Line[m].what = "drop" /\ Above(Line[m].key) = KeyAt(i) /\ kind = "table"
    BY <1>2 DEF DropOf
  <2>3. Line'[m - k].what = "drop" /\ Line'[m - k].key = Line[m].key /\ Line'[m - k].table = Line[m].table
    BY <2>1, <2>2, AlikeKeyed DEF Keyed, Altering
  <2> QED BY <1>0, <2>1, <2>2, <2>3 DEF DropOf
<1>3. Leaving(i)' = {Line'[n].table.name : n \in {m \in 1..Total' : DropOf(i, m)'}}
  BY DEF Leaving
<1>4. \A x \in Leaving(i)' : x \in LeavingAfter(i, k)
  <2> TAKE x \in Leaving(i)'
  <2>1. PICK n \in 1..Total' : DropOf(i, n)' /\ x = Line'[n].table.name
    BY <1>3
  <2> QED BY <1>1, <2>1 DEF LeavingAfter
<1>5. \A x \in LeavingAfter(i, k) : x \in Leaving(i)'
  <2> TAKE x \in LeavingAfter(i, k)
  <2>1. PICK m \in 1..Total : m > k /\ DropOf(i, m) /\ x = Line[m].table.name
    BY DEF LeavingAfter
  <2> QED BY <1>2, <1>3, <2>1
<1> QED BY <1>1, <1>4, <1>5

\* What is to be shown of a step at one node of the tree.
LEMMA TruthByStep ==
  ASSUME TreeOK, TreeOK', NEW k, Advances(k), Shape, NEW i \in DOMAIN tree.nodes, NEW S, Truth(i, S), NEW S1,
         \A n \in 1..Total' : n + k = Total + 1 => ~DropOf(i, n)',
         Lists(tree'.nodes[i].tables, S1 \ LeavingAfter(i, k)),
         \A n \in 1..Total : n > k /\ DropOf(i, n) => Line[n].table.name \in S1,
         Pointed' = Pointed \/ Tables(i)' = Tables(i),
         \A r \in Known : Above(r[1]) = KeyAt(i) /\ Findable(tree, i, r[1], r[2]) => Findable(tree', i, r[1], r[2])
  PROVE  Truth(i, S1)'
<1>0. /\ ServerOK /\ ServerOK' /\ kind' = kind /\ KeyAt(i)' = KeyAt(i) /\ tree \in Tree
      /\ Total \in Nat /\ Total' \in Nat /\ k \in {0, 1}
  BY LineTyped, LineTypedNext DEF TreeOK, PageOK, Advances, Moves, Shape, KeyAt
<1>1. /\ \A n \in 1..Total' : DropOf(i, n)' =>
              n + k \in 1..Total /\ n + k > k /\ DropOf(i, n + k) /\ Line'[n].table = Line[n + k].table
      /\ Leaving(i)' = LeavingAfter(i, k)
  BY <1>0, DropsMove
<1>2. Lists(Tables(i)', S1 \ Leaving(i)')
  BY <1>1 DEF Tables
<1>3. ASSUME NEW n \in 1..Total', DropOf(i, n)'
      PROVE  /\ Line'[n].table.name \in S1
             /\ \A m \in 1..Total' : m < n /\ Line'[m].what \in {"rename", "drop"} => Line'[m].table # Line'[n].table
  <2>1. n + k \in 1..Total /\ n + k > k /\ DropOf(i, n + k) /\ Line'[n].table = Line[n + k].table
    BY <1>1, <1>3
  <2>2. ASSUME NEW m \in 1..Total', m < n, Line'[m].what \in {"rename", "drop"}
        PROVE  Line'[m].table # Line'[n].table
    <3>1. m + k \in 1..Total /\ m + k < n + k /\ m + k # Total + 1
      BY <1>0, <2>1, <2>2
    <3>2. Alike(Line'[m], Line[m + k])
      BY <1>0, <3>1, Where
    <3>3. Line[m + k].what \in {"rename", "drop"} /\ Line'[m].table = Line[m + k].table
      BY <2>2, <3>2, AlikeKeyed DEF Keyed, Altering
    <3> QED BY <2>1, <3>1, <3>3 DEF Truth
  <2> QED BY <2>1, <2>2
<1>4. ASSUME NEW n \in 1..Total', Line'[n].what = Due, Above(Line'[n].key) = KeyAt(i)
      PROVE  Findable(tree', i, Line'[n].key, Line'[n].table)
  <2>0. Due \in {"rename", "drop"}
    BY DEF Due
  <2>1. CASE n + k \in 1..Total /\ Alike(Line'[n], Line[n + k])
    <3>1. Line[n + k].what = Due /\ Line'[n].key = Line[n + k].key /\ Line'[n].table = Line[n + k].table
      BY <1>4, <2>0, <2>1, AlikeKeyed DEF Keyed, Altering
    <3>2. <<Line[n + k].key, Line[n + k].table>> \in Known
      BY <1>0, <2>0, <2>1, <3>1, KnownLine
    <3>3. Findable(tree, i, Line[n + k].key, Line[n + k].table)
      BY <1>4, <2>1, <3>1 DEF Truth
    <3>4. Findable(tree', i, Line[n + k].key, Line[n + k].table)
      BY <1>4, <3>1, <3>2, <3>3
    <3> QED BY <3>1, <3>4
  <2>2. CASE Sensible(Line'[n])
    <3> DEFINE s == Line'[n]
    <3>1. s.key \in Leaf
      BY <1>4, <2>0, <2>2, StatementParts DEF Sensible
    <3>2. dialog.node \in Pointed /\ s.key = dialog.node.key /\ s.table = dialog.node.title
      BY <1>4, <2>0, <2>2 DEF Sensible, Altering, Pointed
    <3> HIDE DEF s
    <3>3. <<s.key, s.table>> \in Known
      BY <3>1, <3>2, KnownNode DEF Known
    <3>4. Findable(tree, i, s.key, s.table)
      BY <1>4, <3>1, <3>2 DEF Truth, s
    <3>5. Findable(tree', i, s.key, s.table)
      BY <1>4, <3>3, <3>4 DEF s
    <3> QED BY <3>5 DEF s
  <2> QED BY <1>0, <2>1, <2>2, Where
<1>5. ASSUME NEW x \in Pointed', x.key \in Leaf, Above(x.key) = KeyAt(i)
      PROVE  Findable(tree', i, x.key, x.title)
  <2>1. CASE x \in Pointed
    <3>1. <<x.key, x.title>> \in Known
      BY <1>5, <2>1, KnownNode DEF Known
    <3>2. Findable(tree, i, x.key, x.title)
      BY <1>5, <2>1 DEF Truth
    <3> QED BY <1>5, <3>1, <3>2
  <2>2. CASE x \notin Pointed
    <3>1. Clicked(x) /\ Tables(i)' = Tables(i)
      BY <2>2 DEF Advances
    <3>2. x.key \in TableKeys(tree)
      BY <1>0, <1>5, <3>1, AllKeysParts, KeyParts DEF Clicked
    <3> QED BY <1>0, <1>5, <3>1, <3>2, FindableSame DEF Findable
  <2> QED BY <2>1, <2>2
<1>6. Due' = Due
  BY <1>0 DEF Due
<1> QED BY <1>0, <1>2, <1>3, <1>4, <1>5, <1>6 DEF Truth, Findable

\* A node that keeps its tables.
LEMMA TruthKept ==
  ASSUME TreeOK, TreeOK', NEW k, Advances(k), Shape, Owned, NEW i \in DOMAIN tree.nodes, NEW S, Truth(i, S),
         Tables(i)' = Tables(i), k = 1 => 1 \in 1..Total,
         \A n \in 1..Total' : n + k = Total + 1 => ~DropOf(i, n)',
         NEW S1, S1 = IF k = 1 /\ DropOf(i, 1) THEN S \ {Line[1].table.name} ELSE S
  PROVE  Truth(i, S1)'
<1>0. ServerOK /\ kind' = kind /\ Total \in Nat /\ k \in {0, 1}
  BY LineTyped DEF TreeOK, Advances, Moves
<1>1. \A r \in Known : Above(r[1]) = KeyAt(i) /\ Findable(tree, i, r[1], r[2]) => Findable(tree', i, r[1], r[2])
  BY <1>0, FindableSame
<1>2. \A m \in 1..Total : m > k \/ (m = 1 /\ k = 1)
  BY <1>0
<1>3. ASSUME NEW n \in 1..Total, n > k, DropOf(i, n)
      PROVE  Line[n].table.name \in S1
  <2>1. Line[n].table.name \in S
    BY <1>3 DEF Truth
  <2>2. CASE k = 1 /\ DropOf(i, 1)
    <3>1. Line[1].table # Line[n].table
      BY <1>0, <1>3, <2>2 DEF Truth, DropOf
    <3>2. Line[1].table \in Table /\ Line[n].table \in Table
      BY <1>0, <1>3, <2>2, LineParts DEF DropOf, Altering
    <3>3. Line[1].table.of = NameAt(i) /\ Line[n].table.of = NameAt(i)
      BY <1>3, <2>2 DEF DropOf, Owned, Belongs, Keyed, Altering
    <3>4. Line[1].table.name # Line[n].table.name
      BY <3>1, <3>2, <3>3 DEF Table
    <3> QED BY <2>1, <2>2, <3>4
  <2> QED BY <2>1, <2>2
<1>4. S1 \ LeavingAfter(i, k) = S \ Leaving(i)
  <2>1. CASE k = 1 /\ DropOf(i, 1)
    <3>1. Leaving(i) = LeavingAfter(i, k) \cup {Line[1].table.name}
      BY <1>2, <2>1 DEF Leaving, LeavingAfter
    <3> QED BY <2>1, <3>1
  <2>2. CASE ~(k = 1 /\ DropOf(i, 1))
    <3>1. \A m \in 1..Total : DropOf(i, m) => m > k
      BY <1>2, <2>2
    <3>2. Leaving(i) = LeavingAfter(i, k)
      BY <3>1 DEF Leaving, LeavingAfter
    <3> QED BY <2>2, <3>2
  <2> QED BY <2>1, <2>2
<1>5. Lists(tree'.nodes[i].tables, S1 \ LeavingAfter(i, k))
  BY <1>4 DEF Truth, Tables
<1> QED BY <1>1, <1>3, <1>5, TruthByStep

\* The keys of the tables of a node.
LEMMA KeyOf ==
  ASSUME TreeOK, NEW i \in DOMAIN tree.nodes, NEW key \in TableKeys(tree), Above(key) = KeyAt(i)
  PROVE  /\ key[2] = i /\ key = <<tree.prefix, i, key[3]>>
         /\ key[3] \in DOMAIN tree.nodes[i].tables /\ At(tree, key) = tree.nodes[i].tables[key[3]]
         /\ Shape /\ key[3] \in DOMAIN tree'.nodes[i].tables => key \in TableKeys(tree')
<1>1. /\ key[2] = i /\ key = <<tree.prefix, i, key[3]>>
      /\ key[3] \in DOMAIN tree.nodes[i].tables /\ At(tree, key) = tree.nodes[i].tables[key[3]]
  BY TreeKeys DEF TreeOK, PageOK, Above, KeyAt, At
<1>2. ASSUME Shape, key[3] \in DOMAIN tree'.nodes[i].tables
      PROVE  key \in TableKeys(tree')
  <2>1. key = <<tree'.prefix, i, key[3]>> /\ i \in DOMAIN tree'.nodes
    BY <1>1, <1>2 DEF Shape
  <2> QED BY <1>2, <2>1, KeyIn
<1> QED BY <1>1, <1>2

\* What is sent about a table is sent at the node of its database.
LEMMA AtNode ==
  ASSUME TreeOK, InOrder, NEW i \in DOMAIN tree.nodes, tree.nodes[i].loaded,
         NEW n \in 1..Total, Line[n].what \in Altering, Line[n].table.of = NameAt(i)
  PROVE  Above(Line[n].key) = KeyAt(i)
<1>1. Above(Line[n].key) \in DatabaseKeys(tree)
  BY DEF InOrder, OldFirst, Stale
<1>2. PICK j \in DOMAIN tree.nodes : Above(Line[n].key) = KeyAt(j)
  BY <1>1 DEF DatabaseKeys, KeyAt
<1>3. Belongs(Line[n], n <= Done, NameAt(j))
  BY <1>2 DEF InOrder, Owned, Keyed
<1>4. Line[n].table.of = NameAt(j)
  BY <1>3 DEF Belongs, Altering
<1> QED BY <1>2, <1>4 DEF InOrder, Distinct

\* Lists of names, one less or one another.
LEMMA ListsLess ==
  ASSUME NEW f, NEW S, Lists(f, S), NEW p \in DOMAIN f, NEW g, g = [j \in DOMAIN f \ {p} |-> f[j]]
  PROVE  Lists(g, S \ {f[p].name}) /\ f[p].name \in S
<1>1. DOMAIN g = DOMAIN f \ {p} /\ \A j \in DOMAIN g : g[j] = f[j]
  OBVIOUS
<1>2. \A j \in DOMAIN g : f[j].name # f[p].name
  BY <1>1 DEF Lists
<1>3. {g[j].name : j \in DOMAIN g} = S \ {f[p].name}
  <2>1. ASSUME NEW x \in {g[j].name : j \in DOMAIN g}
        PROVE  x \in S \ {f[p].name}
    BY <1>1, <1>2 DEF Lists
  <2>2. ASSUME NEW x \in S, x # f[p].name
        PROVE  x \in {g[j].name : j \in DOMAIN g}
    <3>1. PICK j \in DOMAIN f : x = f[j].name
      BY DEF Lists
    <3>2. j \in DOMAIN g /\ g[j].name = x
      BY <1>1, <2>2, <3>1
    <3> QED BY <3>2
  <2> QED BY <2>1, <2>2
<1> QED BY <1>1, <1>3 DEF Lists

LEMMA ListsOther ==
  ASSUME NEW f, NEW S, Lists(f, S), NEW p \in DOMAIN f, NEW g, DOMAIN g = DOMAIN f,
         \A j \in DOMAIN f \ {p} : g[j] = f[j], g[p].name \notin S
  PROVE  Lists(g, (S \ {f[p].name}) \cup {g[p].name}) /\ f[p].name \in S
<1>1. ASSUME NEW x \in {g[j].name : j \in DOMAIN g}
      PROVE  x \in (S \ {f[p].name}) \cup {g[p].name}
  <2>1. PICK j \in DOMAIN f : x = g[j].name
    OBVIOUS
  <2>2. CASE j = p
    BY <2>1, <2>2
  <2>3. CASE j # p
    BY <2>1, <2>3 DEF Lists
  <2> QED BY <2>2, <2>3
<1>2. ASSUME NEW x \in (S \ {f[p].name}) \cup {g[p].name}
      PROVE  x \in {g[j].name : j \in DOMAIN g}
  <2>1. CASE x = g[p].name
    BY <2>1
  <2>2. CASE x \in S \ {f[p].name}
    <3>1. PICK j \in DOMAIN f : x = f[j].name
      BY <2>2 DEF Lists
    <3>2. j # p /\ g[j].name = x
      BY <2>2, <3>1
    <3> QED BY <3>1, <3>2
  <2> QED BY <1>2, <2>1, <2>2
<1>3. \A j, l \in DOMAIN g : g[j].name = g[l].name => j = l
  <2> TAKE j \in DOMAIN g, l \in DOMAIN g
  <2>1. f[j].name \in S /\ f[l].name \in S
    BY DEF Lists
  <2>2. CASE j # p /\ l # p
    BY <2>2 DEF Lists
  <2>3. CASE j = p \/ l = p
    BY <2>1, <2>3
  <2> QED BY <2>2, <2>3
<1>4. f[p].name \in S
  BY DEF Lists
<1> QED BY <1>1, <1>2, <1>3, <1>4 DEF Lists

\* The answer lists the tables.
LEMMA TruthListed ==
  ASSUME TreeOK, TreeOK', Advances(1), Shape, DropsFirst, NEW i \in DOMAIN tree.nodes,
         1 \in 1..Total, Line[1].what = "tables", Line[1].key = KeyAt(i), Line[1] \in Result, ByAnswer(Line[1]),
         Len(jsonObject) = 1, Total' = Total - 1, NEW S, Lists(Line[1].children, S)
  PROVE  Truth(i, S)'
<1> DEFINE a == Line[1]
<1>0. /\ ServerOK /\ ServerOK' /\ tree \in Tree /\ kind' = kind /\ KeyAt(i)' = KeyAt(i) /\ Pointed' = Pointed
      /\ Total \in Nat /\ Total' \in Nat
  BY LineTyped, LineTypedNext DEF TreeOK, PageOK, Advances, Shape, KeyAt, ByAnswer, Pointed
<1>1. tree' = Relisted(tree, a.key, a.children) /\ ~Shifted(tree', a.key) /\ a.children \in Placed(Table)
  BY ResultParts DEF ByAnswer, Teaches, DatabaseKeys, KeyAt
<1>2. tree'.nodes[i].tables = a.children
  <2>1. a.key[2] = i
    BY DEF KeyAt
  <2>2. tree'.nodes[a.key[2]] = [name |-> tree.nodes[a.key[2]].name, tables |-> a.children, loaded |-> TRUE]
    BY <1>0, <1>1, <2>1, RelistedTree
  <2> QED BY <2>1, <2>2
<1>3. \A r \in References : Above(r[1]) = KeyAt(i) => r[1] \in TableKeys(tree')
  BY <1>1 DEF Shifted
<1>4. ASSUME NEW n \in 1..Total'
      PROVE  n + 1 \in 1..Total /\ n + 1 > Len(jsonObject) /\ Alike(Line'[n], Line[n + 1])
  <2>1. n + 1 \in 1..Total /\ n + 1 # Total + 1 /\ n + 1 > Len(jsonObject)
    BY <1>0
  <2> QED BY <1>0, <2>1, Where
<1>5. ASSUME NEW n \in 1..Total', DropOf(i, n)'
      PROVE  FALSE
  <2>1. Line'[n].what = "drop" /\ kind = "table"
    BY <1>0, <1>5 DEF DropOf
  <2>2. Line[n + 1].what = "drop"
    BY <1>4, <2>1, AlikeKeyed DEF Keyed, Altering
  <2>3. n + 1 < 1
    BY <1>4, <2>1, <2>2 DEF DropsFirst
  <2> QED BY <1>4, <2>3
<1>6. Leaving(i)' = {}
  <2>1. Leaving(i)' = {Line'[n].table.name : n \in {m \in 1..Total' : DropOf(i, m)'}}
    BY DEF Leaving
  <2> QED BY <1>5, <2>1
<1>7. Lists(Tables(i)', S \ Leaving(i)')
  <2>1. S \ {} = S
    OBVIOUS
  <2> QED BY <1>2, <1>6, <2>1 DEF Tables
<1>8. ASSUME NEW n \in 1..Total', Line'[n].what = Due, Above(Line'[n].key) = KeyAt(i)
      PROVE  Line'[n].key \in TableKeys(tree')
  <2>1. Line[n + 1].what \in {"rename", "drop"} /\ Line[n + 1].key = Line'[n].key
    BY <1>4, <1>8, AlikeKeyed DEF Due, Keyed, Altering
  <2>2. <<Line[n + 1].key, Line[n + 1].table>> \in References
    BY <1>0, <1>4, <2>1, KnownLine
  <2> QED BY <1>3, <1>8, <2>1, <2>2
<1>9. \A x \in Pointed' : x.key \in Leaf /\ Above(x.key) = KeyAt(i) => x.key \in TableKeys(tree')
  <2> SUFFICES ASSUME NEW x \in Pointed, x.key \in Leaf, Above(x.key) = KeyAt(i)
               PROVE  x.key \in TableKeys(tree')
    BY <1>0
  <2>1. <<x.key, x.title>> \in References
    BY KnownNode
  <2> QED BY <1>3, <2>1
<1>10. Due' = Due
  BY <1>0 DEF Due
<1> QED BY <1>0, <1>5, <1>7, <1>8, <1>9, <1>10 DEF Truth, Findable

\* A table less.
LEMMA TablesWithout ==
  ASSUME tree \in Tree, NEW k \in TableKeys(tree), NEW i \in DOMAIN tree.nodes, k[2] = i, tree' = Without(tree, k)
  PROVE  tree'.nodes[i].tables = [j \in DOMAIN tree.nodes[i].tables \ {k[3]} |-> tree.nodes[i].tables[j]]
<1> DEFINE less == [j \in DOMAIN tree.nodes[i].tables \ {k[3]} |-> tree.nodes[i].tables[j]]
<1>1. less \in Placed(Table) /\ tree' = Relisted(tree, k, less)
  BY WithoutIs
<1> HIDE DEF less
<1>2. tree'.nodes[i] = [name |-> tree.nodes[i].name, tables |-> less, loaded |-> TRUE]
  BY <1>1, RelistedTree
<1> QED BY <1>2 DEF less

\* The answer says that a routine was dropped.
LEMMA TruthDropped ==
  ASSUME TreeOK, TreeOK', Agreement, Advances(1), Shape, NEW i \in DOMAIN tree.nodes, NEW S, Truth(i, S),
         1 \in 1..Total, Line[1].what = "drop", Above(Line[1].key) = KeyAt(i), ByAnswer(Line[1]),
         kind = "routine", Total' = Total - 1, NEW S1, S1 = S \ {Line[1].table.name}
  PROVE  Truth(i, S1)'
<1> DEFINE a == Line[1]
<1>0. /\ ServerOK /\ tree \in Tree /\ kind' = kind /\ Pointed' = Pointed /\ Total \in Nat
      /\ tree' = Without(tree, a.key) /\ \A n \in 1..Total : ~DropOf(i, n)
  BY LineTyped DEF TreeOK, PageOK, ByAnswer, Teaches, Pointed, DropOf
<1>1. Leaving(i) = {} /\ LeavingAfter(i, 1) = {}
  BY <1>0 DEF Leaving, LeavingAfter
<1>2. Lists(tree.nodes[i].tables, S)
  <2>1. S \ {} = S
    OBVIOUS
  <2> QED BY <1>1, <2>1 DEF Truth, Tables
<1>3. \A n \in 1..Total' : n + 1 # Total + 1
  BY <1>0
<1>4. <<a.key, a.table>> \in Known
  BY <1>0, KnownLine
<1>5. Findable(tree, i, a.key, a.table)
  BY DEF Truth, Due
<1> HIDE DEF a
<1>6. CASE a.key \notin TableKeys(tree)
  <2>1. tree' = tree
    BY <1>0, <1>6 DEF Without
  <2>2. a.table.name \notin {tree.nodes[i].tables[j].name : j \in DOMAIN tree.nodes[i].tables}
    BY <1>5, <1>6 DEF Findable
  <2>3. S1 = S
    BY <1>2, <2>2 DEF Lists, a
  <2>4. Lists(tree'.nodes[i].tables, S1 \ LeavingAfter(i, 1))
    BY <1>1, <1>2, <2>1, <2>3
  <2> QED BY <1>0, <1>3, <2>1, <2>4, TruthByStep
<1>7. CASE a.key \in TableKeys(tree)
  <2> DEFINE p == a.key[3]
             f == tree.nodes[i].tables
             g == tree'.nodes[i].tables
  <2>1. a.key[2] = i /\ a.key = <<tree.prefix, i, p>> /\ p \in DOMAIN f /\ At(tree, a.key) = f[p]
    BY <1>7, KeyOf DEF a
  <2>2. f[p] = a.table
    BY <1>4, <1>7, <2>1 DEF Agreement
  <2>3. g = [j \in DOMAIN f \ {p} |-> f[j]]
    BY <1>0, <1>7, <2>1, TablesWithout
  <2>f. Lists(f, S)
    BY <1>2
  <2> HIDE DEF p, f, g
  <2>4. Lists(g, S \ {f[p].name})
    BY <2>1, <2>3, <2>f, ListsLess
  <2>5. Lists(g, S1 \ LeavingAfter(i, 1)) /\ S1 \ LeavingAfter(i, 1) = S \ {a.table.name}
    BY <1>1, <2>2, <2>4 DEF a
  <2>6. \A r \in Known : Above(r[1]) = KeyAt(i) /\ Findable(tree, i, r[1], r[2]) => Findable(tree', i, r[1], r[2])
    <3> SUFFICES ASSUME NEW r \in Known, Above(r[1]) = KeyAt(i), Findable(tree, i, r[1], r[2])
                 PROVE  Findable(tree', i, r[1], r[2])
      OBVIOUS
    <3>1. DOMAIN g = DOMAIN f \ {p} /\ \A j \in DOMAIN g : g[j] = f[j]
      BY <2>3
    <3>2. CASE r[1] \notin TableKeys(tree)
      <4>1. \A j \in DOMAIN f : f[j].name # r[2].name
        BY <3>2 DEF Findable, f
      <4> QED BY <3>1, <4>1 DEF Findable, g
    <3>3. CASE r[1] = a.key
      <4>1. r[2] = a.table
        BY <1>4, <3>3 DEF Agreement
      <4>2. \A j \in DOMAIN g : g[j].name # a.table.name
        BY <2>5 DEF Lists
      <4> QED BY <4>1, <4>2 DEF Findable, g
    <3>4. CASE r[1] \in TableKeys(tree) /\ r[1] # a.key
      <4>1. r[1] = <<tree.prefix, i, r[1][3]>> /\ r[1][3] \in DOMAIN f
        BY <3>4, KeyOf DEF f
      <4>2. r[1][3] \in DOMAIN g
        BY <2>1, <3>1, <3>4, <4>1
      <4> QED BY <3>4, <4>2, KeyOf DEF Findable, g
    <3> QED BY <3>2, <3>3, <3>4
  <2> QED BY <1>0, <1>3, <2>5, <2>6, TruthByStep DEF g
<1> QED BY <1>6, <1>7

\* The answer says that a table was renamed.
LEMMA TruthRenamed ==
  ASSUME TreeOK, TreeOK', Agreement, Advances(1), Shape, NEW i \in DOMAIN tree.nodes, NEW S, Truth(i, S), Owned,
         1 \in 1..Total, Line[1].what = "rename", Above(Line[1].key) = KeyAt(i), ByAnswer(Line[1]),
         kind = "table", Total' = Total - 1, Line[1].name \notin S, Line[1].table.name \in S,
         NEW S1, S1 = (S \ {Line[1].table.name}) \cup {Line[1].name}
  PROVE  Truth(i, S1)'
<1> DEFINE a == Line[1]
<1>0. ServerOK /\ tree \in Tree /\ kind' = kind /\ Pointed' = Pointed /\ Total \in Nat
  BY LineTyped DEF TreeOK, PageOK, ByAnswer, Pointed
<1>1. \A m \in 1..Total : DropOf(i, m) => m > 1
  BY <1>0 DEF DropOf
<1>2. LeavingAfter(i, 1) = Leaving(i)
  BY <1>1 DEF Leaving, LeavingAfter
<1>3. \A n \in 1..Total' : n + 1 # Total + 1
  BY <1>0
<1>4. /\ a.key \in TableKeys(tree) /\ <<a.key, a.table>> \in Known
      /\ a.name \in Titles /\ a.table \in Table
  BY <1>0, KnownLine, LineParts DEF Truth, Due, Findable, Altering
<1>5. tree' = Relisted(tree, a.key, Retitled(a))
  BY <1>4 DEF ByAnswer, Teaches
<1>6. ASSUME NEW n \in 1..Total, DropOf(i, n)
      PROVE  Line[n].table.name \in S /\ Line[n].table.name # a.table.name
  <2>1. Line[n].table.name \in S /\ a.table # Line[n].table
    BY <1>1, <1>6 DEF Truth
  <2>2. Line[n].table \in Table /\ Line[n].table.of = NameAt(i) /\ a.table.of = NameAt(i)
    BY <1>0, <1>6, LineParts DEF DropOf, Owned, Belongs, Keyed, Altering
  <2> QED BY <1>4, <2>1, <2>2 DEF Table
<1> DEFINE p == a.key[3]
           f == tree.nodes[i].tables
           g == tree'.nodes[i].tables
<1>7. /\ a.key[2] = i /\ a.key = <<tree.prefix, i, p>> /\ p \in DOMAIN f /\ At(tree, a.key) = f[p]
  BY <1>4, KeyOf
<1>8. f[p] = a.table
  BY <1>4, <1>7 DEF Agreement
<1>9. /\ DOMAIN g = DOMAIN f /\ g[p] = [of |-> f[p].of, name |-> a.name]
      /\ \A j \in DOMAIN f \ {p} : g[j] = f[j]
  <2>1. /\ DOMAIN tree'.nodes = DOMAIN tree.nodes /\ tree'.prefix = tree.prefix
        /\ a.key[2] = i =>
              /\ DOMAIN tree'.nodes[i].tables = DOMAIN tree.nodes[i].tables /\ a.key[3] \in DOMAIN tree.nodes[i].tables
              /\ tree'.nodes[i].tables[a.key[3]] = [of |-> tree.nodes[i].tables[a.key[3]].of, name |-> a.name]
              /\ \A j \in DOMAIN tree.nodes[i].tables \ {a.key[3]} : tree'.nodes[i].tables[j] = tree.nodes[i].tables[j]
              /\ tree'.nodes[i].name = tree.nodes[i].name /\ tree'.nodes[i].loaded
        /\ a.key[2] # i => tree'.nodes[i] = tree.nodes[i]
    BY <1>0, <1>4, <1>5, RetitledNode
  <2> QED BY <1>7, <2>1
<1>10. Lists(f, S \ Leaving(i))
  BY DEF Truth, Tables
<1> HIDE DEF a, p, f, g
<1>11. g[p].name = a.name
  BY <1>9
<1>12. Lists(g, ((S \ Leaving(i)) \ {a.table.name}) \cup {a.name})
  <2>1. g[p].name \notin S \ Leaving(i)
    BY <1>11 DEF a
  <2>2. Lists(g, ((S \ Leaving(i)) \ {f[p].name}) \cup {g[p].name})
    BY <1>7, <1>9, <1>10, <2>1, ListsOther
  <2> QED BY <1>8, <1>11, <2>2
<1>13. Leaving(i) \subseteq S \ {a.table.name} /\ a.name \notin S
  BY <1>6 DEF Leaving, a
<1>14. S1 \ LeavingAfter(i, 1) = ((S \ Leaving(i)) \ {a.table.name}) \cup {a.name}
  BY <1>2, <1>13 DEF a
<1>15. \A n \in 1..Total : n > 1 /\ DropOf(i, n) => Line[n].table.name \in S1
  BY <1>6 DEF a
<1>16. \A r \in Known : Above(r[1]) = KeyAt(i) /\ Findable(tree, i, r[1], r[2]) => Findable(tree', i, r[1], r[2])
  <2> SUFFICES ASSUME NEW r \in Known, Above(r[1]) = KeyAt(i), Findable(tree, i, r[1], r[2])
               PROVE  r[1] \in TableKeys(tree')
    BY DEF Findable
  <2>1. r[1] \in TableKeys(tree)
    BY DEF Findable
  <2>2. r[1][3] \in DOMAIN f
    BY <2>1, KeyOf DEF f
  <2> QED BY <1>9, <2>1, <2>2, KeyOf DEF g
<1>17. Lists(tree'.nodes[i].tables, S1 \ LeavingAfter(i, 1))
  BY <1>12, <1>14 DEF g
<1> QED BY <1>0, <1>3, <1>15, <1>16, <1>17, TruthByStep

\* A table is dropped on the page, and the statement is sent.
LEMMA TruthByDrop ==
  ASSUME TreeOK, TreeOK', InOrder, Agreement, Advances(0), Total' = Total + 1,
         \A n \in 1..Total : Line'[n] = Line[n], NEW s \in Statement, s = Line'[Total'], Sent(s),
         kind = "table", s.what = "drop",
         NEW i \in DOMAIN tree.nodes, tree.nodes[i].loaded, Above(s.key) = KeyAt(i), NEW S, Truth(i, S), ~Doomed'
  PROVE  Truth(i, S)'
<1>0. /\ ServerOK /\ tree \in Tree /\ kind' = kind /\ Total \in Nat /\ tree' = Without(tree, s.key) /\ Pointed' = {}
  BY LineTyped DEF TreeOK, PageOK, Sent, Advances
<1>1. /\ Shape /\ KeyAt(i)' = KeyAt(i)
  BY <1>0, SameShape DEF Shape, KeyAt
<1>2. /\ dialog # None /\ dialog.node \in Pointed /\ s.key = dialog.node.key /\ s.table = dialog.node.title
      /\ s.key \in Leaf
  BY DEF Sent, Sensible, Altering, Pointed, TreeOK, PageOK, OfDatabase
<1>3. s.key \in TableKeys(tree)
  BY <1>2 DEF Truth, Findable
<1>4. <<s.key, s.table>> \in Known
  BY <1>2, KnownNode DEF Known
<1> DEFINE p == s.key[3]
           f == tree.nodes[i].tables
           g == tree'.nodes[i].tables
<1>5. /\ s.key[2] = i /\ s.key = <<tree.prefix, i, p>> /\ p \in DOMAIN f /\ At(tree, s.key) = f[p]
  BY <1>3, KeyOf
<1>6. f[p] = s.table
  BY <1>3, <1>4, <1>5 DEF Agreement
<1>7. g = [j \in DOMAIN f \ {p} |-> f[j]]
  BY <1>0, <1>3, <1>5, TablesWithout
<1>8. Lists(f, S \ Leaving(i))
  BY DEF Truth, Tables
<1>9. s.table.of = NameAt(i)
  BY <1>5, <1>6 DEF InOrder, Owned, Tables
<1> HIDE DEF f, g, p
<1>10. Lists(g, (S \ Leaving(i)) \ {s.table.name}) /\ s.table.name \in S /\ s.table.name \notin Leaving(i)
  <2>1. Lists(g, (S \ Leaving(i)) \ {f[p].name}) /\ f[p].name \in S \ Leaving(i)
    BY <1>5, <1>7, <1>8, ListsLess
  <2> QED BY <1>6, <2>1
<1>11. /\ 1..Total' = 1..Total \cup {Total'} /\ Total' \notin 1..Total /\ \A m \in 1..Total : m < Total'
  BY <1>0
<1>12. \A n \in 1..Total : DropOf(i, n)' <=> DropOf(i, n)
  BY <1>0, <1>1 DEF DropOf
<1>13. \A n \in 1..Total' : n = Total' => DropOf(i, n)'
  BY <1>0, <1>1 DEF DropOf
<1>14. Leaving(i)' = Leaving(i) \cup {s.table.name}
  <2>1. Leaving(i)' = {Line'[n].table.name : n \in {m \in 1..Total' : DropOf(i, m)'}}
    BY DEF Leaving
  <2>2. {m \in 1..Total' : DropOf(i, m)'} = {m \in 1..Total : DropOf(i, m)} \cup {Total'}
    BY <1>11, <1>12, <1>13
  <2>3. \A n \in {m \in 1..Total : DropOf(i, m)} : Line'[n] = Line[n]
    OBVIOUS
  <2> QED BY <2>1, <2>2, <2>3 DEF Leaving
<1>15. Lists(Tables(i)', S \ Leaving(i)')
  <2>1. (S \ Leaving(i)) \ {s.table.name} = S \ Leaving(i)'
    BY <1>14
  <2> QED BY <1>10, <2>1 DEF g, Tables
<1>16. ASSUME NEW m \in 1..Total, Line[m].what = "rename", Line[m].key = s.key
       PROVE  FALSE
  BY <1>11, <1>16 DEF Doomed
<1>17. ASSUME NEW m \in 1..Total, Line[m].what \in {"rename", "drop"}, Line[m].table = s.table
       PROVE  FALSE
  <2>1. Above(Line[m].key) = KeyAt(i)
    BY <1>9, <1>17, AtNode DEF Altering
  <2>2. CASE Line[m].what = "drop"
    <3>1. s.table.name \in Leaving(i)
      BY <1>17, <2>1, <2>2 DEF Leaving, DropOf
    <3> QED BY <1>10, <3>1
  <2>3. CASE Line[m].what = "rename"
    <3>1. Line[m].key \in TableKeys(tree)
      BY <2>1, <2>3 DEF Truth, Due, Findable
    <3>2. Line[m].key = <<tree.prefix, i, Line[m].key[3]>> /\ Line[m].key[3] \in DOMAIN f /\ At(tree, Line[m].key) = f[Line[m].key[3]]
      BY <2>1, <3>1, KeyOf DEF f
    <3>3. <<Line[m].key, Line[m].table>> \in Known
      BY <1>0, <1>17, KnownLine
    <3>4. f[Line[m].key[3]] = f[p]
      BY <1>6, <1>17, <3>1, <3>2, <3>3 DEF Agreement
    <3>5. Line[m].key[3] = p
      BY <1>5, <1>8, <3>2, <3>4 DEF Lists
    <3> QED BY <1>5, <1>16, <2>3, <3>2, <3>5
  <2> QED BY <1>17, <2>2, <2>3
<1>18. ASSUME NEW n \in 1..Total', DropOf(i, n)'
       PROVE  /\ Line'[n].table.name \in S
              /\ \A m \in 1..Total' : m < n /\ Line'[m].what \in {"rename", "drop"} => Line'[m].table # Line'[n].table
  <2>1. CASE n = Total'
    <3>1. \A m \in 1..Total' : m < n => m \in 1..Total
      BY <1>11, <2>1
    <3> QED BY <1>10, <1>17, <2>1, <3>1
  <2>2. CASE n # Total'
    <3>1. n \in 1..Total /\ DropOf(i, n)
      BY <1>11, <1>12, <1>18, <2>2
    <3>2. /\ Line[n].table.name \in S
          /\ \A m \in 1..Total : m < n /\ Line[m].what \in {"rename", "drop"} => Line[m].table # Line[n].table
      BY <3>1 DEF Truth
    <3>3. \A m \in 1..Total' : m < n => m \in 1..Total
      BY <1>0, <1>11, <3>1
    <3> QED BY <3>1, <3>2, <3>3
  <2> QED BY <2>1, <2>2
<1>19. ASSUME NEW n \in 1..Total', Line'[n].what = Due', Above(Line'[n].key) = KeyAt(i)'
       PROVE  Line'[n].key \in TableKeys(tree')
  <2>1. Line'[n].what = "rename"
    BY <1>0, <1>19 DEF Due
  <2>2. n \in 1..Total /\ Line'[n] = Line[n]
    BY <1>11, <2>1
  <2>3. Line[n].key \in TableKeys(tree) /\ Above(Line[n].key) = KeyAt(i)
    BY <1>1, <1>19, <2>1, <2>2 DEF Truth, Due, Findable
  <2>4. Line[n].key # s.key
    BY <1>16, <2>1, <2>2
  <2>5. Line[n].key = <<tree.prefix, i, Line[n].key[3]>> /\ Line[n].key[3] \in DOMAIN f
    BY <2>3, KeyOf DEF f
  <2>6. Line[n].key[3] \in DOMAIN g
    BY <1>5, <1>7, <2>4, <2>5
  <2>7. Line[n].key \in TableKeys(tree')
    BY <1>1, <2>3, <2>6, KeyOf DEF g
  <2> QED BY <2>2, <2>7
<1> QED BY <1>0, <1>15, <1>18, <1>19 DEF Truth, Findable

-----------------------------------------------------------------------------
\* Every step keeps what the tree has learnt.

\* The tables of the other nodes stay as they are.
LEMMA TablesElsewhere ==
  ASSUME tree \in Tree, NEW i \in DOMAIN tree.nodes
  PROVE  /\ \A k : tree' = Without(tree, k) /\ Above(k) # KeyAt(i) => Tables(i)' = Tables(i)
         /\ \A k : \A f \in Placed(Table) :
              k[2] \in DOMAIN tree.nodes /\ tree' = Relisted(tree, k, f) /\ k[2] # i => Tables(i)' = Tables(i)
<1>1. ASSUME NEW k, NEW f \in Placed(Table), k[2] \in DOMAIN tree.nodes, tree' = Relisted(tree, k, f), k[2] # i
      PROVE  Tables(i)' = Tables(i)
  <2>1. PICK u : u = Relisted(tree, k, f)
    OBVIOUS
  <2>2. /\ u \in Tree /\ DatabaseKeys(u) = DatabaseKeys(tree) /\ u.prefix = tree.prefix
        /\ DOMAIN u.nodes = DOMAIN tree.nodes
        /\ u.nodes[k[2]] = [name |-> tree.nodes[k[2]].name, tables |-> f, loaded |-> TRUE]
        /\ \A l \in DOMAIN tree.nodes \ {k[2]} : u.nodes[l] = tree.nodes[l]
    BY <1>1, <2>1, RelistedTree
  <2> QED BY <1>1, <2>1, <2>2 DEF Tables
<1>2. ASSUME NEW k, tree' = Without(tree, k), Above(k) # KeyAt(i)
      PROVE  Tables(i)' = Tables(i)
  <2>1. CASE k \notin TableKeys(tree)
    BY <1>2, <2>1 DEF Without, Tables
  <2>2. CASE k \in TableKeys(tree)
    <3>1. k[2] \in DOMAIN tree.nodes /\ k[2] # i
      <4>1. k[2] \in DOMAIN tree.nodes /\ k = <<tree.prefix, k[2], k[3]>>
        BY <2>2, TreeKeys
      <4>2. Above(k) = <<tree.prefix, k[2]>>
        BY <4>1 DEF Above
      <4> QED BY <1>2, <4>1, <4>2 DEF KeyAt
    <3> DEFINE less == [j \in DOMAIN tree.nodes[k[2]].tables \ {k[3]} |-> tree.nodes[k[2]].tables[j]]
    <3>2. less \in Placed(Table) /\ tree' = Relisted(tree, k, less)
      BY <1>2, <2>2, <3>1, WithoutIs
    <3> HIDE DEF less
    <3> QED BY <1>1, <3>1, <3>2
  <2> QED BY <2>1, <2>2
<1> QED BY <1>1, <1>2

LEMMA LearntByPage ==
  ASSUME TreeOK, TreeOK', ByPage, InOrder, Agreement, NEW h \in [0..Done -> Snap], LearntFrom(h)
  PROVE  Learnt'
<1>1. /\ Advances(0) /\ Done' = Done /\ Done \in Nat /\ Total \in Nat /\ Done <= Total
      /\ \A n \in 1..Total : Line'[n] = Line[n]
      /\ \/ Total' = Total /\ UNCHANGED <<tree, progress>>
         \/ Total' = Total + 1 /\ Line'[Total'] \in Statement /\ Sent(Line'[Total'])
  BY AdvancesByPage
<1>2. Owned /\ ServerOK /\ ServerOK' /\ tree \in Tree /\ UNCHANGED store /\ Shape
  BY <1>1 DEF InOrder, TreeOK, PageOK, ByPage, Advances
<1>3. Follows(tree', {})
  <2>1. UNCHANGED tree \/ \E k : tree' = Without(tree, k)
    BY <1>1 DEF Sent
  <2> QED BY <1>2, <2>1, SortedTrees
<1>4. Chain(h)'
  BY <1>1, <1>2, ChainKept DEF LearntFrom
<1>5. Renewal => Renewal'
  BY <1>1, <1>2, RenewalStays
<1>6. Doomed => Doomed'
  BY <1>1, <1>2, DoomedStays
<1>7. ASSUME AllTrue(h), ~Doomed', NEW i \in DOMAIN tree'.nodes, tree'.nodes[i].loaded, Listed(i)',
             NEW S, S = h[0][NameAt(i)']
      PROVE  Truth(i, S)'
  <2>1. i \in DOMAIN tree.nodes /\ tree.nodes[i].loaded /\ NameAt(i)' = NameAt(i)
    BY <1>2, <1>3, <1>7 DEF Shape, Follows, NameAt
  <2>2. Truth(i, S)
    <3>1. Listed(i)
      BY <1>1, <1>2, <1>7, ListedBefore
    <3> QED BY <1>7, <2>1, <3>1 DEF AllTrue
  <2>3. CASE Total' = Total /\ UNCHANGED tree
    <3>1. Tables(i)' = Tables(i)
      BY <2>3 DEF Tables
    <3>2. \A n \in 1..Total' : n + 0 # Total + 1
      BY <1>1, <2>3
    <3> QED BY <1>1, <1>2, <2>1, <2>2, <3>1, <3>2, TruthKept
  <2>4. CASE Total' = Total + 1 /\ Line'[Total'] \in Statement /\ Sent(Line'[Total'])
    <3> DEFINE s == Line'[Total']
    <3>1. CASE s.what = "drop" /\ kind = "table" /\ Above(s.key) = KeyAt(i)
      BY <1>1, <1>7, <2>1, <2>2, <2>4, <3>1, TruthByDrop
    <3>2. CASE ~(s.what = "drop" /\ kind = "table" /\ Above(s.key) = KeyAt(i))
      <4>1. Tables(i)' = Tables(i)
        <5>1. tree' = tree \/ (tree' = Without(tree, s.key) /\ Above(s.key) # KeyAt(i))
          BY <2>4, <3>2 DEF Sent
        <5> QED BY <1>2, <2>1, <5>1, TablesElsewhere DEF Tables
      <4>2. kind' = kind /\ KeyAt(i)' = KeyAt(i)
        BY <1>1, <1>2 DEF Advances, Shape, KeyAt
      <4>3. \A n \in 1..Total' : n + 0 = Total + 1 => ~DropOf(i, n)'
        <5> SUFFICES ASSUME NEW n \in 1..Total', n + 0 = Total + 1, DropOf(i, n)' PROVE FALSE
          OBVIOUS
        <5>1. n = Total'
          BY <1>1, <2>4
        <5> QED BY <3>2, <4>2, <5>1 DEF DropOf
      <4> HIDE DEF s
      <4> QED BY <1>1, <1>2, <2>1, <2>2, <4>1, <4>3, TruthKept
    <3> QED BY <3>1, <3>2
  <2> QED BY <1>1, <2>3, <2>4
<1>8. AllTrue(h) /\ ~Doomed' => AllTrue(h)'
  BY <1>7 DEF AllTrue
<1>9. LearntFrom(h)'
  BY <1>4, <1>5, <1>6, <1>8 DEF LearntFrom
<1> QED BY <1>1, <1>9 DEF Learnt

\* Where the tree is left as it is, and all there is in the line has its place.
LEMMA AllTrueKept ==
  ASSUME TreeOK, TreeOK', InOrder, Advances(0), Total' = Total, UNCHANGED tree,
         NEW h, AllTrue(h), NEW g, g[0] = h[0]
  PROVE  AllTrue(g)'
<1>1. Owned /\ ServerOK /\ ServerOK' /\ Shape /\ Total \in Nat
  BY LineTyped DEF InOrder, TreeOK, Shape
<1>2. ASSUME NEW i \in DOMAIN tree'.nodes, tree'.nodes[i].loaded, Listed(i)', NEW S, S = g[0][NameAt(i)']
      PROVE  Truth(i, S)'
  <2>1. i \in DOMAIN tree.nodes /\ tree.nodes[i].loaded /\ NameAt(i)' = NameAt(i) /\ Tables(i)' = Tables(i)
    BY <1>2 DEF NameAt, Tables
  <2>2. Truth(i, S)
    <3>1. Listed(i)
      BY <1>1, <1>2, ListedBefore
    <3> QED BY <1>2, <2>1, <3>1 DEF AllTrue
  <2>3. \A n \in 1..Total' : n + 0 # Total + 1
    BY <1>1
  <2> QED BY <1>1, <2>1, <2>2, <2>3, TruthKept
<1> QED BY <1>2 DEF AllTrue

LEMMA LearntByExecute ==
  ASSUME TreeOK, TreeOK', Execute, harm' = {}, InOrder, NEW h \in [0..Done -> Snap], LearntFrom(h)
  PROVE  Learnt'
<1>1. Owned /\ ServerOK /\ ServerOK' /\ UNCHANGED tree /\ Chain(h)
  BY DEF InOrder, TreeOK, Execute, LearntFrom
<1>2. PICK g \in [0..Done' -> Snap] : Chain(g)' /\ g[0] = h[0]
  <2> DEFINE f == [n \in 0..(Done + 1) |-> IF n <= Done THEN h[n] ELSE Now']
  <2>1. \E g : g = f
    OBVIOUS
  <2> HIDE DEF f
  <2>2. PICK g : g = f
    BY <2>1
  <2>3. g \in [0..Done' -> Snap] /\ Chain(g)' /\ g[0] = h[0]
    BY <1>1, <2>2, ChainExecuted DEF f
  <2> QED BY <2>3
<1>3. Advances(0) /\ Total' = Total
  BY <1>1, AdvancesByExecute, LineExecuted
<1>4. Renewal => Renewal'
  BY <1>1, <1>3, RenewalStays
<1>5. Doomed => Doomed'
  BY <1>1, <1>3, DoomedStays
<1>6. AllTrue(h) => AllTrue(g)'
  BY <1>1, <1>2, <1>3, AllTrueKept
<1>7. LearntFrom(g)'
  BY <1>2, <1>4, <1>5, <1>6 DEF LearntFrom
<1> QED BY <1>2, <1>7 DEF Learnt

LEMMA LearntByArrive ==
  ASSUME TreeOK, TreeOK', Arrive, harm' = {}, InOrder, NEW h \in [0..Done -> Snap], LearntFrom(h)
  PROVE  Learnt'
<1>1. Owned /\ ServerOK /\ ServerOK' /\ UNCHANGED <<tree, store>> /\ Chain(h) /\ Done \in Nat
  BY LineTyped DEF InOrder, TreeOK, Arrive, LearntFrom, server
<1>2. Advances(0) /\ Done' = Done /\ Total' = Total /\ Line' = Line
  BY <1>1, AdvancesByArrive, LineArrived
<1>3. Chain(h)'
  <2>1. Shape
    BY <1>1 DEF Shape
  <2> QED BY <1>1, <1>2, <2>1, ChainKept
<1>4. Renewal => Renewal'
  BY <1>1, <1>2, RenewalStays
<1>5. Doomed => Doomed'
  BY <1>1, <1>2, DoomedStays
<1>6. AllTrue(h) => AllTrue(h)'
  BY <1>1, <1>2, AllTrueKept
<1>7. LearntFrom(h)'
  BY <1>3, <1>4, <1>5, <1>6 DEF LearntFrom
<1> QED BY <1>2, <1>7 DEF Learnt

\* The answer is about another node than i: nothing changes there.
LEMMA TruthElsewhere ==
  ASSUME TreeOK, TreeOK', InOrder, Advances(1), Shape, NEW i \in DOMAIN tree.nodes, tree.nodes[i].loaded,
         1 \in 1..Total, Line[1] \in Result, ByAnswer(Line[1]), Line[1].what \notin {"databases", "executed"},
         Line[1].what \in Keyed => Above(Line[1].key) # KeyAt(i),
         \A n \in 1..Total' : n + 1 = Total + 1 => Line'[n].what # "drop",
         NEW S, Truth(i, S), NEW S1, S1 = Turned(Line[1], NameAt(i), S)
  PROVE  Truth(i, S1)'
<1> DEFINE a == Line[1]
<1>0. Owned /\ tree \in Tree
  BY DEF InOrder, TreeOK, PageOK
<1>1. S1 = S
  <2>1. a.what \in Altering => a.table.of # NameAt(i)
    BY AtNode DEF Keyed
  <2> QED BY <2>1 DEF Turned
<1>2. ~DropOf(i, 1)
  BY DEF DropOf, Keyed, Altering
<1>3. \A n \in 1..Total' : n + 1 = Total + 1 => ~DropOf(i, n)'
  BY DEF DropOf
<1>4. a \in Result /\ Teaches(a) /\ (a.what \in Keyed => Above(a.key) # KeyAt(i))
  BY DEF ByAnswer
<1> HIDE DEF a
<1>5. Tables(i)' = Tables(i)
  <2>1. CASE a.what = "tables" /\ a.key \in DatabaseKeys(tree)
    <3>1. tree' = Relisted(tree, a.key, a.children) /\ a.key \in Root /\ a.children \in Placed(Table)
      BY <1>4, <2>1, ResultParts DEF Teaches
    <3>2. a.key[2] \in DOMAIN tree.nodes /\ a.key[2] # i
      BY <1>0, <1>4, <2>1, <3>1, TreeKeys, KeyParts DEF Keyed, DatabaseKeys, KeyAt
    <3> QED BY <1>0, <3>1, <3>2, TablesElsewhere
  <2>2. CASE a.what = "rename" /\ a.key \in TableKeys(tree)
    <3>1. tree' = Relisted(tree, a.key, Retitled(a)) /\ a.name \in Titles
      BY <1>4, <2>2, ResultParts DEF Teaches
    <3>2. a.key[2] # i
      <4>1. a.key = <<tree.prefix, a.key[2], a.key[3]>>
        BY <1>0, <2>2, TreeKeys
      <4>2. Above(a.key) = <<tree.prefix, a.key[2]>>
        BY <4>1 DEF Above
      <4> QED BY <1>4, <2>2, <4>2 DEF KeyAt, Keyed, Altering
    <3>3. \A l \in DOMAIN tree.nodes :
            /\ DOMAIN tree'.nodes = DOMAIN tree.nodes /\ tree'.prefix = tree.prefix
            /\ a.key[2] = l =>
                /\ DOMAIN tree'.nodes[l].tables = DOMAIN tree.nodes[l].tables /\ a.key[3] \in DOMAIN tree.nodes[l].tables
                /\ tree'.nodes[l].tables[a.key[3]] = [of |-> tree.nodes[l].tables[a.key[3]].of, name |-> a.name]
                /\ \A j \in DOMAIN tree.nodes[l].tables \ {a.key[3]} : tree'.nodes[l].tables[j] = tree.nodes[l].tables[j]
                /\ tree'.nodes[l].name = tree.nodes[l].name /\ tree'.nodes[l].loaded
            /\ a.key[2] # l => tree'.nodes[l] = tree.nodes[l]
      BY <1>0, <2>2, <3>1, RetitledNode
    <3> QED BY <3>2, <3>3 DEF Tables
  <2>3. CASE /\ ~(a.what = "tables" /\ a.key \in DatabaseKeys(tree))
             /\ ~(a.what = "rename" /\ a.key \in TableKeys(tree))
    <3>1. tree' = tree \/ (tree' = Without(tree, a.key) /\ a.what = "drop")
      BY <1>4, <2>3 DEF Teaches, a
    <3> QED BY <1>0, <1>4, <3>1, TablesElsewhere DEF Keyed, Altering, Tables
  <2> QED BY <2>1, <2>2, <2>3
<1> QED BY <1>0, <1>1, <1>2, <1>3, <1>5, TruthKept

\* The answer drops or renames a table of node i.
LEMMA TruthAltered ==
  ASSUME TreeOK, TreeOK', InOrder, Agreement, Advances(1), Shape,
         NEW i \in DOMAIN tree.nodes, Done >= 1, Total' = Total - 1,
         1 \in 1..Total, Line[1] \in Result, ByAnswer(Line[1]), Line[1].what \in {"rename", "drop"},
         Above(Line[1].key) = KeyAt(i),
         NEW S, Truth(i, S), NEW S1, S1 = Turned(Line[1], NameAt(i), S),
         Line[1].table.name \in S, Line[1].what = "rename" => Line[1].name \notin S
  PROVE  Truth(i, S1)'
<1>0. Owned /\ tree \in Tree /\ Total \in Nat /\ kind \in Kinds
  BY LineTyped DEF InOrder, TreeOK, PageOK, ServerOK
<1>1. Line[1].table.of = NameAt(i)
  <2>1. Belongs(Line[1], 1 <= Done, NameAt(i))
    BY <1>0 DEF Owned, Keyed, Altering
  <2> QED BY <2>1 DEF Belongs
<1>2. \A n \in 1..Total' : n + 1 # Total + 1
  BY <1>0
<1>3. CASE Line[1].what = "drop" /\ kind = "table"
  <2>1. tree' = tree /\ DropOf(i, 1)
    BY <1>3 DEF ByAnswer, Teaches, DropOf
  <2>2. Tables(i)' = Tables(i)
    BY <2>1 DEF Tables
  <2>3. S1 = S \ {Line[1].table.name}
    BY <1>1, <1>3 DEF Turned, Altering
  <2> QED BY <1>0, <1>2, <2>1, <2>2, <2>3, TruthKept
<1>4. CASE Line[1].what = "drop" /\ kind = "routine"
  <2>1. S1 = S \ {Line[1].table.name}
    BY <1>1, <1>4 DEF Turned, Altering
  <2> QED BY <1>4, <2>1, TruthDropped
<1>5. CASE Line[1].what = "rename"
  <2>1. kind = "table"
    BY <1>0, <1>5 DEF InOrder, Routines, Kinds
  <2>2. S1 = (S \ {Line[1].table.name}) \cup {Line[1].name}
    BY <1>1, <1>5 DEF Turned, Altering
  <2> QED BY <1>0, <1>5, <2>1, <2>2, TruthRenamed
<1> QED BY <1>0, <1>3, <1>4, <1>5 DEF Kinds

LEMMA LearntByAnswer ==
  ASSUME TreeOK, TreeOK', jsonObject # <<>>, jsonObject' = <<>>, Done \in Nat \ {0},
         Line[1] \in Result, ByAnswer(Line[1]), InOrder, Agreement,
         NEW h \in [0..Done -> Snap], LearntFrom(h)
  PROVE  Learnt'
<1>1. /\ Advances(1) /\ Done' = Done - 1 /\ Total \in Nat /\ Done <= Total
      /\ \A n \in 1..(Total - 1) : Line'[n] = Line[n + 1]
      /\ \/ Line[1].what \notin {"executed", "create"} /\ Total' = Total - 1
         \/ /\ Line[1].what \in {"executed", "create"} /\ Total' = Total
            /\ Line'[Total'] \in Statement /\ Sensible(Line'[Total'])
            /\ Line[1].what = "executed" => Line'[Total'].what = "databases"
            /\ Line[1].what = "create" => /\ Line'[Total'].what = "tables" /\ Line'[Total'].key = Line[1].key
                                          /\ Line'[Total'].of = Line[1].table.of
  BY AdvancesByAnswer
<1>2. /\ Owned /\ Aged /\ DropsFirst /\ ServerOK /\ ServerOK' /\ tree \in Tree /\ UNCHANGED store
      /\ Chain(h) /\ Len(jsonObject) = 1 /\ 1 \in 1..Total /\ 1 <= Done
  <2>1. Owned /\ Aged /\ DropsFirst /\ ServerOK /\ ServerOK' /\ tree \in Tree /\ UNCHANGED store /\ Chain(h)
    BY DEF InOrder, TreeOK, PageOK, ByAnswer, LearntFrom
  <2>2. jsonObject \in Seq(Result) /\ Len(jsonObject) <= 1
    BY <2>1 DEF ServerOK
  <2>3. Len(jsonObject) \in Nat /\ Len(jsonObject) # 0
    BY <2>2, LenProperties
  <2>4. Len(jsonObject) = 1
    BY <2>2, <2>3
  <2>5. 1 <= Done /\ 1 \in 1..Total
    BY <1>1
  <2> QED BY <2>1, <2>4, <2>5
<1>3. Shape \/ Renewed
  BY <1>1 DEF Advances
<1>3a. Leads(Line[1], h[0], h[1]) /\ \E g \in [0..Done' -> Snap] : Chain(g)' /\ g[0] = h[1]
  <2> DEFINE f == [n \in 0..(Done - 1) |-> h[n + 1]]
  <2>1. \E g : g = f
    OBVIOUS
  <2> HIDE DEF f
  <2>2. PICK g : g = f
    BY <2>1
  <2>3. g \in [0..Done' -> Snap] /\ Chain(g)' /\ g[0] = h[1] /\ Leads(Line[1], h[0], h[1])
    BY <1>1, <1>2, <1>3, <2>2, ChainWorked DEF f
  <2> QED BY <2>3
<1>4. PICK g \in [0..Done' -> Snap] : Chain(g)' /\ g[0] = h[1]
  BY <1>3a
<1>5. Doomed => Doomed'
  BY <1>1, <1>2, DoomedStays
<1>6. Line[1].what = "executed" => Renewal'
  BY <1>1, <1>2 DEF Renewal, Renewing
<1>7. Renewal => Renewal' \/ Line[1].what = "databases"
  <2>1. Line[1].what = "executed" => Total' \in 1..Total' /\ Line'[Total'].what = "databases"
    BY <1>1, <1>2
  <2> QED BY <1>1, <1>2, <2>1, RenewalStays
<1>8. Line[1].what = "databases" => AllTrue(g)'
  <2>1. Line[1].what = "databases" => tree' = Fresh(Line[1])
    BY DEF ByAnswer, Teaches
  <2>2. Line[1].what = "databases" => \A i \in DOMAIN tree'.nodes : ~tree'.nodes[i].loaded
    BY <2>1 DEF Fresh
  <2> QED BY <2>2 DEF AllTrue
<1>9. ASSUME AllTrue(h), Line[1].what \notin {"databases", "executed"},
             NEW i \in DOMAIN tree'.nodes, tree'.nodes[i].loaded, Listed(i)', NEW S1, S1 = g[0][NameAt(i)']
      PROVE  Truth(i, S1)'
  <2>1. Shape /\ i \in DOMAIN tree.nodes /\ NameAt(i)' = NameAt(i) /\ KeyAt(i)' = KeyAt(i)
    BY <1>3, <1>9 DEF Shape, Renewed, NameAt, KeyAt
  <2>2. S1 = h[1][NameAt(i)]
    BY <1>4, <1>9, <2>1
  <2>3. CASE Line[1].what = "tables" /\ Line[1].key = KeyAt(i)
    <3>1. 1 \in 1..Done /\ Total' = Total - 1
      BY <1>1, <1>2, <2>3
    <3>2. Lists(Line[1].children, S1)
      BY <1>2, <2>1, <2>2, <2>3, <3>1 DEF Chain
    <3> QED BY <1>1, <1>2, <2>1, <2>3, <3>1, <3>2, TruthListed
  <2>4. CASE Line[1].what = "create" /\ Line[1].key = KeyAt(i)
    <3>1. Total' \in 1..Total' /\ Line'[Total'].what = "tables" /\ Line'[Total'].key = KeyAt(i)'
      BY <1>1, <1>2, <2>1, <2>4
    <3> QED BY <1>9, <3>1 DEF Listed
  <2>5. CASE ~(Line[1].what \in {"tables", "create"} /\ Line[1].key = KeyAt(i))
    <3>1. Listed(i)
      BY <1>1, <1>2, <1>9, <2>1, <2>5, ListedBefore
    <3>2. tree.nodes[i].loaded
      <4>1. Follows(tree', IF Line[1].what = "tables" /\ Line[1].key \in DatabaseKeys(tree)
                           THEN {Line[1].key[2]} ELSE {})
        BY <1>2, <2>1, FollowsAnswer
      <4>2. Line[1].what = "tables" /\ Line[1].key \in DatabaseKeys(tree) => Line[1].key[2] # i
        BY <2>5 DEF DatabaseKeys, KeyAt
      <4> QED BY <1>9, <2>1, <4>1, <4>2 DEF Follows
    <3> DEFINE S == h[0][NameAt(i)]
    <3>3. Truth(i, S)
      BY <1>9, <2>1, <3>1, <3>2 DEF AllTrue
    <3>4. /\ S1 = Turned(Line[1], NameAt(i), S)
          /\ Line[1].what \in {"rename", "drop"} => Line[1].table.name \in h[0][Line[1].table.of]
          /\ Line[1].what = "rename" => Line[1].name \notin h[0][Line[1].table.of]
      <4>1. NameAt(i) \in Databases
        BY <1>2, <2>1, TreeKeys DEF NameAt, Nodes
      <4> QED BY <1>3a, <1>4, <1>9, <2>2, <4>1 DEF Leads
    <3> HIDE DEF S
    <3>5. CASE Line[1].what \in {"rename", "drop"} /\ Above(Line[1].key) = KeyAt(i)
      <4>1. Total' = Total - 1
        BY <1>1, <3>5
      <4>2. Line[1].table.of = NameAt(i)
        <5>1. Belongs(Line[1], 1 <= Done, NameAt(i))
          BY <1>2, <2>1, <3>5 DEF Owned, Keyed, Altering
        <5> QED BY <3>5, <5>1 DEF Belongs
      <4>3. Line[1].table.name \in S /\ (Line[1].what = "rename" => Line[1].name \notin S)
        BY <3>4, <3>5, <4>2 DEF S
      <4> QED BY <1>1, <1>2, <2>1, <3>3, <3>4, <3>5, <4>1, <4>3, TruthAltered
    <3>6. CASE ~(Line[1].what \in {"rename", "drop"} /\ Above(Line[1].key) = KeyAt(i))
      <4>1. Line[1].what \in Keyed => Above(Line[1].key) # KeyAt(i)
        <5>1. Line[1].what \in {"tables", "create"} => Above(Line[1].key) = Line[1].key
          BY ResultParts, KeyParts
        <5> QED BY <2>5, <3>6, <5>1 DEF Keyed, Altering
      <4>2. \A n \in 1..Total' : n + 1 = Total + 1 => Line'[n].what # "drop"
        <5> SUFFICES ASSUME NEW n \in 1..Total', n + 1 = Total + 1 PROVE Line'[n].what # "drop"
          OBVIOUS
        <5>1. n = Total
          BY <1>1
        <5>2. n = Total' /\ Line[1].what = "create"
          BY <1>1, <1>9, <5>1
        <5> QED BY <1>1, <5>2
      <4> QED BY <1>1, <1>2, <1>9, <2>1, <3>2, <3>3, <3>4, <4>1, <4>2, TruthElsewhere
    <3> QED BY <3>5, <3>6
  <2> QED BY <2>3, <2>4, <2>5
<1>10. AllTrue(h) /\ Line[1].what \notin {"databases", "executed"} => AllTrue(g)'
  BY <1>9 DEF AllTrue
<1>11. LearntFrom(g)'
  BY <1>4, <1>5, <1>6, <1>7, <1>8, <1>10 DEF LearntFrom
<1> QED BY <1>4, <1>11 DEF Learnt

-----------------------------------------------------------------------------
\* As long as there is no mishap, the line is in order and the tree has learnt.
Unharmed == harm = {} => InOrder /\ Learnt

LEMMA UnharmedInitially == Init => Unharmed
<1> SUFFICES ASSUME Init PROVE InOrder /\ Learnt
  BY DEF Unharmed
<1>1. /\ Done = 0 /\ Total = 1 /\ Line[1] = [what |-> "databases", prefix |-> 1]
  <2>1. wire = <<[what |-> "databases", prefix |-> 1]>> /\ answers = <<>> /\ jsonObject = <<>>
    BY DEF Init
  <2>2. Len(wire) = 1 /\ Len(answers) = 0 /\ Len(jsonObject) = 0 /\ wire[1] = [what |-> "databases", prefix |-> 1]
    BY <2>1
  <2>3. Done = 0 /\ Total = 1
    BY <2>2 DEF Done, Total
  <2>4. 1 \in 1..Total /\ ~(1 <= Len(jsonObject)) /\ ~(1 <= Done) /\ 1 - Done = 1
    BY <2>2, <2>3
  <2> QED BY <2>2, <2>3, <2>4 DEF Line
<1>2. /\ tree.prefix = 0 /\ DOMAIN tree.nodes = {} /\ Pointed = {} /\ progress = {} /\ sent = 1
      /\ dialog = None /\ kind \in Kinds
  BY DEF Init, Empty, Pointed
<1>3. \A n \in 1..Total : n = 1
  BY <1>1
<1>4. Line[1].what = "databases" /\ Line[1].prefix = 1
  BY <1>1
<1>5. Aged
  BY <1>2, <1>3, <1>4 DEF Aged, Keyed, Altering
<1>6. Owned /\ Distinct
  <2>1. \A n \in 1..Done : FALSE
    BY <1>1
  <2> QED BY <1>2, <2>1 DEF Owned, Distinct
<1>7. OldFirst /\ DropsFirst /\ Going /\ Routines
  BY <1>2, <1>3, <1>4 DEF OldFirst, Stale, Altering, DropsFirst, Going, Routines
<1>8. Learnt
  <2>1. Now \in Snap
    BY Initially, NowIsSnap DEF TreeOK
  <2>2. PICK h : h = [n \in 0..Done |-> Now]
    OBVIOUS
  <2>3. h \in [0..Done -> Snap] /\ h[Done] = Now
    BY <1>1, <2>1, <2>2
  <2>4. \A n \in 1..Done : FALSE
    BY <1>1
  <2>5. Chain(h)
    BY <2>3, <2>4 DEF Chain
  <2>6. Renewal
    BY <1>1, <1>4 DEF Renewal, Renewing
  <2> QED BY <2>3, <2>5, <2>6 DEF Learnt, LearntFrom
<1> QED BY <1>5, <1>6, <1>7, <1>8 DEF InOrder

LEMMA UnharmedInductive == TreeOK /\ Agreed /\ Unharmed /\ [Next]_treeVars => Unharmed'
<1> SUFFICES ASSUME TreeOK, Agreed, Unharmed, Step \/ UNCHANGED treeVars, harm' = {}
             PROVE  InOrder' /\ Learnt'
  BY DEF Unharmed, Next
<1>0. TreeOK' /\ harm = {}
  <2>1. UNCHANGED treeVars => harm' = harm
    BY DEF treeVars
  <2> QED BY <2>1, Inductive, HarmStays
<1>1. InOrder /\ Agreement /\ Learnt
  BY <1>0 DEF Unharmed, Agreed, Unmoved
<1>2. PICK h \in [0..Done -> Snap] : LearntFrom(h)
  BY <1>1 DEF Learnt
<1>3. CASE Clicks \/ Answer \/ UNCHANGED treeVars
  <2>1. ByPage
    <3>1. CASE UNCHANGED treeVars
      BY <3>1 DEF treeVars, server, ui, ByPage, Pointed
    <3> QED BY <1>0, <1>3, <3>1, PageByClick, PageByReply
  <2> QED BY <1>0, <1>1, <1>2, <2>1, InOrderByPage, LearntByPage
<1>4. CASE Execute
  BY <1>0, <1>1, <1>2, <1>4, InOrderByExecute, LearntByExecute
<1>5. CASE Arrive
  BY <1>0, <1>1, <1>2, <1>5, InOrderByArrive, LearntByArrive
<1>6. CASE Work
  <2>1. /\ jsonObject # <<>> /\ jsonObject' = <<>> /\ Line[1] \in Result
        /\ Done \in Nat \ {0} /\ ByAnswer(Line[1])
    BY <1>0, <1>6, AnswerWorkedOn
  <2> QED BY <1>0, <1>1, <1>2, <2>1, InOrderByAnswer, LearntByAnswer
<1> QED BY <1>3, <1>4, <1>5, <1>6, StepIs

\* With nothing under way the tree has learnt all.
LEMMA UnharmedIsTrue == TreeOK /\ Unharmed => QuietTreeIsTrue
<1> SUFFICES ASSUME TreeOK, Unharmed, wire = <<>>, answers = <<>>, jsonObject = <<>>, harm = {}
             PROVE  /\ progress = {}
                    /\ \A i \in DOMAIN tree.nodes : tree.nodes[i].loaded =>
                         TablesOf(tree.nodes[i]) = StoredIn(tree.nodes[i].name)
  BY DEF QuietTreeIsTrue
<1>1. Done = 0 /\ Total = 0 /\ \A n \in 1..Total : FALSE
  <2>1. Len(wire) = 0 /\ Len(answers) = 0 /\ Len(jsonObject) = 0
    OBVIOUS
  <2> QED BY <2>1 DEF Done, Total
<1>2. InOrder /\ Learnt
  BY DEF Unharmed
<1>3. progress = {}
  BY <1>1, <1>2 DEF InOrder, Going
<1>4. PICK h \in [0..Done -> Snap] : LearntFrom(h)
  BY <1>2 DEF Learnt
<1>5. h[0] = Now /\ AllTrue(h)
  BY <1>1, <1>4 DEF LearntFrom, Chain, Renewal, Doomed
<1>6. ASSUME NEW i \in DOMAIN tree.nodes, tree.nodes[i].loaded
      PROVE  TablesOf(tree.nodes[i]) = StoredIn(tree.nodes[i].name)
  <2> DEFINE f == tree.nodes[i].tables
             d == tree.nodes[i].name
             S == IF d \in DOMAIN store THEN store[d] ELSE {}
  <2>1. d \in Databases /\ \A j \in DOMAIN f : f[j] \in Table /\ f[j].of = d
    BY <1>2, TreeKeys DEF TreeOK, PageOK, Nodes, InOrder, Owned, Tables, NameAt
  <2>2. Now[d] = S
    BY <2>1 DEF Now
  <2>3. Lists(f, S)
    <3>1. Listed(i)
      BY <1>1 DEF Listed
    <3>2. Truth(i, h[0][NameAt(i)])
      BY <1>5, <1>6, <3>1 DEF AllTrue
    <3>3. h[0][NameAt(i)] = S
      BY <1>5, <2>2 DEF NameAt
    <3>4. Leaving(i) = {}
      BY <1>1 DEF Leaving
    <3>5. S \ {} = S
      OBVIOUS
    <3> QED BY <3>2, <3>3, <3>4, <3>5 DEF Truth, Tables
  <2>4. TablesOf(tree.nodes[i]) = {f[j] : j \in DOMAIN f} /\ StoredIn(tree.nodes[i].name) = [of : {d}, name : S]
    BY DEF TablesOf, StoredIn
  <2> HIDE DEF f, d, S
  <2>5. ASSUME NEW x \in {f[j] : j \in DOMAIN f}
        PROVE  x \in [of : {d}, name : S]
    <3>1. x \in Table /\ x.of = d /\ x.name \in S
      BY <2>1, <2>3 DEF Lists
    <3> QED BY <3>1 DEF Table
  <2>6. ASSUME NEW x \in [of : {d}, name : S]
        PROVE  x \in {f[j] : j \in DOMAIN f}
    <3>1. PICK j \in DOMAIN f : x.name = f[j].name
      BY <2>3 DEF Lists
    <3>2. f[j] \in Table /\ f[j].of = x.of
      BY <2>1
    <3>3. x = f[j]
      BY <3>1, <3>2 DEF Table
    <3> QED BY <3>3
  <2> QED BY <2>4, <2>5, <2>6
<1> QED BY <1>3, <1>6

\* Once all that was sent is executed and worked on, the tables listed under a database
\* are those that the server has, and no export or import is said to go on, for any
\* databases, names, tabs and number of statements, in behaviours without a mishap: the
\* tree learns by the answers alone, in the order in which the statements were executed.
THEOREM QuietTree == Spec => []QuietTreeIsTrue
<1>1. TreeOK /\ [Next]_treeVars => TreeOK'
  BY Inductive DEF Next
<1> QED BY <1>1, Initially, AgreedInitially, AgreedInductive, UnharmedInitially, UnharmedInductive,
           UnharmedIsTrue, PTL DEF Spec
=============================================================================
