------------------------------- MODULE RowGrid -------------------------------
(***************************************************************************)
(* The table of results in which the rows of a database table are changed  *)
(* (Table and Editable): a row that waits to be inserted, updates of cells *)
(* and deletions, each of which is shown at once and sent as a statement   *)
(* that deleteRow, insertRow or updateRow of SQLConverter/mysql.js writes. *)
(* The server executes the statements in order.                            *)
(***************************************************************************)
EXTENDS Naturals, Sequences, FiniteSets

CONSTANTS
  Values,    \* values of the two columns that may be the primary key
  None,
  MaxEdit,   \* values of the third column, that is bound on changes of a cell
  MaxSent,   \* bound on statements sent
  MaxHarm    \* bound on mishaps (Harms) in one behaviour

Row == [a : Values, b : Values, v : 0..MaxEdit]
Harms == {"replaced", "keyed", "duplicate", "text", "composite", "outdated",
          "several", "paged", "overtaken"}

VARIABLES
  key,       \* the primary key: is it both columns, are they integers
  db,        \* rows of the database table
  shown,     \* rows of the grid that are, or are believed to be, in the database
  fresh,     \* the row added to the grid
  selected,  \* rows selected
  old,       \* oldRow, the row as it was when a cell was double-clicked
  waiting,   \* waitSaveRowData
  isSave, isAdd, \* isSaveRow, isAddRow
  dialog,    \* the question whether to delete: the rows, and the rows shown
  wire,      \* statements sent and not executed
  sent,      \* how many were sent
  lost,      \* history: rows deleted that were not selected
  harm       \* history: mishaps

vars == <<key, db, shown, fresh, selected, old, waiting, isSave, isAdd, dialog,
          wire, sent, lost, harm>>

Statement ==
  [what : {"load"}] \cup [what : {"insert"}, row : Row]
  \cup [what : {"update"}, row : Row, old : Row \cup {None}]
  \cup [what : {"delete"}, rows : SUBSET Row]

SameKey(r, s) == r.a = s.a /\ (key.composite => r.b = s.b)

\* Rows no cell of which was changed.  The second column is told from the first
\* where it is a part of the key.
Entered(k) == {r \in [a : Values, b : Values, v : {0}] : k.composite \/ r.b = r.a}

\* Rows are not found by a key of text, whichever columns it has: one is enough.
PrimaryKeys == {k \in [composite : BOOLEAN, integer : BOOLEAN] : k.integer \/ ~k.composite}

Init ==
  /\ key \in PrimaryKeys
  /\ db \in {s \in SUBSET Entered(key) :
               /\ IsFiniteSet(s) /\ Cardinality(s) = 2
               /\ \A r, t \in s : SameKey(r, t) => r = t}
  /\ shown = db /\ fresh = None /\ selected = {} /\ old = None
  /\ waiting = None /\ isSave = FALSE /\ isAdd = TRUE /\ dialog = None
  /\ wire = <<>> /\ sent = 0 /\ lost = {} /\ harm = {}

Sent(s) == sent < MaxSent /\ sent' = sent + 1 /\ wire' = Append(wire, s)
Load == [what |-> "load"]
Marked(mishap, h) == IF mishap THEN harm \cup {h} ELSE harm
\* A change is made while the grid is about to be filled with what was before.
Overtaken == IF \E i \in DOMAIN wire : wire[i] = Load THEN {"overtaken"} ELSE {}

Select(r) ==
  /\ dialog = None /\ r \in shown
  /\ selected' = IF r \in selected THEN selected \ {r} ELSE selected \cup {r}
  /\ UNCHANGED <<key, db, shown, fresh, old, waiting, isSave, isAdd, dialog, wire,
                 sent, lost, harm>>

\* handlePageChange, and refresh.  A row that waits is forgotten by neither, but
\* the button that saves it is disabled.
Page(refresh) ==
  /\ dialog = None
  /\ Sent(Load)
  /\ isSave' = FALSE /\ isAdd' = (isAdd \/ refresh) /\ selected' = {}
  /\ harm' = Marked(waiting # None, "paged")
  /\ UNCHANGED <<key, db, shown, fresh, old, waiting, dialog, lost>>

\* A row is put into the grid and waits to be inserted.
Wait(r) == fresh' = r /\ waiting' = r /\ isSave' = TRUE /\ isAdd' = FALSE

\* addRowData, and what is typed into the new row.
Add(r) ==
  /\ dialog = None /\ isAdd /\ fresh = None
  /\ Wait(r)
  /\ UNCHANGED <<key, db, shown, selected, old, dialog, wire, sent, lost, harm>>

\* pasteFromClipboard: a copy of the selected row waits.  Of several, copies are
\* shown and none waits.
Paste(r) ==
  /\ dialog = None /\ waiting = None /\ fresh = None /\ r \in selected
  /\ IF selected = {r} THEN Wait(r) /\ harm' = harm
     ELSE /\ fresh' = r /\ isSave' = TRUE
          /\ harm' = harm \cup {"several"}
          /\ UNCHANGED <<waiting, isAdd>>
  /\ UNCHANGED <<key, db, shown, selected, old, dialog, wire, sent, lost>>

\* A cell of a row is changed.  A double click notes the row as it was; editing
\* that the keyboard starts does not.  While a row waits the changed row takes
\* its place.
Change(r, double) ==
  /\ dialog = None /\ r \in shown /\ r.v < MaxEdit
  /\ old' = IF double THEN r ELSE old
  /\ LET new == [r EXCEPT !.v = @ + 1] IN
     /\ shown' = (shown \ {r}) \cup {new}
     /\ selected' = IF r \in selected THEN (selected \ {r}) \cup {new} ELSE selected
     /\ IF isSave
        THEN waiting' = new /\ UNCHANGED <<wire, sent>> /\ harm' = harm \cup {"replaced"}
        ELSE /\ Sent([what |-> "update", row |-> new, old |-> old'])
             /\ waiting' = waiting
             /\ harm' = Marked(old' = None \/ (old' # None /\ ~SameKey(old', r)), "keyed") \cup Overtaken
  /\ UNCHANGED <<key, db, fresh, isSave, isAdd, dialog, lost>>

\* save: the row that waits is inserted, or nothing when none does.
Save ==
  /\ dialog = None /\ isSave
  /\ IF waiting = None THEN UNCHANGED <<wire, sent, harm>>
     ELSE Sent([what |-> "insert", row |-> waiting]) /\ harm' = harm \cup Overtaken
  /\ waiting' = None /\ isSave' = FALSE
  /\ shown' = IF fresh = None THEN shown ELSE shown \cup {fresh}
  /\ fresh' = None
  /\ UNCHANGED <<key, db, selected, old, isAdd, dialog, lost>>

\* Altered: the rows are not asked for.
AlteredDiscarded == UNCHANGED <<wire, sent>>

\* The grid is filled again after a row was discarded.
Discarded == Sent(Load)

\* dontSave
Discard ==
  /\ dialog = None /\ isSave
  /\ Discarded
  /\ waiting' = None /\ isSave' = FALSE /\ isAdd' = TRUE /\ selected' = {}
  /\ UNCHANGED <<key, db, shown, fresh, old, dialog, lost, harm>>

\* deleteSelectedRows asks.
AskDelete ==
  /\ dialog = None /\ waiting = None /\ selected # {}
  /\ dialog' = [rows |-> selected, saw |-> shown]
  /\ UNCHANGED <<key, db, shown, fresh, selected, old, waiting, isSave, isAdd, wire,
                 sent, lost, harm>>

\* ... and is answered: the grid has the rows of the moment it asked.
Answer(ok) ==
  /\ dialog # None /\ dialog' = None
  /\ IF ok
     THEN /\ Sent([what |-> "delete", rows |-> dialog.rows])
          /\ shown' = dialog.saw \ dialog.rows /\ selected' = {}
          /\ harm' = Marked(dialog.saw # shown, "outdated") \cup Overtaken
     ELSE UNCHANGED <<wire, sent, shown, selected, harm>>
  /\ UNCHANGED <<key, db, fresh, old, waiting, isSave, isAdd, lost>>

\* Whether the WHERE written for row s finds the row r: the first column of the
\* primary key is compared.
Hit(r, s) == r.a = s.a

\* The rows an update of row o finds, those a deletion finds, and those of them
\* that it was not to find.
Found(o) == {s \in db : key.integer /\ o # None /\ Hit(s, o)}
FoundAny(rows) == {s \in db : key.integer /\ \E r \in rows : Hit(s, r)}
Strays(rows) == {s \in FoundAny(rows) : \A r \in rows : ~SameKey(r, s)}

\* The rows after a statement, and whether it did what it was for.
Insert(r) ==
  IF \E s \in db : SameKey(r, s)
  THEN db' = db /\ lost' = lost /\ harm' = harm \cup {"duplicate"}
  ELSE db' = db \cup {r} /\ lost' = lost /\ harm' = harm
UpdateRow(r, o) ==
  /\ IF Cardinality(Found(o)) = 1 /\ ~\E s \in db \ Found(o) : SameKey(r, s)
     THEN db' = (db \ Found(o)) \cup {r} /\ harm' = harm
     ELSE db' = db /\ harm' = Marked(r \notin db, IF ~key.integer THEN "text"
                                              ELSE IF key.composite THEN "composite" ELSE "keyed")
  /\ lost' = lost
DeleteRows(rows) ==
  /\ db' = db \ FoundAny(rows) /\ lost' = lost \cup Strays(rows)
  /\ harm' = IF ~key.integer THEN harm \cup {"text"}
             ELSE Marked(Strays(rows) # {}, "composite")

\* The server executes a statement and answers.
Execute ==
  /\ wire # <<>> /\ wire' = Tail(wire)
  /\ LET s == Head(wire) IN
     /\ IF s.what = "load"
        THEN /\ shown' = db /\ fresh' = None /\ selected' = {}
             /\ harm' = Marked(waiting # None /\ harm = {}, "overtaken")
             /\ UNCHANGED <<db, lost>>
        ELSE /\ UNCHANGED <<shown, fresh, selected>>
             /\ \/ s.what = "insert" /\ Insert(s.row)
                \/ s.what = "update" /\ UpdateRow(s.row, s.old)
                \/ s.what = "delete" /\ DeleteRows(s.rows)
  /\ UNCHANGED <<key, old, waiting, isSave, isAdd, dialog, sent>>

Step ==
  \/ \E r \in shown : Select(r) \/ Paste(r)
  \/ \E r \in shown, d \in BOOLEAN : Change(r, d)
  \/ \E r \in Entered(key) : Add(r)
  \/ \E refresh \in BOOLEAN : Page(refresh)
  \/ Save \/ Discard \/ AskDelete
  \/ \E ok \in BOOLEAN : Answer(ok)
  \/ Execute

Next == Step /\ Cardinality(harm') <= MaxHarm

Spec == Init /\ [][Next]_vars

-----------------------------------------------------------------------------
\* Types.
TypeOK ==
  /\ key \in PrimaryKeys
  /\ {db, shown, selected, lost} \subseteq SUBSET Row
  /\ {fresh, old, waiting} \subseteq Row \cup {None}
  /\ {isSave, isAdd} \subseteq BOOLEAN
  /\ dialog \in {None} \cup [rows : SUBSET Row, saw : SUBSET Row]
  /\ wire \in Seq(Statement) /\ harm \subseteq Harms

\* Nothing is deleted that was not selected, unless the primary key has several
\* columns.
LostWereSelected == lost = {} \/ key.composite

\* Once everything sent is executed and nothing waits, the grid shows the rows
\* of the database; Harms are the ways in which it does not.
GridIsStored ==
  wire = <<>> /\ waiting = None /\ dialog = None /\ harm = {} =>
    shown \cup ({fresh} \ {None}) = db

\* A row that waits can be saved or discarded, unless the page was turned.
UnsavedIsOffered == waiting # None => isSave \/ "paged" \in harm
=============================================================================
