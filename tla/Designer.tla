------------------------------ MODULE Designer ------------------------------
(***************************************************************************)
(* The designer of a table (DesignerPanel and its panels).  The designer   *)
(* holds the rows of a list of fields, indexes, foreign keys or triggers   *)
(* from which it writes the statement that Buttons sends; a panel shows a  *)
(* copy of the rows and hands its copy back when it is changed.            *)
(*                                                                         *)
(* Whatever changes in any tab of the editor, and every change of the      *)
(* active tab, makes the designer take the structure again that the        *)
(* database reported when it was opened.                                   *)
(***************************************************************************)
EXTENDS Naturals, Sequences, FiniteSets, SequencesExt

CONSTANTS
  Keys,      \* keys of rows
  Reported,  \* the key of the row of the structure that the database reports
  Options,   \* table options
  None,
  MaxEdit,   \* bound on edits
  MaxHarm    \* bound on mishaps (Harms) in one behaviour

(***************************************************************************)
(* The panels.  extra: what is edited below the table.  required: a name   *)
(* is.  follows: the row edited below follows the key of the selected row. *)
(* clears: it is forgotten when no key is selected.                        *)
(***************************************************************************)
FieldPanel ==
  [extra |-> "attribute", required |-> TRUE, follows |-> FALSE, clears |-> TRUE]
IndexPanel ==
  [extra |-> "attribute", required |-> FALSE, follows |-> FALSE, clears |-> FALSE]
ForeignKeyPanel ==
  [extra |-> "none", required |-> FALSE, follows |-> FALSE, clears |-> FALSE]
TriggerPanel ==
  [extra |-> "script", required |-> FALSE, follows |-> TRUE, clears |-> TRUE]
OptionPanel ==
  [extra |-> "options", required |-> FALSE, follows |-> FALSE, clears |-> FALSE]
Panels == {FieldPanel, IndexPanel, ForeignKeyPanel, TriggerPanel, OptionPanel}

Row == [key : Keys, val : 0..MaxEdit, attr : 0..MaxEdit]
Harms == {"refreshed", "dragged", "abandoned", "locked", "strayed", "reselected"}

VARIABLES
  panel,     \* the panel the user works in, one of Panels
  base,      \* the structure kept with the tab, or None
  parent,    \* the rows the designer holds
  synced,    \* parent is the array of base
  local,     \* dataSource, the rows the panel shows
  editing,   \* editingKey
  draft,     \* the values in the form of the row that is edited
  selected,  \* selectedRowKey
  picked,    \* key of selectedRow, the row edited below
  text,      \* targgerSql, the script shown
  opts,      \* the options the designer holds
  optsShown, \* the options the panel shows
  used,      \* keys given to rows; a key is the time of the click
  edits,     \* edits made
  intent,    \* history: what the user saved for a row and its last two attributes
  lastOpt,   \* history: the option chosen last
  harm       \* history: mishaps

rowVars == <<parent, synced, local, editing, draft, selected, picked, text, used, intent>>
optVars == <<opts, optsShown, lastOpt>>
vars == <<panel, base, rowVars, optVars, edits, harm>>

KeysOf(rows) == {r.key : r \in Range(rows)}
PlaceOf(rows, k) == CHOOSE i \in DOMAIN rows : rows[i].key = k
RowOf(rows, k) == rows[PlaceOf(rows, k)]
\* The rows whose key is not k: no two rows have one key.
Without(rows, k) == IF k \in KeysOf(rows) THEN RemoveAt(rows, PlaceOf(rows, k)) ELSE rows
With(rows, r) == [i \in DOMAIN rows |-> IF rows[i].key = r.key THEN r ELSE rows[i]]

NoWish == [val |-> 0, attr |-> 0, before |-> 0]
Wish == [val : 0..MaxEdit, attr : 0..MaxEdit, before : 0..MaxEdit]
Wishes(rows) == [k \in KeysOf(rows) |-> NoWish]

Init ==
  /\ panel \in Panels
  /\ base = None /\ parent = <<>> /\ synced = FALSE /\ local = <<>>
  /\ editing = None /\ draft = 0 /\ selected = None /\ picked = None /\ text = 0
  /\ opts = [o \in Options |-> 0] /\ optsShown = opts
  /\ used = {Reported} /\ edits = 0 /\ intent = <<>> /\ lastOpt = None /\ harm = {}

\* The row edited below once the panel shows other rows.
PickedIn(rows) ==
  IF panel.follows THEN IF selected \in KeysOf(rows) THEN selected ELSE None ELSE picked

\* The designer takes the rows of the tab, and with them the panel does.
Reset(rows) ==
  /\ parent' = rows /\ local' = rows /\ synced' = TRUE
  /\ picked' = PickedIn(rows)
  /\ intent' = Wishes(rows)
  /\ harm' = IF /\ {local, parent} = {IF base = None THEN <<>> ELSE rows}
                /\ \A k \in DOMAIN intent : intent[k] = NoWish
             THEN harm ELSE harm \cup {"refreshed"}

\* The answer about a table that exists: parseCreateTableSql of its definition.
Structure(rows) ==
  /\ base = None /\ panel # OptionPanel
  /\ base' = rows
  /\ Reset(rows)
  /\ UNCHANGED <<panel, used, editing, draft, selected, text, optVars, edits>>

\* Any change of the tabs, or of the active tab.
Refresh ==
  /\ base # None /\ ~synced
  /\ Reset(base)
  /\ UNCHANGED <<panel, base, used, editing, draft, selected, text, optVars, edits>>

\* Altered: the panel shows the rows of before.
AlteredUpdate(rows) ==
  /\ parent' = rows /\ local' = parent /\ synced' = FALSE
  /\ picked' = PickedIn(rows)

\* updateData: designer and panel have the rows given.
Update(rows) ==
  /\ parent' = rows /\ local' = rows /\ synced' = FALSE
  /\ picked' = PickedIn(rows)

\* add: a blank row of the panel's own.
Add(k) ==
  /\ panel # OptionPanel /\ k \notin used
  /\ used' = used \cup {k}
  /\ editing = None \/ local = <<>>
  /\ local' = Append(local, [key |-> k, val |-> 0, attr |-> 0])
  /\ editing' = k /\ draft' = 0
  /\ IF panel.extra = "none" \/ selected = k
     THEN UNCHANGED <<selected, picked, text>>
     ELSE selected' = k /\ picked' = k /\ text' = 0
  /\ UNCHANGED <<panel, base, parent, synced, intent, optVars, edits, harm>>

Edit(k) ==
  /\ editing = None /\ k \in KeysOf(local)
  /\ editing' = k /\ draft' = RowOf(local, k).val
  /\ UNCHANGED <<panel, base, used, parent, synced, local, selected, picked, text,
                 intent, optVars, edits, harm>>

Type ==
  /\ editing \in KeysOf(local) /\ edits < MaxEdit
  /\ edits' = edits + 1 /\ draft' = edits'
  /\ UNCHANGED <<panel, base, used, parent, synced, local, editing, selected, picked, text,
                 intent, optVars, harm>>

WishOf(k) == IF k \in DOMAIN intent THEN intent[k] ELSE NoWish
Wanted(k, w) == [x \in DOMAIN intent \cup {k} |-> IF x = k THEN w ELSE intent[x]]

\* Altered: the values are taken from the row.
AlteredSaved(k) == RowOf(local, k)

\* save: the row with the values of the form.
Saved(k) == [RowOf(local, k) EXCEPT !.val = draft]

Save ==
  /\ editing \in KeysOf(local) /\ (panel.required => draft > 0)
  /\ Update(With(local, Saved(editing)))
  /\ editing' = None
  /\ intent' = Wanted(editing, [WishOf(editing) EXCEPT !.val = draft])
  /\ UNCHANGED <<panel, base, used, draft, selected, text, optVars, edits, harm>>

\* cancel: a row that was added stays in the panel.
Cancel ==
  /\ editing \in KeysOf(local)
  /\ editing' = None
  /\ harm' = IF editing \in KeysOf(parent) THEN harm ELSE harm \cup {"abandoned"}
  /\ UNCHANGED <<panel, base, used, parent, synced, local, draft, selected, picked, text,
                 intent, optVars, edits>>

\* del: the key of a row that is being edited stays.
Delete(k) ==
  /\ k \in KeysOf(local) /\ editing \in {None, k}
  /\ Update(Without(local, k))
  /\ intent' = [x \in DOMAIN intent \ {k} |-> intent[x]]
  /\ harm' = IF editing = k THEN harm \cup {"locked"} ELSE harm
  /\ UNCHANGED <<panel, base, used, editing, draft, selected, text, optVars, edits>>

\* onDragEnd: the panel alone knows the new order.
Drag ==
  /\ Len(local) > 1
  /\ local' = Reverse(local)
  /\ harm' = harm \cup {"dragged"}
  /\ UNCHANGED <<panel, base, used, parent, synced, editing, draft, selected, picked, text,
                 intent, optVars, edits>>

\* The script of a row that is selected is read from the row.
Reread(k) ==
  IF panel.extra # "script" \/ k = None THEN text' = 0 /\ harm' = harm
  ELSE /\ text' = RowOf(local, k).attr
       /\ harm' = IF WishOf(k).attr \in {0, RowOf(local, k).attr} THEN harm
                  ELSE harm \cup {"reselected"}

\* onRow: a click on a row selects it or, if it was, unselects it.
Click(k) ==
  /\ panel.extra \in {"attribute", "script"} /\ editing = None /\ k \in KeysOf(local)
  /\ selected' = IF selected = k THEN None ELSE k
  /\ picked' = selected'
  /\ Reread(selected')
  /\ UNCHANGED <<panel, base, used, parent, synced, local, editing, draft, intent, optVars,
                 edits>>

\* The check box of a row sets the key only.
Tick(k) ==
  /\ panel.extra \in {"attribute", "script"} /\ k \in KeysOf(local)
  /\ selected \in {None, k}
  /\ selected' = IF selected = k THEN None ELSE k
  /\ picked' = IF selected' = None THEN IF panel.clears THEN None ELSE picked
               ELSE IF panel.follows THEN k ELSE picked
  /\ Reread(selected')
  /\ UNCHANGED <<panel, base, used, parent, synced, local, editing, draft, intent, optVars,
                 edits>>

Noted(k, e) ==
  Wanted(k, [WishOf(k) EXCEPT !.attr = e, !.before = WishOf(k).attr])

\* handleInputChange of an attribute: the row that is written is the one picked.
Attribute ==
  /\ panel.extra = "attribute" /\ selected \in KeysOf(local) /\ edits < MaxEdit
  /\ edits' = edits + 1
  /\ IF picked \in KeysOf(local)
     THEN Update(With(local, [RowOf(local, picked) EXCEPT !.attr = edits']))
     ELSE UNCHANGED <<parent, synced, local, picked>>
  /\ intent' = Noted(selected, edits')
  /\ harm' = IF picked = selected THEN harm ELSE harm \cup {"strayed"}
  /\ UNCHANGED <<panel, base, used, editing, draft, selected, text, optVars>>

\* Typing a script: the row is given the text of before, see handleBlur.
Script ==
  /\ panel.extra = "script" /\ picked \in KeysOf(local) /\ edits < MaxEdit
  /\ edits' = edits + 1 /\ text' = edits'
  /\ Update(With(local, [RowOf(local, picked) EXCEPT !.attr = text]))
  /\ intent' = Noted(picked, edits')
  /\ UNCHANGED <<panel, base, used, editing, draft, selected, optVars, harm>>

\* What a change of an option hands to the designer: the options of before.
Handed == optsShown

\* handleEnginesChange, handleInputChange of an option.  When the designer is
\* given options it does not have, the panel takes them over in turn.  No two
\* changes give the same options here.
Choose(o) ==
  /\ panel = OptionPanel /\ edits < MaxEdit
  /\ edits' = edits + 1 /\ lastOpt' = o
  /\ opts' = Handed
  /\ optsShown' = IF Handed = opts THEN [optsShown EXCEPT ![o] = edits'] ELSE Handed
  /\ UNCHANGED <<panel, base, rowVars, harm>>

Step ==
  \/ Structure(<<[key |-> Reported, val |-> 0, attr |-> 0]>>)
  \/ Refresh
  \/ \E k \in Keys : Add(k) \/ Edit(k) \/ Delete(k) \/ Click(k) \/ Tick(k)
  \/ Type \/ Save \/ Cancel \/ Drag \/ Attribute \/ Script
  \/ \E o \in Options : Choose(o)

Next == Step /\ Cardinality(harm') <= MaxHarm

Spec == Init /\ [][Next]_vars

-----------------------------------------------------------------------------
\* Types.
TypeOK ==
  /\ panel \in Panels /\ base \in {None} \cup Seq(Row)
  /\ parent \in Seq(Row) /\ local \in Seq(Row) /\ synced \in BOOLEAN
  /\ {editing, selected, picked} \subseteq Keys \cup {None}
  /\ {draft, text, edits} \subseteq 0..MaxEdit
  /\ {opts, optsShown} \subseteq [Options -> 0..MaxEdit]
  /\ used \subseteq Keys /\ DOMAIN intent \subseteq Keys /\ \A k \in DOMAIN intent : intent[k] \in Wish
  /\ lastOpt \in Options \cup {None} /\ harm \subseteq Harms

\* The statement is about the rows shown: the designer has the rows of the
\* panel, but for one that is being added, unless rows were dragged or the
\* addition of one was given up.
SentIsShown ==
  harm \cap {"dragged", "abandoned"} = {} =>
    parent = local \/ parent = Without(local, editing)

\* What the user has saved is what the statement says, until the structure is
\* taken again.  A script lags by its last change and loses it when another row
\* is selected; an attribute may go astray after a check box was used.
EditsAreKept ==
  harm \cap {"refreshed", "strayed", "reselected"} = {} =>
    \A k \in DOMAIN intent \ {editing} :
      /\ k \in KeysOf(parent)
      /\ RowOf(parent, k).val = intent[k].val
      /\ RowOf(parent, k).attr \in
           {IF panel.extra = "script" THEN intent[k].before ELSE intent[k].attr}

\* A panel refuses to add, and disables its buttons, while a row is edited: that
\* row is shown, unless it was deleted or the structure taken again meanwhile.
NotLocked ==
  editing # None => \/ editing \in KeysOf(local)
                    \/ harm \cap {"locked", "refreshed"} # {}

\* The options sent are those shown, but for the one chosen last.
OptionsLagByOne == \A o \in Options : opts[o] # optsShown[o] => o = lastOpt
=============================================================================
