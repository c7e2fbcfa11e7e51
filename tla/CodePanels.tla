----------------------------- MODULE CodePanels -----------------------------
(***************************************************************************)
(* The panel of a view, a function or a procedure: an editor of its text,  *)
(* the attributes of a view, a preview of the statement and a button that  *)
(* saves.  The text is kept three times: in the widget, in the editor      *)
(* component (not for a procedure) and in the panel, which builds the      *)
(* preview.  Effects of one change run to their end before the next.       *)
(***************************************************************************)
EXTENDS Naturals

CONSTANTS
  Texts,     \* what can be typed
  Blank,     \* the empty text
  Template,  \* the text a new function or procedure starts with
  Options,   \* settings of the attributes of a view
  None

(***************************************************************************)
(* The panels.  template: the panel starts with a text of its own.         *)
(* options: attributes are part of the statement.  keeps: what is typed    *)
(* goes to the editor component, which tells the panel when its own text   *)
(* changes; otherwise the panel is told.                                   *)
(***************************************************************************)
ViewPanel == [template |-> FALSE, options |-> TRUE, keeps |-> TRUE]
FunctionPanel == [template |-> TRUE, options |-> FALSE, keeps |-> TRUE]
ProcedurePanel == [template |-> TRUE, options |-> FALSE, keeps |-> FALSE]
Panels == {ViewPanel, FunctionPanel, ProcedurePanel}

VARIABLES
  kind,      \* the panel, one of Panels
  mode,      \* connectionMode
  widget,    \* the text the widget shows
  sqlValue,  \* the text of the editor component
  sql,       \* viewSql, functionSql or procedureSql
  optionData, \* the attributes
  ddlData,   \* the preview: text and attributes
  tabSql,    \* the text of the tab, set when the tab is added
  saved      \* what was sent last

panelVars == <<kind, mode, widget, sqlValue, sql, optionData, ddlData, tabSql, saved>>

Text == Texts \cup {Blank, Template}

\* The statement of a text: only a view adds its attributes.
Statement(text, options) ==
  [text |-> text, options |-> IF kind.options THEN options ELSE None]

\* After the effects of mounting: the component reports a blank text first, and
\* the panel puts its template over it.
Init ==
  /\ kind \in Panels /\ mode \in {"single", "multiple"}
  /\ widget = IF kind.template THEN Template ELSE Blank
  /\ sqlValue = Blank /\ sql = widget
  /\ optionData = None /\ ddlData = Statement(sql, optionData)
  /\ tabSql = Blank /\ saved = None

\* Altered: the structure is built from the text before.
AlteredPanel(t) == sql

\* Altered: the text is not handed over.
UndefinedPanel(t) == None

\* The text of which the structure, and from it the preview, is built.
Panel(t) == t

\* What is typed reaches the panel, and at once the preview.
Told(t) == sql' = t /\ ddlData' = Statement(Panel(t), optionData)

\* Typing in a view or a function: a text that the component has is no change.
Type(t) ==
  /\ kind.keeps /\ t # widget /\ widget' = t
  /\ sqlValue' = t
  /\ IF t = sqlValue THEN UNCHANGED <<sql, ddlData>> ELSE Told(t)
  /\ UNCHANGED <<kind, mode, optionData, tabSql, saved>>

\* Typing in a procedure: the component's own text plays no part.
TypeThrough(t) ==
  /\ ~kind.keeps /\ t # widget /\ widget' = t
  /\ Told(t)
  /\ UNCHANGED <<kind, mode, sqlValue, optionData, tabSql, saved>>

\* The page is drawn: the widget takes the text of the panel.
Draw ==
  /\ widget # sql /\ widget' = sql
  /\ UNCHANGED <<kind, mode, sqlValue, sql, optionData, ddlData, tabSql, saved>>

SetOption(o) ==
  /\ kind.options /\ o # optionData
  /\ optionData' = o /\ ddlData' = Statement(sql, o) /\ widget' = sql
  /\ UNCHANGED <<kind, mode, sqlValue, sql, tabSql, saved>>

\* Nothing is asked but that there is a preview, and there always is one.  The
\* text of the tab is sent, with no asset: with several assets it goes nowhere.
Save ==
  /\ saved' = IF mode = "single" THEN tabSql ELSE saved
  /\ UNCHANGED <<kind, mode, widget, sqlValue, sql, optionData, ddlData, tabSql>>

Next ==
  \/ \E t \in Text : Type(t) \/ TypeThrough(t)
  \/ \E o \in Options : SetOption(o)
  \/ Draw \/ Save

Spec == Init /\ [][Next]_panelVars

----------------------------------------------------------------------------
TypeOK ==
  /\ {widget, sqlValue, sql, tabSql} \subseteq Text /\ optionData \in Options \cup {None}
  /\ ddlData \in [text : Text, options : Options \cup {None}]
  /\ saved \in Text \cup {None}

\* The preview is of the text that the editor shows and of the attributes, save
\* for a text that equals the component's while the panel's is another: a
\* function whose template was deleted as a whole.
PreviewIsText ==
  \/ ddlData = Statement(widget, optionData)
  \/ kind = FunctionPanel /\ widget = sqlValue /\ widget # sql

\* Saving sends what the editor shows.  It does not: the button's preview is
\* only looked at, the text of the tab is sent.
SavesWhatIsShown == [][saved' # saved => saved' = widget]_panelVars
=============================================================================
