----------------------------- MODULE RecordForm -----------------------------
(***************************************************************************)
(* The form of a page of records: a button for a new record, links that    *)
(* edit, copy and delete one, a modal dialog that fetches the record it is *)
(* about and saves it.  One user, requests that are answered in any order. *)
(*                                                                         *)
(* The page chooses the record by a key; the dialog saves under the id the *)
(* form holds, which came with an answer, perhaps to an earlier request.   *)
(***************************************************************************)
EXTENDS AdminPages, Naturals, FiniteSets

CONSTANTS
  Ids,      \* records
  None,     \* no record, no save
  MaxOpen,  \* bound on openings of the dialog
  MaxHarm   \* bound on mishaps (see harm) in one behaviour

Keys == Ids \cup {None}
Intent == [what : {"new", "edit", "copy"}, id : Keys]
Contents == [id : Keys, from : Keys, typed : BOOLEAN]
Save == [id : Keys, from : Keys, typed : BOOLEAN, intent : Intent,
         wrote : BOOLEAN, open : 0..MaxOpen]

ASSUME NoneIsNoRecord == None \notin Ids /\ None \notin Save
ASSUME OpeningsAreCounted == MaxOpen \in Nat

VARIABLES
  page,     \* the page, one of FormPages
  db,       \* the records there are
  key,      \* selectedRowKey
  visible,
  copied,
  form,     \* the form: id and contents as they came from a record, what was typed
  stuck,    \* a list in the form has become a string
  asked,    \* records asked for and not answered
  saving,   \* the save that is under way, while confirmLoading
  opens,    \* openings so far
  intent,   \* history: what the dialog was opened for
  wrote,    \* history: the user has typed since it was opened
  last,     \* history: the last save that succeeded
  harm      \* history: mishaps

vars == <<page, db, key, visible, copied, form, stuck, asked, saving, opens,
          intent, wrote, last, harm>>

Blank == [id |-> None, from |-> None, typed |-> FALSE]

Init ==
  /\ page \in FormPages
  /\ db = Ids /\ key = None /\ visible = FALSE /\ copied = FALSE
  /\ form = Blank /\ stuck = FALSE /\ asked = {} /\ saving = None /\ opens = 0
  /\ intent = [what |-> "new", id |-> None] /\ wrote = FALSE
  /\ last = None /\ harm = {}

\* The dialog opens and asks for its record.  A query that is under way is not
\* started again: its key does not tell records apart.
Open(what, k) ==
  /\ ~visible /\ opens < MaxOpen
  /\ visible' = TRUE /\ opens' = opens + 1 /\ key' = k
  /\ copied' = IF what = "copy" THEN TRUE ELSE copied
  /\ intent' = [what |-> what, id |-> k] /\ wrote' = FALSE
  /\ asked' = IF k = None \/ (page.dialog.query /\ asked # {}) THEN asked
              ELSE asked \cup {k}
  /\ UNCHANGED <<page, db, form, stuck, saving, last, harm>>

\* The button for a new record shows the dialog, whatever the key is.
New == page.adds /\ Open("new", key)
Edit(k) == k \in db /\ Open("edit", k)
\* Altered: every page can copy.
AlteredCopy(k) == k \in db /\ Open("copy", k)

Copy(k) == page.copies /\ k \in db /\ Open("copy", k)

\* Another dialog that uses the key is shown and closed.
Other(k) ==
  /\ page.other # "no" /\ ~visible /\ k \in db
  /\ key' = IF page.other = "leaves" THEN k ELSE None
  /\ UNCHANGED <<page, db, visible, copied, form, stuck, asked, saving, opens,
                 intent, wrote, last, harm>>

Delete(k) ==
  /\ ~visible /\ k \in db
  /\ db' = db \ {k}
  /\ UNCHANGED <<page, key, visible, copied, form, stuck, asked, saving, opens,
                 intent, wrote, last, harm>>

\* The answer fills the form that there is, for whichever record and opening.
Arrive(k) ==
  /\ k \in asked /\ asked' = asked \ {k}
  /\ IF k \in db
     THEN /\ form' = [id |-> k, from |-> k, typed |-> FALSE]
          /\ stuck' = FALSE
     ELSE UNCHANGED <<form, stuck>>
  /\ harm' = harm \cup (IF visible /\ key = k THEN {} ELSE {"late"})
                  \cup (IF form.typed /\ k \in db THEN {"overtyped"} ELSE {})
  /\ UNCHANGED <<page, db, key, visible, copied, saving, opens, intent, wrote,
                 last>>

\* The window gets the focus: a query is made again.
Refocus ==
  /\ page.dialog.query /\ visible /\ key # None /\ asked = {}
  /\ asked' = {key}
  /\ UNCHANGED <<page, db, key, visible, copied, form, stuck, saving, opens,
                 intent, wrote, last, harm>>

\* Altered: what is typed does not reach the form.
AlteredFilled == form

Filled == [form EXCEPT !.typed = TRUE]

\* The user types; a list that is chosen again is a list again.
Type(again) ==
  /\ visible
  /\ form' = Filled /\ wrote' = TRUE
  /\ stuck' = (stuck /\ ~again)
  /\ UNCHANGED <<page, db, key, visible, copied, asked, saving, opens, intent,
                 last, harm>>

\* Altered: the id stays.
AlteredIdToSave == form.id

\* The id of the values that are saved.
IdToSave == IF copied THEN None ELSE form.id

\* OK, with values that the rules of the form refuse, or accept.  What is
\* neither fetched nor typed lacks a required field.
Refuse ==
  /\ visible /\ saving = None /\ ~stuck
  /\ page.dialog.joins /\ stuck' = TRUE
  /\ harm' = harm \cup {"refused"}
  /\ UNCHANGED <<page, db, key, visible, copied, form, asked, saving, opens,
                 intent, wrote, last>>

Ok ==
  /\ visible /\ saving = None /\ ~stuck
  /\ form.from # None \/ form.typed
  /\ stuck' = page.dialog.joins
  /\ saving' = [id |-> IdToSave, from |-> form.from, typed |-> form.typed,
                intent |-> intent, wrote |-> wrote, open |-> opens]
  /\ form' = IF page.dialog.empties THEN Blank ELSE form
  /\ harm' = harm \cup (IF intent.id # None /\ asked # {} THEN {"early"} ELSE {})
  /\ UNCHANGED <<page, db, key, visible, copied, asked, opens, intent, wrote, last>>

\* What the form holds once the dialog is closed without its being reset.
Closed == IF page.dialog.resets /\ visible THEN Blank ELSE form

Resets == page.dialog.resets /\ visible

\* The answer to the save.  It closes the dialog that is open by then.
Saved(ok) ==
  /\ saving # None /\ saving' = None
  /\ IF ok
     THEN /\ visible' = FALSE /\ form' = Closed
          /\ stuck' = (stuck /\ ~Resets)
          /\ last' = saving
     ELSE UNCHANGED <<visible, form, stuck, last>>
  /\ IF page.clears THEN key' = None /\ copied' = FALSE
                    ELSE UNCHANGED <<key, copied>>
  /\ harm' = harm \cup (IF visible /\ saving.open # opens THEN {"crossed"}
                        ELSE IF ok THEN {} ELSE {"refused"})
  /\ UNCHANGED <<page, db, asked, opens, intent, wrote>>

\* onCancel of the dialog, before the page closes it.
Dismissed == Blank

Cancel ==
  /\ visible
  /\ visible' = FALSE /\ key' = None /\ copied' = FALSE
  /\ form' = Dismissed /\ stuck' = FALSE
  /\ UNCHANGED <<page, db, asked, saving, opens, intent, wrote, last, harm>>

Step ==
  \/ New
  \/ \E k \in Ids : Edit(k) \/ Copy(k) \/ Other(k) \/ Delete(k) \/ Arrive(k)
  \/ Refocus
  \/ \E again \in BOOLEAN : Type(again)
  \/ Refuse \/ Ok
  \/ \E ok \in BOOLEAN : Saved(ok)
  \/ Cancel

Next == Step /\ Cardinality(harm') <= MaxHarm

Spec == Init /\ [][Next]_vars

-----------------------------------------------------------------------------
Excused(h) == harm \cap h # {}

\* Types; a page has no copy under way that it cannot make.
TypeOK ==
  /\ page \in FormPages /\ db \subseteq Ids /\ key \in Keys
  /\ visible \in BOOLEAN /\ copied \in BOOLEAN /\ form \in Contents
  /\ stuck \in BOOLEAN /\ asked \subseteq Ids /\ saving \in Save \cup {None}
  /\ opens \in 0..MaxOpen /\ intent \in Intent /\ wrote \in BOOLEAN
  /\ last \in Save \cup {None}
  /\ harm \subseteq {"late", "overtyped", "refused", "early", "crossed"}
  /\ copied => page.copies

\* Why the form may hold another record than the one shown: an answer to an
\* earlier opening; or, where a dialog keeps its form, a save before the answer
\* is there, or a key that another dialog has cleared; or, where a key is
\* cleared after a save, that of an earlier opening.
Misled ==
  \/ Excused({"late"})
  \/ page.clears /\ Excused({"crossed"})
  \/ ~page.dialog.resets /\ (Excused({"early"}) \/ page.other # "no")

\* A save writes the record the dialog was opened on, or a new one.
WritesItsRecord ==
  last # None => last.id \in {None, last.intent.id} \/ Misled

\* What was opened as a new record or as a copy is saved as a new one, except
\* on pages where the key of the last record survives its save.
NewCreates ==
  last # None /\ last.id # None =>
    \/ last.intent.what = "edit"
    \/ last.intent.what = "new" /\ ~page.clears
    \/ last.intent.what = "new" /\ page.other = "leaves"
    \/ Misled

\* What was opened to edit a record is not saved as another new one, unless it
\* was saved before it was loaded, or again after the server refused it.
EditUpdates ==
  last # None /\ last.intent.what = "edit" /\ last.id = None =>
    \/ Excused({"early", "late"})
    \/ page.dialog.empties /\ Excused({"refused"})

\* A save is of what the dialog was opened for: WritesItsRecord, NewCreates and
\* EditUpdates.
SavesAsMeant == WritesItsRecord /\ NewCreates /\ EditUpdates

\* What the user typed is part of what is saved, unless an answer came after.
TypedIsSaved ==
  last # None /\ last.wrote =>
    last.typed \/ Excused({"overtyped"}) \/ (page.dialog.empties /\ Excused({"refused"}))
=============================================================================
