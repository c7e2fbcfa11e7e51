---------------------------- MODULE MCEditorParts ----------------------------
(* Four parts of a tab of the editor that share nothing: the designer of a   *)
(* table, the statements it writes and reads, the grid of results and the    *)
(* panels of views, functions and procedures.  A behaviour is about one.     *)
EXTENDS TableSql, TLC

CONSTANTS Keys, Reported, Options, MaxEdit, Values, MaxRow, MaxSent, Texts,
          Blank, Template, None, MaxHarm

VARIABLES panel, base, parent, synced, local, editing, draft, selected, picked, text,
          opts, optsShown, used, edits, intent, lastOpt, harm,
          key, db, shown, fresh, old, waiting, isSave, isAdd, dialog, wire, lost,
          kind, mode, widget, sqlValue, sql, optionData, ddlData, tabSql, saved

\* A key is a time, not null, null is no structure, and the bounds are numbers.
ASSUME KeysAreTimes ==
  /\ Reported \in Keys /\ None \notin Keys
  /\ None # <<[key |-> Reported, val |-> 0, attr |-> 0]>>
ASSUME BoundsAreNumbers == MaxEdit \in Nat /\ MaxRow \in Nat /\ MaxParts \in Nat

D == INSTANCE Designer
G == INSTANCE RowGrid WITH MaxEdit <- MaxRow
C == INSTANCE CodePanels

designerOnly == <<panel, base, parent, synced, local, editing, draft, picked, text,
                  opts, optsShown, used, edits, intent, lastOpt>>
designerOrGrid == <<selected, harm>>
sqlOnly == <<design, table, read>>
gridOnly == <<key, db, shown, fresh, old, waiting, isSave, isAdd, dialog, wire, lost>>
codeOnly == <<kind, mode, widget, sqlValue, sql, optionData, ddlData, tabSql, saved>>

NoDesigner ==
  /\ panel = None /\ base = None /\ parent = <<>> /\ synced = FALSE /\ local = <<>>
  /\ editing = None /\ draft = 0 /\ picked = None /\ text = 0
  /\ opts = None /\ optsShown = None /\ used = {} /\ edits = 0 /\ intent = None
  /\ lastOpt = None
NoSql ==
  /\ design = [fields |-> 0, indexes |-> 0, keys |-> 0, primary |-> 0]
  /\ table = None /\ read = <<>>
NoGrid ==
  /\ key = None /\ db = {} /\ shown = {} /\ fresh = None /\ old = None
  /\ waiting = None /\ isSave = FALSE /\ isAdd = FALSE /\ dialog = None
  /\ wire = <<>> /\ lost = {}
NoCode ==
  /\ kind = None /\ mode = None /\ widget = None /\ sqlValue = None /\ sql = None
  /\ optionData = None /\ ddlData = None /\ tabSql = None /\ saved = None

InitOfAny ==
  \/ D!Init /\ NoSql /\ NoGrid /\ NoCode /\ sent = None
  \/ Init /\ NoDesigner /\ NoGrid /\ NoCode /\ selected = None /\ harm = {}
  \/ G!Init /\ NoDesigner /\ NoSql /\ NoCode
  \/ C!Init /\ NoDesigner /\ NoSql /\ NoGrid /\ selected = None /\ harm = {} /\ sent = None

NextOfAny ==
  \/ panel # None /\ D!Next /\ UNCHANGED <<sent, sqlOnly, gridOnly, codeOnly>>
  \/ table # None /\ Next /\ UNCHANGED <<designerOnly, designerOrGrid, gridOnly, codeOnly>>
  \/ key # None /\ G!Next /\ UNCHANGED <<designerOnly, sqlOnly, codeOnly>>
  \/ kind # None /\ C!Next /\ UNCHANGED <<designerOnly, designerOrGrid, sent, sqlOnly, gridOnly>>

SpecOfAny ==
  InitOfAny /\ [][NextOfAny]_<<designerOnly, designerOrGrid, sent, sqlOnly, gridOnly, codeOnly>>

Symmetry == Permutations(Values)

\* The properties of TableSql hold as they stand where there is no design.

\* The designer sends what it shows: rows and options.
SentIsShown == panel # None => D!SentIsShown /\ D!OptionsLagByOne

\* What the user enters into the designer stays, and he can go on.
EditsAreKept == panel # None => D!EditsAreKept /\ D!NotLocked

\* The grid and the database table hold the same rows, nothing is deleted that
\* was not selected and a row that waits can be saved.
RowsAreKept == key # None => G!GridIsStored /\ G!LostWereSelected /\ G!UnsavedIsOffered

\* The preview of a view, function or procedure is of the text shown.
PreviewIsText == kind # None => C!PreviewIsText

TypesOK ==
  /\ panel # None => D!TypeOK
  /\ table # None => TypeOK
  /\ key # None => G!TypeOK
  /\ kind # None => C!TypeOK
=============================================================================
