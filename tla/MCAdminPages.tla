---------------------------- MODULE MCAdminPages ----------------------------
(* The form of a page, the table of a page, the file browser, or the page of *)
(* settings: a behaviour is about one of the four.                           *)
EXTENDS RecordForm, TLC

CONSTANTS Dirs, Names, Texts, Folder, Missing, MaxCalls, MaxAsked, MaxPressed

VARIABLES table, rows, keys, wanted, answers, ops, tests,
          store, dir, files, picked, loading, loads, calls, editor, dialog, busy,
          typed, meant,
          extra, tab, mounted, contents, touched, known, props, gets, puts, proxy,
          status, cooling, orders, checks, pressed

ASSUME NoneIsNoText == None \notin Texts

T == INSTANCE RecordTable
B == INSTANCE FileBrowser
S == INSTANCE Settings

formOnly == <<page, visible, copied, form, stuck, saving, opens, intent, wrote, last>>
formOrFiles == <<key, asked>>
tableOnly == <<table, rows, keys, wanted, answers, ops, tests>>
filesOnly == <<store, dir, files, picked, loading, loads, calls, editor, dialog, busy,
               typed, meant>>
settingsOnly == <<extra, tab, mounted, contents, touched, known, props, gets, puts, proxy,
                  status, cooling, orders, checks, pressed>>

NoForm ==
  /\ page = None /\ visible = FALSE /\ copied = FALSE /\ form = None /\ stuck = FALSE
  /\ saving = None /\ opens = 0 /\ intent = None /\ wrote = FALSE /\ last = None
NoTable ==
  /\ table = None
  /\ rows = {} /\ keys = {} /\ wanted = FALSE /\ answers = {} /\ ops = {} /\ tests = {}
NoFiles ==
  /\ store = None /\ dir = None /\ files = None /\ picked = {} /\ loading = FALSE
  /\ loads = <<>> /\ calls = {} /\ editor = None /\ dialog = "none" /\ busy = FALSE
  /\ typed = None /\ meant = None
NoSettings ==
  /\ extra = None /\ tab = None /\ mounted = {} /\ contents = None /\ touched = {}
  /\ known = None /\ props = None /\ gets = {} /\ puts = {} /\ proxy = None
  /\ status = FALSE /\ cooling = FALSE /\ orders = {} /\ checks = {} /\ pressed = 0

InitOfAny ==
  \/ Init /\ NoTable /\ NoFiles /\ NoSettings
  \/ T!Init /\ NoForm /\ NoFiles /\ NoSettings /\ key = None /\ asked = {}
  \/ B!Init /\ NoForm /\ NoTable /\ NoSettings /\ db = {}
  \/ S!Init /\ NoForm /\ NoTable /\ NoFiles /\ db = {} /\ key = None /\ asked = {}

NextOfAny ==
  \/ page # None /\ Next /\ UNCHANGED <<tableOnly, filesOnly, settingsOnly>>
  \/ table # None /\ T!Next /\ UNCHANGED <<formOnly, formOrFiles, filesOnly, settingsOnly>>
  \/ dir # None /\ B!Next /\ UNCHANGED <<formOnly, db, tableOnly, settingsOnly>>
  \/ extra # None /\ S!Next /\ UNCHANGED <<db, formOnly, formOrFiles, tableOnly, filesOnly>>

SpecOfAny ==
  InitOfAny
  /\ [][NextOfAny]_<<db, harm, formOnly, formOrFiles, tableOnly, filesOnly, settingsOnly>>

Symmetry == Permutations(Ids) \cup Permutations(Texts)

\* The properties of RecordTable, FileBrowser and Settings.  Those of RecordForm
\* hold as they stand where nothing is saved.
QuietTableIsTrue == table # None => T!QuietTableIsTrue
QuietListingIsTrue == dir # None => B!QuietListingIsTrue
TextIsKept == dir # None => B!TextIsKept
RenamesItsFile == dir # None => B!RenamesItsFile
\* The properties that nobody typed are kept, the proxy is started at its port, and
\* the page knows whether it runs.
SettingsHold == extra # None => S!UntouchedIsKept /\ S!StartsAsStored /\ S!StatusIsTrue
TypesOK ==
  /\ (page # None => TypeOK) /\ (table # None => T!TypeOK) /\ (dir # None => B!TypeOK)
  /\ (extra # None => S!TypeOK)
=============================================================================
