---------------------------- MODULE FileBrowser ----------------------------
(***************************************************************************)
(* The file browser of a storage or of a machine (FileSystem): a directory *)
(* that is shown, the changes that are asked of the server, an editor of   *)
(* one file and a dialog that renames one or makes a folder.  Editor and   *)
(* dialog share currentFileKey and confirmLoading.                         *)
(*                                                                         *)
(* One user, calls that are answered in any order, refused, or never       *)
(* answered: a promise of request.js is not settled when the network       *)
(* fails.  A change is made at the moment it is answered.                  *)
(***************************************************************************)
EXTENDS Naturals, Sequences, FiniteSets, SequencesExt

CONSTANTS
  Dirs,      \* directories, the same for the whole behaviour
  Names,     \* names of entries in them
  Texts,     \* contents of a file
  Folder,    \* the content of a folder
  Missing,   \* the page that is sent for a file that is not there
  None,
  MaxCalls,  \* bound on calls under way
  MaxAsked,  \* bound on calls made in one behaviour
  MaxHarm    \* bound on mishaps (Harms) in one behaviour

VARIABLES
  store,     \* the content of every path, None where there is nothing
  dir,       \* currentDirectory
  files,     \* the entries shown
  picked,    \* selectedRowKeys
  loading,   \* rows cannot be clicked
  loads,     \* listings under way: the directory, the answer once it is made
  calls,     \* other calls under way
  key,       \* currentFileKey
  editor,    \* fileContent, None while the editor is hidden
  dialog,    \* renameVisible or mkdirVisible
  busy,      \* confirmLoading
  typed,     \* history: what was typed and neither saved nor given up
  meant,     \* history: the file a rename was asked of
  asked,     \* how many calls were made
  harm       \* history: mishaps

listing == <<dir, files, picked, loading, loads>>
dialogs == <<key, editor, dialog, busy, typed, meant>>
vars == <<store, listing, calls, dialogs, asked, harm>>

Harms == {"failed", "overtaken", "partial", "resized", "late", "moved"}
Path == Dirs \X Names
Content == Texts \cup {Missing, Folder, None}
Entries(d) == [n \in Names |-> store[<<d, n>>]]
Call == [what : {"get", "put", "rm", "mv", "mkdir", "up"}, on : SUBSET (Path \cup {None}),
         text : Content, to : Path \cup {None}, of : Path \cup {None}, ok : BOOLEAN]
Asked(what, on, text, to) ==
  [what |-> what, on |-> on, text |-> text, to |-> to, ok |-> TRUE,
   of |-> IF what = "mv" THEN meant ELSE None]

Init ==
  /\ \E d \in Dirs, n \in Names, t \in Texts :
       /\ store = [p \in Path |-> IF p = <<d, n>> THEN t ELSE None]
       /\ dir = d
  /\ files = Entries(dir)
  /\ picked = {} /\ loading = FALSE /\ loads = <<>> /\ calls = {}
  /\ key = None /\ editor = None /\ dialog = "none" /\ busy = FALSE
  /\ typed = None /\ meant = None /\ asked = 0 /\ harm = {}

Marked(mishap, h) == IF mishap THEN harm \cup {h} ELSE harm
Room == Cardinality(calls) + Len(loads) < MaxCalls /\ asked < MaxAsked
\* Nothing covers the page.
Bare == editor = None /\ dialog = "none"
Shown(n) == n \in Names /\ files[n] # None
Load(d) == loads' = Append(loads, [dir |-> d, got |-> None, old |-> FALSE])
Counted == asked' = asked + 1

----------------------------------------------------------------------------
\* Listings.

\* A folder is opened, a path entered, or the list refreshed.
Open(d) ==
  /\ Room /\ Bare
  /\ Load(d) /\ loading' = TRUE /\ Counted
  /\ UNCHANGED <<store, dir, files, picked, calls, dialogs, harm>>

List(i) ==
  /\ loads[i].got = None
  /\ loads' = [loads EXCEPT ![i].got = Entries(loads[i].dir)]
  /\ UNCHANGED <<store, dir, files, picked, loading, calls, dialogs, harm, asked>>

\* The listings that are left when one is answered: those asked before are old.
Left(i) == RemoveAt([j \in DOMAIN loads |-> [loads[j] EXCEPT !.old = @ \/ j < i]], i)

\* The answer that arrives last is shown, whichever was asked last.
Listed(i) ==
  /\ loads[i].got # None
  /\ files' = loads[i].got /\ dir' = loads[i].dir
  /\ picked' = {} /\ loading' = FALSE /\ loads' = Left(i)
  /\ harm' = harm \cup (IF loads[i].old THEN {"overtaken"} ELSE {})
                  \cup (IF dialog # "none" /\ dir' # dir THEN {"moved"} ELSE {})
  /\ UNCHANGED <<store, calls, dialogs, asked>>

ListRefused(i) ==
  /\ loads[i].got = None
  /\ picked' = {} /\ loading' = FALSE /\ loads' = Left(i) /\ harm' = harm \cup {"failed"}
  /\ UNCHANGED <<store, dir, files, calls, dialogs, asked>>

\* The rows stay covered until another listing is answered.
ListLost(i) ==
  /\ loads' = Left(i) /\ harm' = harm \cup {"failed"}
  /\ UNCHANGED <<store, dir, files, picked, loading, calls, dialogs, asked>>

----------------------------------------------------------------------------
\* What is asked for.

Ask(c) == Room /\ c \notin calls /\ calls' = calls \cup {c} /\ Counted

Select(n) ==
  /\ Bare /\ ~loading /\ Shown(n)
  /\ picked' = SymDiff(picked, {n})
  /\ UNCHANGED <<store, dir, files, loading, loads, calls, dialogs, harm, asked>>

\* The button of a row, or the one for all selected rows.
Delete ==
  /\ Bare
  /\ \/ \E n \in Names : ~loading /\ Shown(n) /\ Ask(Asked("rm", {<<dir, n>>}, None, None))
     \/ picked # {} /\ Ask(Asked("rm", {dir} \X picked, None, None))
  /\ UNCHANGED <<store, listing, dialogs, harm>>

\* Files, or the folder they are in, are sent to the directory that is shown.
Upload ==
  /\ Bare
  /\ \/ \E N \in SUBSET Names \ {{}}, t \in Texts : Ask(Asked("up", {dir} \X N, t, None))
     \/ \E n \in Names : Ask(Asked("up", {<<dir, n>>}, Folder, None))
  /\ UNCHANGED <<store, listing, dialogs, harm>>

ShowEditor(n) ==
  /\ Bare /\ ~loading /\ Shown(n) /\ files[n] # Folder
  /\ Ask(Asked("get", {<<dir, n>>}, None, None))
  /\ UNCHANGED <<store, listing, dialogs, harm>>

Type(t) ==
  /\ editor \notin {None, t}
  /\ editor' = t /\ typed' = <<key, t>>
  /\ UNCHANGED <<store, listing, calls, key, dialog, busy, meant, harm, asked>>

HideEditor ==
  /\ editor # None
  /\ editor' = None /\ key' = None /\ typed' = None
  /\ UNCHANGED <<store, listing, calls, dialog, busy, meant, harm, asked>>

Edit ==
  /\ editor # None /\ ~busy
  /\ busy' = TRUE /\ Ask(Asked("put", {key}, editor, None))
  /\ UNCHANGED <<store, listing, key, editor, dialog, typed, meant, harm>>

\* Altered: the key is left as it is.
AlteredKey(n) == key

\* The file that is renamed, by the key the editor uses too.
Key(n) == <<dir, n>>

OpenRename(n) ==
  /\ Bare /\ ~loading /\ Shown(n)
  /\ dialog' = "rename" /\ key' = Key(n) /\ meant' = <<dir, n>>
  /\ UNCHANGED <<store, listing, calls, editor, busy, typed, harm, asked>>

OpenMkdir ==
  /\ Bare /\ dialog' = "mkdir"
  /\ UNCHANGED <<store, listing, calls, key, editor, busy, typed, meant, harm, asked>>

\* The new name is one in the directory that is shown when it is confirmed.
Rename(n) ==
  /\ dialog = "rename" /\ editor = None /\ ~busy
  /\ IF key = <<dir, n>>
       THEN dialog' = "none" /\ meant' = None /\ UNCHANGED <<calls, busy, asked>>
       ELSE /\ busy' = TRUE /\ UNCHANGED <<dialog, meant>>
            /\ Ask(Asked("mv", {key}, None, <<dir, n>>))
  /\ UNCHANGED <<store, listing, key, editor, typed, harm>>

Mkdir(n) ==
  /\ dialog = "mkdir" /\ editor = None /\ ~busy
  /\ busy' = TRUE /\ Ask(Asked("mkdir", {<<dir, n>>}, None, None))
  /\ UNCHANGED <<store, listing, key, editor, dialog, typed, meant, harm>>

CloseDialog ==
  /\ dialog # "none" /\ editor = None
  /\ dialog' = "none" /\ meant' = None
  /\ UNCHANGED <<store, listing, calls, key, editor, busy, typed, harm, asked>>

----------------------------------------------------------------------------
\* What is answered.

\* A file is shown, over whatever is open.
GotFile(c) ==
  /\ c.what = "get" /\ calls' = calls \ {c}
  /\ \E p \in c.on :
       /\ key' = p /\ store[p] # Folder
       /\ editor' = IF store[p] = None THEN Missing ELSE store[p]
  /\ harm' = Marked(typed # None \/ dialog = "rename", "late")
  /\ UNCHANGED <<store, listing, dialog, busy, typed, meant, asked>>

\* Altered: a file that is there is left as it is.
AlteredPut(c, s) == [p \in Path |-> IF p \in c.on /\ s[p] = None THEN c.text ELSE s[p]]

\* The storage once the text was written.
Put(c, s) == [p \in Path |-> IF p \in c.on THEN c.text ELSE s[p]]

\* The editor is hidden, whether the file was written or not, and whichever
\* file it shows by now.  The listing is not asked again.
Edited(c, written) ==
  /\ c.what = "put" /\ calls' = calls \ {c}
  /\ \A p \in c.on : written => store[p] # Folder
  /\ store' = IF written THEN Put(c, store) ELSE store
  /\ editor' = None /\ key' = None /\ busy' = FALSE
  /\ typed' = IF typed # None /\ store'[typed[1]] = typed[2] THEN None ELSE typed
  /\ LET other == typed # None /\ typed # <<CHOOSE p \in c.on : TRUE, c.text>> IN
     harm' = harm \cup (IF ~written THEN {"failed"} ELSE {})
          \cup (IF store' # store THEN {"resized"} ELSE {})
          \cup (IF dialog = "rename" \/ other THEN {"late"} ELSE {})
  /\ UNCHANGED <<listing, dialog, meant, asked>>

\* Altered: the listing is not asked again.
AlteredRefresh == UNCHANGED <<loads, loading>>

\* What follows a change: the directory that is shown by now is listed.
Refresh == Load(dir) /\ loading' = TRUE

\* One file of those to be deleted or sent.  A file that cannot be deleted is
\* passed over; one that could not be sent keeps the list from being refreshed.
Step(c, p, made) ==
  LET d == [c EXCEPT !.on = @ \ {p}, !.ok = @ /\ (made \/ c.what = "rm")]
      last == d.on = {} IN
  /\ c.what \in {"rm", "up"} /\ p \in c.on /\ (last \/ d \notin calls)
  /\ (made /\ c.what = "up") => (store[p] = Folder) = (c.text = Folder) \/ store[p] = None
  /\ store' = IF made THEN [store EXCEPT ![p] = c.text] ELSE store
  /\ calls' = (calls \ {c}) \cup IF last THEN {} ELSE {d}
  /\ IF last /\ d.ok THEN Refresh ELSE UNCHANGED <<loads, loading>>
  /\ harm' = Marked(c.what = "up" /\ ~made, "partial")
  /\ UNCHANGED <<dir, files, picked, dialogs, asked>>

\* A file takes the place of another, a folder takes none.
Moved(c, made) ==
  /\ c.what = "mv" /\ calls' = calls \ {c}
  /\ IF made
       THEN /\ \A p \in c.on : p # None /\ store[p] # None /\ (store[p] = Folder => store[c.to] = None)
            /\ store[c.to] # Folder
            /\ store' = [q \in Path |-> IF q \in c.on THEN None
                           ELSE IF q = c.to THEN store[CHOOSE p \in c.on : TRUE] ELSE store[q]]
            /\ Refresh
       ELSE UNCHANGED <<store, loads, loading>>
  /\ busy' = FALSE
  /\ dialog' = IF dialog = "rename" THEN "none" ELSE dialog
  /\ meant' = None
  /\ UNCHANGED <<dir, files, picked, key, editor, typed, harm, asked>>

\* Nothing is wrong with a folder that is there already.
Made(c, made) ==
  /\ c.what = "mkdir" /\ calls' = calls \ {c}
  /\ IF made
       THEN /\ \A p \in c.on : store[p] \in {None, Folder}
            /\ store' = [p \in Path |-> IF p \in c.on THEN Folder ELSE store[p]]
            /\ Refresh
       ELSE UNCHANGED <<store, loads, loading>>
  /\ busy' = FALSE
  /\ dialog' = IF dialog = "mkdir" THEN "none" ELSE dialog
  /\ UNCHANGED <<dir, files, picked, key, editor, typed, meant, harm, asked>>

\* Never answered: what was to follow does not happen, and a dialog that waits
\* keeps waiting.
CallLost(c) ==
  /\ calls' = calls \ {c} /\ harm' = harm \cup {"failed"}
  /\ UNCHANGED <<store, listing, dialogs, asked>>

Next ==
  /\ \/ \E d \in Dirs : Open(d)
     \/ \E i \in DOMAIN loads : List(i) \/ Listed(i) \/ ListRefused(i) \/ ListLost(i)
     \/ \E n \in Names : Select(n) \/ ShowEditor(n) \/ OpenRename(n) \/ Rename(n) \/ Mkdir(n)
     \/ \E t \in Texts : Type(t)
     \/ Delete \/ Upload \/ HideEditor \/ Edit \/ OpenMkdir \/ CloseDialog
     \/ \E c \in calls :
          \/ GotFile(c) \/ CallLost(c)
          \/ \E made \in BOOLEAN : Edited(c, made) \/ Moved(c, made) \/ Made(c, made)
          \/ \E p \in c.on, made \in BOOLEAN : Step(c, p, made)
  /\ Cardinality(harm') <= MaxHarm

Spec == Init /\ [][Next]_vars

----------------------------------------------------------------------------
TypeOK ==
  /\ store \in [Path -> Content] /\ dir \in Dirs
  /\ files \in [Names -> Content] /\ picked \subseteq Names /\ loading \in BOOLEAN
  /\ \A i \in DOMAIN loads :
       /\ loads[i].dir \in Dirs /\ loads[i].old \in BOOLEAN
       /\ loads[i].got = None \/ loads[i].got \in [Names -> Content]
  /\ calls \subseteq Call
  /\ key \in Path \cup {None} /\ editor \in Texts \cup {Missing, None}
  /\ dialog \in {"none", "rename", "mkdir"} /\ busy \in BOOLEAN
  /\ typed \in (Path \X Texts) \cup {None} /\ meant \in Path \cup {None}
  /\ harm \subseteq Harms

\* Once everything is answered the list shows what the directory holds, except
\* after a call that failed or was overtaken, and after a file of several was
\* refused or a file changed its size: those do not end with a refresh.
QuietListingIsTrue == (calls = {} /\ loads = <<>> /\ harm = {}) => files = Entries(dir)

\* What was typed in the editor stays in it until it is saved or given up,
\* unless saving it failed, or an answer arrived late: the editor shows the file
\* that was loaded last, and a save closes the file that is open when it ends.
TextIsKept == (typed # None /\ harm = {}) => typed = <<key, editor>>

\* A rename is of the file it was asked of, to a name in the same directory,
\* unless the editor used the key meanwhile or the directory shown has changed.
RenamesItsFile ==
  harm = {} => \A c \in calls : c.what = "mv" => c.on = {c.of} /\ c.to[1] = c.of[1]
============================================================================
