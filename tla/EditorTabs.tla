----------------------------- MODULE EditorTabs -----------------------------
(***************************************************************************)
(* The tabs of the SQL editor (VisibilityProvider and the panels that use  *)
(* it): one page, one user, a websocket that answers in order.             *)
(*                                                                         *)
(* The page keeps its tabs in React state.  What makes it hard is that a   *)
(* callback works on the state of the moment it was created: the request   *)
(* for a tab's identifier and the confirmation dialog carry the list of    *)
(* tabs they saw and write it back.  Some setters change a tab object in   *)
(* place, which every list that holds the object sees; others put a copy   *)
(* in the list.  Objects therefore have an identity here, and so have the  *)
(* arrays of results, which can be shared by two tabs.                     *)
(***************************************************************************)
EXTENDS Naturals, Sequences, FiniteSets, SequencesExt

CONSTANTS
  First,      \* the identifier "0" of the tab shown while the page loads
  Fresh,      \* the identifiers that /sqls/id gives out
  Tables,     \* tables that can be opened; their key is the tab's identifier
  NoDialog,
  MaxGen,     \* bound on tab objects
  MaxArr,     \* bound on arrays of results
  MaxRun,     \* bound on statements
  MaxStmt,    \* bound on the statements of one run
  MaxEdit,    \* bound on edits
  MaxHarm     \* bound on mishaps (Harms) in one behaviour

ASSUME BoundsOK == {MaxGen, MaxArr, MaxStmt} \subseteq Nat \ {0}
                   /\ {MaxRun, MaxEdit, MaxHarm} \subseteq Nat
ASSUME IdsDistinct == First \notin Fresh \cup Tables /\ Fresh \cap Tables = {}

Ids == {First} \cup Fresh \cup Tables
Obj == [id : Ids, gen : 1..MaxGen]

\* What the user or the network did that the page does not cope with.
Harms == {"early", "overtaken", "cancelled", "strayed", "rerun", "outdated",
          "orphaned", "paged", "reverted"}

VARIABLES
  tabs,     \* the state tabs: a sequence of objects
  active,   \* tabIndex
  text,     \* sql of an object: 0 is empty, other numbers name what was typed
  sel,      \* selectSql of an object
  arr,      \* the array that results of an object refers to
  list,     \* contents of the arrays
  gen,      \* objects created
  arrays,   \* arrays created
  asked,    \* first identifier asked for, not yet answered
  adds,     \* new tabs whose identifier is asked for: the list each request saw
  dialog,   \* the confirmation dialog: what it will do, and the state it saw
  pending,  \* statements whose timer has not fired
  wire,     \* statements sent and not answered
  runs,     \* statements of the runs and pages asked for; numbers the runs
  edits,    \* edits made
  typing,   \* what is typed and, for 300 ms, known to the editor alone
  mounted,  \* the object of a tab when its editor was put on the page
  crashed,  \* an effect has thrown and React has removed the page
  used,     \* identifiers given out
  wrote,    \* history: what the user last wrote in a tab
  lastRun,  \* history: the last run of a tab
  opened,   \* history: tabs the user has opened and not closed
  harm,     \* history: see Harms
  hurried   \* history: something else was done within those 300 ms

state == <<tabs, active, text, sel, arr, list, gen, arrays>>
net == <<asked, adds, dialog, pending, wire, used>>
count == <<runs, edits, crashed>>
hist == <<wrote, lastRun, opened, harm>>
screen == <<typing, mounted, hurried>>
vars == <<state, net, count, hist, screen>>

IdsOf(s) == {s[i].id : i \in DOMAIN s}
OpenIds == IdsOf(tabs)
\* getTabByID
ObjOf(s, id) == s[CHOOSE i \in DOMAIN s : s[i].id = id]
Active == ObjOf(tabs, active)
TypeOf(id) == IF id \in Tables THEN "filter" ELSE "editor"

\* Typed text that has not reached an object of a tab.
Settled == [tab |-> First, sql |-> 0]
Typed(id) == typing # Settled /\ typing.tab = id
\* What the editor of a tab shows, and the results below it.
Shown(id) == IF Typed(id) THEN typing.sql ELSE text[ObjOf(tabs, id)]
Results(id) == list[arr[ObjOf(tabs, id)]]

Req == [tab : Ids, page : BOOLEAN, n : 1..MaxStmt, run : 0..MaxRun,
        sql : 0..MaxEdit, shown : 0..MaxEdit]
Item == [tab : Ids, n : 1..MaxStmt, run : 0..MaxRun, ok : BOOLEAN]
Dialog == [what : {"close", "reset"}, id : Ids, tabs : Seq(Obj), active : Ids]

InFlight == pending \cup Range(wire)
Free == ~crashed /\ dialog = NoDialog
OnTab == Free /\ active \in OpenIds

\* The page as it loads, with its request for a first identifier.
Init ==
  LET o == [id |-> First, gen |-> 1] IN
  /\ tabs = <<o>> /\ active = First
  /\ text = [x \in Obj |-> 0] /\ sel = [x \in Obj |-> 0]
  /\ arr = [x \in Obj |-> 1] /\ list = [a \in 1..MaxArr |-> <<>>]
  /\ gen = 1 /\ arrays = 1
  /\ asked = TRUE /\ adds = {} /\ dialog = NoDialog
  /\ pending = {} /\ wire = <<>> /\ used = {First}
  /\ runs = 0 /\ edits = 0 /\ crashed = FALSE
  /\ wrote = [x \in Ids |-> 0] /\ lastRun = [x \in Ids |-> 0]
  /\ opened = {First} /\ harm = {}
  /\ typing = Settled /\ mounted = [x \in {First} |-> o] /\ hurried = FALSE

\* A new tab object with an array of its own at the end of the list s.
Push(s, id) ==
  /\ gen < MaxGen /\ arrays < MaxArr
  /\ gen' = gen + 1 /\ arrays' = arrays + 1
  /\ LET o == [id |-> id, gen |-> gen + 1] IN
     /\ tabs' = Append(s, o)
     /\ text' = [text EXCEPT ![o] = 0]
     /\ sel' = [sel EXCEPT ![o] = 0]
     /\ arr' = [arr EXCEPT ![o] = arrays + 1]
  /\ list' = list
  /\ active' = id
  /\ wrote' = [wrote EXCEPT ![id] = 0]

\* The answer to the request the page makes when it loads: whatever tabs there
\* are, they are replaced by one with the identifier given.
FirstId(f) ==
  /\ ~crashed /\ asked /\ f \notin used
  /\ asked' = FALSE /\ used' = used \cup {f}
  /\ Push(<<>>, f)
  /\ opened' = (opened \ {First}) \cup {f}
  /\ harm' = IF Len(tabs) = 1 /\ OpenIds = {First} /\ InFlight = {} /\ edits = 0
                /\ adds = {} /\ dialog = NoDialog /\ opened = {First}
             THEN harm ELSE harm \cup {"early"}
  /\ UNCHANGED <<adds, dialog, pending, wire, count, lastRun>>

\* addTab without a key: the identifier is asked for first.  Bounded by the
\* identifiers left, and one request at a time.
AddTab ==
  /\ Free /\ adds = {} /\ ~(Fresh \subseteq used)
  /\ adds' = adds \cup {tabs}
  /\ UNCHANGED <<state, asked, dialog, pending, wire, used, count, hist>>

\* Altered: the new tab takes the place of the tabs.
AlteredGotId(s, f) ==
  /\ ~crashed /\ s \in adds /\ f \notin used
  /\ adds' = adds \ {s} /\ used' = used \cup {f}
  /\ Push(<<>>, f)
  /\ opened' = opened \cup {f}
  /\ harm' = IF s = tabs THEN harm ELSE harm \cup {"overtaken"}
  /\ UNCHANGED <<asked, dialog, pending, wire, count, lastRun>>

\* ... and the new tab is put behind the tabs of the time of the click.
GotId(s, f) ==
  /\ ~crashed /\ s \in adds /\ f \notin used
  /\ adds' = adds \ {s} /\ used' = used \cup {f}
  /\ Push(s, f)
  /\ opened' = opened \cup {f}
  /\ harm' = IF s = tabs THEN harm ELSE harm \cup {"overtaken"}
  /\ UNCHANGED <<asked, dialog, pending, wire, count, lastRun>>

\* addTab with a key: a table that is open already is only shown.
OpenTable(k) ==
  /\ Free /\ k \in Tables
  /\ opened' = opened \cup {k}
  /\ IF k \in OpenIds
     THEN /\ active' = k
          /\ UNCHANGED <<tabs, text, sel, arr, list, gen, arrays, wrote>>
     ELSE Push(tabs, k)
  /\ UNCHANGED <<net, count, lastRun, harm>>

\* A click on another tab, and dragging a tab past its neighbour.
Switch(id) ==
  /\ Free /\ id \in OpenIds \ {active}
  /\ active' = id
  /\ UNCHANGED <<tabs, text, sel, arr, list, gen, arrays, net, count, hist>>

Drag(i) ==
  /\ Free /\ {i, i + 1} \subseteq DOMAIN tabs
  /\ tabs' = [tabs EXCEPT ![i] = tabs[i + 1], ![i + 1] = tabs[i]]
  /\ UNCHANGED <<active, text, sel, arr, list, gen, arrays, net, count, hist>>

\* Altered: the tab that was active stays so; or none is when none is left.
AlteredRemoveTab(id, s, a) ==
  /\ tabs' = SelectSeq(s, LAMBDA o : o.id # id)
  /\ active' = a

UndefinedTab(id, s, a) ==
  /\ tabs' = SelectSeq(s, LAMBDA o : o.id # id)
  /\ active' = IF tabs' = <<>> THEN NoDialog ELSE tabs'[1].id

\* removeTab on the list s and the tab a of the closure it was created in.  One
\* tab has the identifier at most (OneTabPerId).
RemoveTab(id, s, a) ==
  LET pos == CHOOSE i \in DOMAIN s : s[i].id = id
      known == id \in IdsOf(s)
      left == IF known THEN RemoveAt(s, pos) ELSE s
  IN /\ tabs' = left
     /\ active' = IF left = <<>> \/ a # id THEN a
                  ELSE IF known /\ pos > 1 THEN left[pos - 1].id
                  ELSE left[1].id

\* Closing a tab: one that holds text is asked about first.
CloseTab(id) ==
  /\ Free /\ id \in OpenIds
  /\ IF text[ObjOf(tabs, id)] # 0
     THEN /\ dialog' = [what |-> "close", id |-> id, tabs |-> tabs, active |-> active]
          /\ UNCHANGED <<tabs, active, hist>>
     ELSE /\ RemoveTab(id, tabs, active)
          /\ opened' = opened \ {id}
          /\ harm' = IF \E r \in InFlight : r.tab = id
                     THEN harm \cup {"orphaned"} ELSE harm
          /\ UNCHANGED <<dialog, wrote, lastRun>>
  /\ UNCHANGED <<text, sel, arr, list, gen, arrays, asked, adds, pending, wire,
                 used, count>>

\* The menus of a tab ask whatever the tab holds.
MenuClose ==
  /\ OnTab
  /\ dialog' = [what |-> "close", id |-> active, tabs |-> tabs, active |-> active]
  /\ UNCHANGED <<state, asked, adds, pending, wire, used, count, hist>>

\* The button that empties the editor.
AskReset ==
  /\ OnTab /\ TypeOf(active) = "editor"
  /\ dialog' = [what |-> "reset", id |-> active, tabs |-> tabs, active |-> active]
  /\ UNCHANGED <<state, asked, adds, pending, wire, used, count, hist>>

\* Both buttons of the dialog run the callback, and the callbacks of closing
\* and emptying do not look at their argument.
Answer(yes) ==
  /\ ~crashed /\ dialog # NoDialog
  /\ dialog' = NoDialog
  /\ IF dialog.what = "close"
     THEN /\ RemoveTab(dialog.id, dialog.tabs, dialog.active)
          /\ opened' = IF yes THEN opened \ {dialog.id} ELSE opened
          /\ UNCHANGED <<text, wrote>>
     ELSE /\ tabs' = dialog.tabs
          /\ text' = [text EXCEPT ![ObjOf(dialog.tabs, dialog.id)] = 0]
          /\ wrote' = IF yes THEN [wrote EXCEPT ![dialog.id] = 0] ELSE wrote
          /\ UNCHANGED <<active, opened>>
  /\ harm' = harm
       \cup (IF yes THEN {} ELSE {"cancelled"})
       \cup (IF tabs = dialog.tabs THEN {}
             ELSE IF dialog.what = "close" THEN {"overtaken"} ELSE {"reverted"})
       \cup (IF dialog.what = "reset" /\ sel[ObjOf(dialog.tabs, dialog.id)] # 0
             THEN {"outdated"} ELSE {})
       \cup (IF dialog.what = "close" /\ \E r \in InFlight : r.tab = dialog.id
             THEN {"orphaned"} ELSE {})
  /\ UNCHANGED <<sel, arr, list, gen, arrays, asked, adds, pending, wire, used,
                 count, lastRun>>

Edited ==
  /\ OnTab /\ edits < MaxEdit
  /\ edits' = edits + 1
  /\ wrote' = [wrote EXCEPT ![active] = edits + 1]
  /\ harm' = IF sel[Active] = 0 THEN harm ELSE harm \cup {"outdated"}
  /\ UNCHANGED <<tabs, active, sel, arr, list, gen, arrays, net, runs, crashed,
                 lastRun, opened, mounted, hurried>>

\* Typing in an editor: it waits until nothing has been typed for 300 ms.
\* Typing in a second editor while the text of a first one waits is left out.
TypeText ==
  /\ Edited /\ TypeOf(active) = "editor"
  /\ typing = Settled \/ Typed(active)
  /\ typing' = [tab |-> active, sql |-> edits']
  /\ UNCHANGED text

\* Typing in a filter: setTabWhere, at every change.
TypeFilter ==
  /\ Edited /\ TypeOf(active) = "filter"
  /\ text' = [text EXCEPT ![Active] = edits']
  /\ UNCHANGED typing

\* The 300 ms are over: setTabSQL writes to the tab that is active now.
Settle ==
  /\ ~crashed /\ typing # Settled
  /\ typing' = Settled
  /\ text' = [text EXCEPT ![Active] = typing.sql]
  /\ UNCHANGED <<tabs, active, sel, arr, list, gen, arrays, net, count, hist,
                 mounted, hurried>>

\* setTabSelectSql: selecting is noted, the end of a selection is not.  The
\* editor calls the function it was given when it was put on the page, which
\* writes to the object the tab had then.
Select ==
  /\ OnTab /\ TypeOf(active) = "editor" /\ Shown(active) # 0
  /\ sel' = [sel EXCEPT ![mounted[active]] = Shown(active)]
  /\ UNCHANGED <<tabs, active, text, arr, list, gen, arrays, net, count, hist>>

\* setTabValue and setTabAttrs put a copy of the active tab in the list; the
\* copy shares the array of results.  Formatting keeps the text but for its
\* layout, choosing a database keeps it as it is.
CopyActive ==
  LET o == [id |-> active, gen |-> gen + 1] IN
  /\ gen < MaxGen /\ gen' = gen + 1
  /\ tabs' = [i \in DOMAIN tabs |-> IF tabs[i].id = active THEN o ELSE tabs[i]]
  /\ text' = [text EXCEPT ![o] = text[Active]]
  /\ sel' = [sel EXCEPT ![o] = sel[Active]]
  /\ arr' = [arr EXCEPT ![o] = arr[Active]]
  /\ UNCHANGED <<active, list, arrays>>

Format ==
  /\ OnTab /\ TypeOf(active) = "editor" /\ text[Active] # 0
  /\ CopyActive
  /\ UNCHANGED <<net, count, hist>>

PickDatabase ==
  /\ OnTab /\ TypeOf(active) = "editor"
  /\ CopyActive
  /\ UNCHANGED <<net, count, hist>>

\* Altered: a selection is run, nothing else.
AlteredWhat == sel[Active]

\* What runQuery runs.
What == IF sel[Active] # 0 THEN sel[Active] ELSE text[Active]

\* Altered: the results stay.
AlteredFreshResults == UNCHANGED <<arr, arrays>>

\* setTabResults([])
FreshResults ==
  /\ arrays < MaxArr /\ arrays' = arrays + 1
  /\ arr' = [arr EXCEPT ![Active] = arrays + 1]

\* runQuery of the editor: a new array; the first statement goes out at once,
\* each of the others when its timer fires.
RunQuery(k) ==
  /\ OnTab /\ TypeOf(active) = "editor"
  /\ runs + k <= MaxRun /\ runs' = runs + k
  /\ sel[Active] # 0 \/ text[Active] # 0
  /\ FreshResults
  /\ LET stmt(n) == [tab |-> active, page |-> FALSE, n |-> n, run |-> runs + 1,
                     sql |-> What, shown |-> Shown(active)]
     IN /\ wire' = Append(wire, stmt(1))
        /\ pending' = pending \cup {stmt(n) : n \in 2..k}
  /\ lastRun' = [lastRun EXCEPT ![active] = runs + 1]
  /\ harm' = IF \E r \in InFlight : r.tab = active
             THEN harm \cup {"rerun"} ELSE harm
  /\ UNCHANGED <<tabs, active, text, sel, list, gen, asked, adds, dialog, used,
                 edits, crashed, wrote, opened>>

\* runQuery of the filter sends one statement at once; so does turning a page
\* of a result, whose tabId is the key of the result: no tab, in an editor.
Ask(turned) ==
  /\ OnTab /\ runs < MaxRun
  /\ TypeOf(active) = "filter" \/ turned
  /\ turned => Results(active) # <<>>
  /\ runs' = runs + 1
  /\ wire' = Append(wire,
       [tab |-> active, page |-> turned /\ TypeOf(active) = "editor", n |-> 1,
        run |-> runs + 1, sql |-> text[Active], shown |-> text[Active]])
  /\ lastRun' = IF TypeOf(active) = "editor" THEN lastRun
                ELSE [lastRun EXCEPT ![active] = runs + 1]
  /\ harm' = harm
       \cup (IF \E r \in InFlight : r.tab = active THEN {"rerun"} ELSE {})
       \cup (IF turned /\ TypeOf(active) = "editor" THEN {"paged"} ELSE {})
  /\ UNCHANGED <<state, asked, adds, dialog, pending, used, edits, crashed,
                 wrote, opened>>

\* A timer fires; those of one run fire in order, a second apart.
Fire(r) ==
  /\ ~crashed /\ r \in pending
  /\ \A q \in pending : q.run = r.run => q.n >= r.n
  /\ pending' = pending \ {r}
  /\ wire' = Append(wire, r)
  /\ UNCHANGED <<state, asked, adds, dialog, used, count, hist>>

\* The connection breaks: what was sent stays without an answer.
Drop ==
  /\ ~crashed /\ wire # <<>> /\ wire' = <<>>
  /\ UNCHANGED <<state, asked, adds, dialog, pending, used, count, hist>>

\* What the case tableRsesult does to the array of the asking tab.
Merged(s, it) ==
  LET old == {i \in DOMAIN s : s[i].n = it.n} IN
  IF it.ok /\ old # {} THEN [s EXCEPT ![CHOOSE i \in old : \A j \in old : i <= j] = it]
  ELSE Append(s, it)

\* Altered: the asking tab must be the active one.
AlteredNoTab(r) == r.page \/ r.tab # active

\* The code asks for a property of a tab that is not there.
NoTab(r) == r.page \/ {r.tab, active} \ OpenIds # {}

\* The answer to a statement.  The asking tab is looked up by tabId, and the
\* array it now has is given to the tab that is active.
Reply(ok) ==
  /\ ~crashed /\ wire # <<>>
  /\ wire' = Tail(wire)
  /\ LET r == Head(wire)
         it == [tab |-> r.tab, n |-> r.n, run |-> r.run, ok |-> ok]
     IN IF NoTab(r)
        THEN /\ crashed' = TRUE
             /\ UNCHANGED <<arr, list, arrays, harm>>
        ELSE /\ crashed' = FALSE
             /\ LET asker == ObjOf(tabs, r.tab) IN
                IF TypeOf(r.tab) = "editor"
                THEN /\ list' = [list EXCEPT ![arr[asker]] = Merged(@, it)]
                     /\ arr' = [arr EXCEPT ![Active] = arr[asker]]
                     /\ arrays' = arrays
                ELSE /\ arrays < MaxArr /\ arrays' = arrays + 1
                     /\ list' = [list EXCEPT ![arrays + 1] = <<it>>]
                     /\ arr' = [arr EXCEPT ![Active] = arrays + 1]
             /\ harm' = IF r.tab = active THEN harm ELSE harm \cup {"strayed"}
  /\ UNCHANGED <<tabs, active, text, sel, gen, asked, adds, dialog, pending, used,
                 runs, edits, wrote, lastRun, opened>>

\* What the user does with the tabs, and identifiers that arrive.
Deed ==
  \/ \E f \in Fresh : FirstId(f)
  \/ AddTab
  \/ \E s \in adds, f \in Fresh : GotId(s, f)
  \/ \E k \in Tables : OpenTable(k)
  \/ \E id \in Ids : Switch(id) \/ CloseTab(id)
  \/ \E i \in 1..MaxGen : Drag(i)
  \/ MenuClose \/ AskReset
  \/ \E yes \in BOOLEAN : Answer(yes)
  \/ Select \/ Format \/ PickDatabase
  \/ \E k \in 1..MaxStmt : RunQuery(k)
  \/ \E turned \in BOOLEAN : Ask(turned)

Statements ==
  \/ \E r \in pending : Fire(r)
  \/ Drop
  \/ \E ok \in BOOLEAN : Reply(ok)

\* Every editor on the page follows the text of the active tab.  Text that is
\* still typed survives a deed only if the editor stays and the active tab, the
\* same or another, has the text that the active tab had.
Followed ==
  /\ mounted' = [id \in IdsOf(tabs') |->
                   IF id \in OpenIds THEN mounted[id] ELSE ObjOf(tabs', id)]
  /\ typing' = IF /\ typing # Settled /\ typing.tab \in IdsOf(tabs')
                  /\ active' \in IdsOf(tabs') /\ TypeOf(active') = "editor"
                  /\ text'[ObjOf(tabs', active')] = text[Active]
               THEN typing ELSE Settled
  /\ hurried' = (hurried \/ typing # Settled)

Next ==
  /\ \/ Deed /\ Followed
     \/ TypeText \/ TypeFilter \/ Settle
     \/ Statements /\ UNCHANGED screen
  /\ Cardinality(harm') + (IF hurried' THEN 1 ELSE 0) <= MaxHarm

Spec == Init /\ [][Next]_vars

-----------------------------------------------------------------------------
\* Types.
TypeOK ==
  /\ tabs \in Seq(Obj) /\ active \in Ids
  /\ text \in [Obj -> 0..MaxEdit] /\ sel \in [Obj -> 0..MaxEdit]
  /\ arr \in [Obj -> 1..MaxArr] /\ list \in [1..MaxArr -> Seq(Item)]
  /\ gen \in 1..MaxGen /\ arrays \in 1..MaxArr
  /\ asked \in BOOLEAN /\ adds \subseteq Seq(Obj)
  /\ dialog = NoDialog \/ dialog \in Dialog
  /\ pending \subseteq Req /\ wire \in Seq(Req) /\ used \subseteq Ids
  /\ runs \in 0..MaxRun /\ edits \in 0..MaxEdit /\ crashed \in BOOLEAN
  /\ wrote \in [Ids -> 0..MaxEdit] /\ lastRun \in [Ids -> 0..MaxRun]
  /\ opened \subseteq Ids /\ harm \subseteq Harms
  /\ typing \in [tab : Ids, sql : 0..MaxEdit] /\ hurried \in BOOLEAN
  /\ mounted \in [OpenIds -> Obj]

\* The mishaps after which the open tabs are not those the user means.
Misplaced == {"early", "overtaken", "reverted", "cancelled"}

\* While tabs are open the active one is among them: every setter relies on it
\* (getTabByID(tabIndex).id), whatever stale list is written back, except that
\* emptying an editor writes back the list and not the active tab (setTabSQL).
ActiveIsOpen == "reverted" \notin harm => (tabs # <<>> => active \in OpenIds)

\* No two open tabs have one identifier, although tabs are put behind lists that
\* other tabs have joined or left since (addTab, removeTab).
OneTabPerId == \A i, j \in DOMAIN tabs : tabs[i].id = tabs[j].id => i = j

\* The identifier of the active tab stands for one tab, and for one that is open:
\* ActiveIsOpen and OneTabPerId.
ActiveIsOneTab == ActiveIsOpen /\ OneTabPerId

\* The page shows the tabs the user has opened and not closed, and each holds
\* what the user wrote in it last: the setters that copy a tab and those that
\* change it in place do not lose text.  Exceptions are an identifier or the
\* answer of a dialog that came after the tabs had changed, a user who acted
\* before the first identifier came or within 300 ms of typing, and closing
\* that was cancelled.
TabsAsLeft ==
  harm \cap Misplaced = {} =>
    /\ opened = OpenIds
    /\ hurried \/ \A id \in OpenIds : Shown(id) = wrote[id]

\* A tab shows its own results, an editor those of its last run, each statement
\* once, unless an answer
\* found another tab active, the run was started over a running one, or the
\* user acted before the first identifier came (tableRsesult, setTabResults).
ResultsAtHome ==
  harm \cap {"early", "overtaken", "reverted", "strayed", "rerun"} = {} =>
    \A id \in OpenIds : LET s == Results(id) IN
      /\ \A j \in DOMAIN s :
           /\ s[j].tab = id
           /\ TypeOf(id) = "editor" => s[j].run = lastRun[id]
      /\ \A j, k \in DOMAIN s : s[j].n = s[k].n => j = k

\* What is sent is what the editor shows, unless the text was changed after a
\* selection, which is never forgotten, a tab of an earlier time came back, or
\* the user was faster than the editor (runQuery, setTabSelectSql, SqlEditor).
RunsWhatIsShown ==
  harm \cap ({"outdated"} \cup Misplaced) = {} /\ ~hurried =>
    \A r \in InFlight : r.sql = r.shown

\* The page survives every order of answers as long as no tab with a statement
\* under way is closed or replaced and no page of an editor's result is turned.
CrashHasCause ==
  crashed => harm \cap (Misplaced \cup {"orphaned", "paged"}) # {}

\* "Are you sure?" with the answer no leaves the tab open (showConfirmModal has
\* a button "cancel" and tells the callback which of the two was pressed).
CancelKeepsTabs ==
  harm \cap (Misplaced \ {"cancelled"}) = {} => opened = OpenIds
=============================================================================
