# Next-DBM: a TLA+ development

Next-DBM is a bastion for databases. Users work on assets either with their
own MySQL client, through an auditing proxy, or from the browser: through
terminals and desktops over websockets, and through an SQL editor. Every
connection leaves a *session record* that administrators list, watch, close and
later review, and every SQL statement of the proxy leaves an entry in a log.
Administrators keep users, assets, rules and jobs in pages of a web front end.

This directory holds TLA+ models of the parts of the system where goroutines,
records in a database, requests, callbacks and the state of a page have to agree:
the server (`src/server`, Go) and the front end (`src/web/src`, JavaScript with
React). It holds the TLC configurations that check them on small instances, and
proofs, checked by TLAPS, of the properties that matter most, for every value of the
constants. All of it is written from the source; `PROJECT.json` maps
each definition to the lines it stands for.

    tlasany M.tla                     parse a module
    tlc -config X.cfg MCModule        check an instance
    tlapm MariaDBProxyProofs.tla      check the proofs of a module

## 1. The system

### The server

| component | source | state it keeps | operations | talks to |
|---|---|---|---|---|
| MariaDB proxy | `proxy/mariaDB_proxy.go` | listener, map of connections, wait group, the data source and ssh settings, session records, SQL log | Start, accept loop, one handler per client, Stop | session records, licence, credential pool, backend, gateway |
| Proxy instances and credential pool | `proxy/proxy.go`, `service/property.go` | the published instance, the pool of users | start, stop, Reload from 15 places | users, assets, authorisations |
| Session records | `service/session.go`, `repository/session.go`, `api/session.go` | status, asset, times of a session | create, connect, disconnect, delete, clear, repair at start | everything that opens a session |
| Browser terminals, desktops, observers | `api/term.go`, `api/guacamole.go`, `global/session` | GlobalSessionManager, its observers, one websocket per tab | open, serve, watch, CloseSessionById under one global mutex | session records, gateways, backends |
| Ticker | `task/ticker.go` | none | hourly and six-hourly sweeps of records | session records, logs |
| Login, tokens, online state | `api/account.go`, `app/middleware/auth.go`, `service/user.go`, `service/access_token.go` | token cache, login log, online flag, counter of failures | login, request, logout, expiry, disable, delete, reload at start | users, roles, caches |
| Roles, menus, permission caches | `service/role.go`, `service/menu.go` | roles in the database and in two caches | create, update, delete, check | login, Auth |
| Access wall, login policies | `global/security`, `middleware/tcpwall.go`, `service/login_policy.go` | rules in the database, a map, a published slice | create, update, delete, decide | HTTP server, proxy |
| SSH gateways | `global/gateway`, `service/gateway.go` | one ssh client per gateway, its tunnels | open, close, reload | terminals, desktops, jobs |
| Scheduled jobs | `service/job*.go` | cron entries, job records | create, start, stop, run | gateways, assets |
| Pumps | `api/dbm_handler.go`, `api/guacamole_handler.go` | a buffer and a channel | read, write | websockets |
| Server side of the SQL editor | `common/dbm` | a client, a pending command | run, format | backends |
| Storage, backup, properties | `service/storage.go`, `backup.go`, `property.go` | files, records, a cache | upload, import, set | all |
| SSH server | `sshd` | none of its own | a menu over terminals | session records |

How they interact: the session record is where all of them meet. A handler of
the proxy, a handler of a terminal, the administrator, the ticker and the
start-up repair write the same row, with `UpdateById` and `DeleteById`, without a
version and mostly without a transaction. Shared memory (the proxy's fields, the
session manager, the caches) is guarded by mutexes in some places only. The
server is one process: when it dies all of that memory is gone and the records
stay.

What is hard, and what would make it correct:

* **Proxy.** Two clients share fields of the proxy that each handler writes and
  later reads; the accept loop, the handlers and Stop meet at a wait group;
  a database error can strike between any two of them. Correct means: a client
  works on the asset its record names; the wait group counts what Stop has to wait for;
  the licence holds however clients arrive; a statement that ran is logged; a
  record never comes back to life.
* **Browser sessions.** A tab may be opened twice, observers join while a
  session ends, four kinds of actors close sessions, and the browser's
  confirmation is a separate request that may come late. Correct means: no
  registered session without a goroutine, no goroutine that a close does not
  end, a status that follows what happened.
* **Tokens, access wall, pool, gateways, jobs.** A request, a rule, a reload, a
  tunnel or a cron entry that overlaps another one of its kind. Correct means: whoever is
  logged out holds no token, the rules in force are those of the table, the pool is what the
  table says, there is no tunnel without an ssh client, one entry per running job.

### The front end

Paths are below `src/web/src/components`.

| component | source | state it keeps | operations | talks to |
|---|---|---|---|---|
| Dialogs of records | `asset/*Modal.js`, `user/*Modal.js`, ... (23 pages) | key of the chosen record, whether the dialog shows, its form | new, edit, copy, type, save, cancel | the storage of records |
| Tables of records | `log-audit`, `session`, `asset`, `authorised`, ... (17 tables) | rows, selection | reload, select, add, delete, delete all, test connections | the same |
| File browser | `devops/FileSystem.js` | directory, entries, selection, editor, dialogs, one key for both | list, upload, edit, rename, mkdir, delete | storages and machines |
| Settings | `setting/Setting.js` | seven forms, the status of each proxy | fill, save, change language, start and stop a proxy | properties, proxy instances |
| SQL editor: tabs | `sqleditor/.../visibilityProvider.js`, `TabBoxPanel` | list of tabs, active tab, text, selection, results | open, drag, close, type, run, answer | one websocket |
| SQL editor: tree | `TableTreePanel`, `DBM/Database` | the nodes, those shown, the node of the menu, the answer to be worked on | expand, search, refresh, create, rename, copy, truncate, drop, export | the same |
| SQL editor: connections | `sqleditor/DBEditor.js`, `Utils/webSocketManager.js` | websocket, session, timers, maps per asset | connect, lose, reconnect, expand, collapse | session API, websockets |
| SQL editor: designer | `TabBoxPanel/DesignerPanel` | rows of five panels, their copies, the statement | add, edit, drag, delete, save, refresh | the tab, the websocket |
| SQL editor: statements | `Utils/SQLConverter/mysql.js` | none | create a table, read one back, rows, views, routines | designer, grid, panels |
| SQL editor: grid | `TabBoxPanel/components/Table.js`, `Editable.js` | rows shown, the row that waits | page, add, change, save, discard, delete | the websocket |
| SQL editor: panels of code | `ViewPanel`, `FunctionPanel`, `ProcedurePanel` | the text three times, attributes, preview | type, choose, save | the tab, the websocket |

How they interact: a page holds React state. Requests are answered in any order or not
at all (`request.js` settles no promise when the network fails), and their callbacks work
on the state of the render they were created in. The components of the SQL editor
share one context (`VisibilityProvider`) that every callback may write.

What is hard, and what would make it correct:

* **Dialogs and tables.** A record is fetched while another is asked for; the form outlives the
  dialog; a test writes back rows of an earlier moment. Correct means: what
  is saved is of the record meant, what was typed is in it, what is shown is what there is.
* **File browser.** The listing that arrives last is shown, whichever directory it is of; editor and
  rename share a key. Correct means: the list is that of the directory, an edit and a rename are of the file they
  were opened on.
* **Settings.** Every answer fills all forms; the status lags behind the server. Correct means: a
  save does not change what nobody typed, and the proxy is started once, at the stored port.
* **Tabs.** Identifiers, answers and dialogs arrive after the tabs have changed. Correct means: one
  tab is shown, each has what was written in it, results go to the tab that asked.
* **Tree and connections.** Nodes are named by position; answers overwrite each other; each lost connection
  starts a timer. Correct means: when all is answered the tree is that of the server; a page is neither without a
  connection nor does it make them without end.
* **Designer, grid, panels, statements.** The same rows or text exist two or three times. Correct
  means: what is sent is what is shown and what the user entered, and MySQL accepts it.

`PROJECT.json` lists the hazards one by one, each at its line, and which
property is aimed at it; those that no property covers say why.

## 2. The modules

| module | what it is |
|---|---|
| `AuditedSession` | the abstract promise: what may happen to a session record, whoever writes it |
| `MariaDBProxy`, `MCMariaDBProxy` | one proxy instance, its connections and their records |
| `MariaDBProxyProofs` | types, wait group, licence, Stop; `MariaDBProxy` implements `AuditedSession`; the list of connected sessions; the log |
| `WebSession`, `MCWebSession` | terminals, desktops, observers, closes, confirmation, sweeps |
| `WebSessionProofs` | types, no ghosts in the session manager, what confirmed means |
| `AdminPages` | what tells the pages of records apart: one record for each dialog, page and table |
| `RecordForm` | the dialog of such a page |
| `RecordTable` | the table of such a page |
| `FileBrowser` | the file browser |
| `Settings` | the page of settings and the proxy it starts |
| `MCAdminPages` | the four of them as one specification |
| `AdminPagesProofs` | all its invariants: dialogs, tables, file browser, settings |
| `EditorTabs`, `MCEditorTabs` | the tabs of the SQL editor |
| `EditorTabsProofs` | all its invariants |
| `EditorTree` | its tree, the menus, the answers |
| `EditorTreeProofs` | types of the tree, tabs of tables |
| `EditorTruthProofs` | that a quiet tree is true |
| `EditorLink`, `EditorLinkProofs` | its connections |
| `MCEditorTree` | these two as one specification |
| `Designer` | the table designer and its five panels |
| `TableSql` | CREATE TABLE, written and read back |
| `RowGrid` | the rows of a result, changed in place |
| `CodePanels` | views, functions and procedures |
| `MCEditorParts` | these four as one specification |
| `EditorPartsProofs` | all its invariants |

Operators whose name begins with "Altered" or whose comment does are deliberate mutations of the
definition that follows. No specification uses them; they exist to show that a
property would notice the bug.

**Mishaps.** The pages cannot be correct under every order of answers, and the models do
not hide it. A front-end module has a history variable `harm`: an action in which the code
does something a user would call wrong because of what happened before (an answer came after the tabs
had changed, a form was saved before it was filled) adds the name of that mishap.
Each property says which mishaps excuse it and holds under all others. So a
property is two statements: these are the ways in which it fails, and there is no
other. `MaxHarm` bounds how many *different* mishaps a behaviour
contains; with one, every mishap is examined by itself, and every property not excused by it
is checked in all that follows from it. Most mishaps are listed among the hazards.

### AuditedSession

A record is inserted as connecting, bound to one asset and connected at most once, and
once disconnected or deleted it never comes back. This is what an auditor
relies on; no single function of the code says it.

### MariaDBProxy

| variable | code |
|---|---|
| `listener`, `stop`, `wg`, `connections` | `mp.listener`, the progress of `Stop`, the counter of `mp.connManager`, `mp.connections` |
| `loop` | the goroutine `acceptConnections` |
| `dataSource`, `sshConfig` | the two fields of the proxy all handlers share |
| `pc`, `want`, `target`, `asset` | where a handler is; its local asset; what it connects to; `session.AssetId` |
| `sock` | the client's TCP connection |
| `row`, `rowAsset` | status and asset of the record in the database |
| `ran`, `logged` | statements executed on the backend; entries in `sql_logs` |

Grain: a step ends where another goroutine can observe or change something the
next step depends on. So `connManager.Add`, the insert of the record and
`AddConnection` are three steps of the accept loop; writing `sshConfig`, writing
`dataSource`, updating the record, reading `sshConfig` and reading the target are
five steps of the handler; the deferred function is two, since the record is
written after the connection has left the map and the wait group; and the error
branch of the caller, which writes the record and the map again, is one more.
Stop is three steps. A statement is executed in one step and logged in another.

`Accept`, `Admit`, `CreateRow`, `Register`, `LoopEnd` are the body of
`acceptConnections`; `Handshake` to `CheckLicense` are `handleConnection`; `Execute`,
`AnswerAi`, `LogSql`, `ReadFails` are `processCommand`; `Detach`, `EndRow`,
`ReportError` are what happens when a handler returns; `ForceDisconnect` and
`DeleteRow` are the session API as it acts on a record of the proxy (whose
connection the session manager does not know); `Crash` and `Restart` are the
death of the process and `FixSessionState`.

`UpdateRow` models gorm's `Updates`: zero fields are not written, and a row that
is no longer there is not created. `Faults` names the statements of the database
that may fail: "create", "update", "log".

Abstractions: credentials and addresses are an asset; the pool accepts any user,
so a login may be for any asset; the policy may refuse; `allowIP` may refuse; the
AI service is part of `Execute`. A session's identifier is the connection's, since
both are fresh UUIDs. What a client sent before it left is taken as read before
it left. A handler that panics outside `processCommand` is not modelled: the
recovery skips the caller's error branch, which only writes again what the
deferred function wrote. After a restart a new instance is started; connections of
the earlier life stay "gone".

### WebSession

`Mode` selects the handler: "native" for `SshEndpoint`, which writes the record
and then registers, "guacd" for `Guacamole`, which registers first. `manager` is
GlobalSessionManager; `observers` the Observer of each registered session;
`closing` the global mutex of `CloseSessionById` with the progress of its holder:
the session is looked up, its websocket closed, its observers cleared, its
identifier deleted, its record ended, each a step of its own, because handlers
register and observers join without that mutex. `connect` holds the requests
with which pages confirm that they are connected (`Term.js`, `updateSessionStatus`);
they may be handled at any later time. `sweep` is the list of identifiers the ticker or
the clear endpoint read before it deletes them one by one. Several handlers may
serve one session: the page sends the same identifier when it is reloaded and
nothing in the server refuses it.

### AdminPages, RecordForm, RecordTable

The pages that keep records were written along one pattern, and each departs from it somewhere: the
record is fetched by an effect or by `useQuery` under a key that does not tell records apart; the form is reset
on closing or not; the key of the chosen record survives a save or not. `AdminPages` has one definition for
each dialog, page and table that says how it departs, read from that file; `RecordForm` and
`RecordTable` are the pattern, with guards on these fields, and a behaviour begins with any page.

`RecordForm`: `key` is `selectedRowKey`; `form` the values in the antd form, the record they came from (`from`) and the
`id` under which they will be saved; `asked` the requests for records; `saving` the save, while `confirmLoading`.
`intent`, `wrote` and `last` remember what the dialog was opened for, whether something was typed, and
the last save. Actions: `New`, `Edit`, `Copy`, the answer to a request, typing, saving with both answers,
cancelling, the other dialogs of the page that use the same key.

`RecordTable`: `rows` and `keys` are what is shown and selected; `wanted`, `answers` the reload that is due and
those under way, `ops` the changes under way, `tests` connection tests with the rows of the moment they
were started in.

### FileBrowser

`store` is what the server has, `dir` and `files` what is shown, `loads` the listings and `calls` the changes
under way. `key` is `currentFileKey`, which the editor, the rename dialog and the upload share. `typed` and `meant`
remember what was typed and what a rename was asked of. A call is answered, refused or never answered;
an upload or a deletion of several files is carried out file by file, and may fail in part.

### Settings

Three tabs stand for seven: the first, that of the proxy, and one of the others. `contents` is what each form holds,
`known` the port among the properties the first form was handed (antd's form keeps values it has no field
for, and the start button reads the port there). `Got` fills every form that is mounted; `ChangeLanguage` draws
the tabs anew, empty, and asks for nothing. `proxy` is the server: a start publishes a new instance,
the port of a listener that was replaced stays in `lost`, and a port that is taken ends the process
(`log.Fatal`). Clients of the proxy, for whom a stop waits, are left to `MariaDBProxy`.

### EditorTabs

A tab is an object with an identity (`Obj`), since setters change some objects in place, which every list that
holds them sees, and copy others; `arr` names the array of results an object refers to, which two tabs can share.
`asked` says that the identifier of the first tab, for which
the page asks as it loads, has not come yet; `adds` are requests for the identifier of a new tab, each with the list of tabs it saw; `dialog` the
question before tabs are closed, with the state it saw; `pending` and `wire` the statements whose timer has not
fired and those sent; `typing` what the editor knows and the tab does not yet, for 300 ms. `crashed`: an effect has thrown and React has
removed the page.

### EditorTree and EditorLink

`EditorTree`: a node is named by its place (`tree`, with the prefix the request was given); `jsonObject` is the one
variable in which an answer waits until the page is drawn, a list of at most one; `Execute` is the server, in order;
`Work` the effect that changes the tree. A question or a name that is asked for keeps the node it was asked about (`dialog`), so it can be
answered after the tree was replaced (`Outlived`). The menus (`DatabaseItems`, `TableItems`), the dialogs they open, exports
with their notification (`progress`), and the search (`shown`) are there.

`EditorLink`: with one asset `initWebSocket` and its timers (`timers`, each named by the connection whose end started
it; `held`, the one that can be stopped); with several assets the map of `WebSocketManager` and the pings. A connection is
asked for, connecting, open, closing, closed or refused.

### Designer, TableSql, RowGrid, CodePanels

`Designer`: `parent` is what the designer holds and writes the statement from, `local` the copy its panel shows,
`base` the structure kept with the tab, which is handed out again at every change of any tab. The five panels
are records that say how each departs. `TableSql`: of the text of `createTable` the commas, of `parseCreateTableSql` which
indexes and columns it finds. `RowGrid`: `shown` against `db`, with the row being added, the row that waits to be saved and the statements
under way; `key` says what the primary key is. `CodePanels`: the text in the widget, in the editor component
and in the panel, and the preview built from it.

## 3. What TLC checks

Passing runs (states are distinct states):

| run | instance | shows |
|---|---|---|
| `proxy_safety` | 2 clients, 2 assets (one behind a gateway), licence 1, 1 statement per client, inserts into sessions and log may fail, kills, deletions, crashes; 534 thousand | `TypeOK`, `WaitGroupExact`, `LicenceCap`, `ConnectedIsLive`, `AuditKeepsUp`, `StopDrains`, and the refinement `KeepsPromise` |
| `proxy_live` | the same without crash and statements; 391 thousand | `SessionEnds`, `StopReturns` |
| `web_desktop` | desktop: 1 session, 2 tabs, 1 observer, the administrator, sweeps, restarts; 124 thousand | `NoGhost`, `ConfirmedWasDialled` |
| `web_live` | terminal: 1 session, 2 tabs, the administrator, sweeps, updates may fail; 51 thousand | `KickEnds`, `LeaverForgotten` |
| `admin_pages` | any of 23 dialogs with 2 records and 2 openings; any of 17 tables; the file browser with 2 directories, 2 names, 2 texts, 2 calls; settings with 3 buttons pressed; 965 thousand | `SavesAsMeant`, `TypedIsSaved`, `QuietTableIsTrue`, `QuietListingIsTrue`, `TextIsKept`, `RenamesItsFile`, `SettingsHold`, types |
| `editor_tabs` | the first tab, one fresh identifier, one table; 3 tab objects, 3 arrays, 2 statements, 1 edit; 1.9 million | `ActiveIsOneTab`, `TabsAsLeft`, `ResultsAtHome`, `RunsWhatIsShown`, `CrashHasCause`, types |
| `editor_tree` | connections: 2 assets, 4 connections; tree: 2 databases, 2 names of tables, 1 tab, 5 statements, of which one is executed and one answer is worked on at a time; 1.4 million | `NeverAlone`, `ConnectedIsQuiet`, `ExpandedIsConnected`, `QuietTreeIsTrue`, `TabsAreOfTables`, types |
| `editor_parts` | designer: 3 rows, 2 options, 2 edits; statements: 2 parts of each kind; grid: 4 rows by key, 2 statements; panels: 2 texts; 923 thousand | `SentIsShown`, `EditsAreKept`, `AcceptedDesigns`, `ReadIsTable`, `RowsAreKept`, `PreviewIsText`, types |

In `admin_pages`, `editor_tree` and `editor_parts` a behaviour is about one of several modules
that share nothing: the MC module starts one of them and leaves the variables of the
others alone (it extends one of the modules, and takes the others with INSTANCE). `SettingsHold` joins `UntouchedIsKept`, `StartsAsStored` and `StatusIsTrue`;
`RowsAreKept`, `SentIsShown`, `EditsAreKept` are joined likewise in `MCEditorParts`.

Disagreements. Each of these runs checks one statement that a document, a comment or a label of
the repository makes, and TLC finds a behaviour of the code that contradicts it:

| run | statement | what happens |
|---|---|---|
| `proxy_wrong_asset` | user-asset interactions are audited (`README.md:57`) | two logins overlap and the first client's statements run on the second client's asset, while its record and log name its own |
| `proxy_forced` | "the administrator has closed this session by force" (`api/session.go:145`) | the record is closed, the connection goes on |
| `editor_cancel` | a button "cancel" (`visibilityProvider.js:1349`) | the dialog calls its callback for both buttons, and the tabs are closed |
| `panel_save` | a button "save" (`FunctionPanel/Buttons.js`) | what is sent is the text of the tab, which the panel never writes |

**Bounds, server.** All races in the proxy are between one handler and one other actor:
another handler, the accept loop, Stop, the administrator. Two clients, two assets
with different gateways and one statement each bring all of these about; the
licence is lowered to one so that two clients already exceed it (the code says 3,
and `CheckLicense` compares a cardinality with it, nothing else depends on the
number); `proxy_wrong_asset` raises it to two so that both are served. In
`WebSession` two tabs and one observer suffice for a close that meets a newer registration
and for an observer that comes late; sessions only share the mutex, and the proof
covers any number of them. `MaxCmds` is the only counter bound; `proxy_live`
sets it to zero because a client that sends for ever is a client that has not left.

**Bounds, front end.** One user acts, so a race is between a request under way and the next one or two things he does.
Two records and two openings of a dialog give an answer that comes after the dialog was opened for
another record. Two calls under way overtake each other. Three buttons of the settings
are enough to choose the tab, start the proxy and start or stop it again, or to choose, change language and save.
Two statements of one run with two tabs that can be shown give an answer for the tab that is not; one edit tells
an edited tab from one that is not, as `RunsWhatIsShown` needs no more. Three connections after the first let two timers overlap.
A name that comes before that of the one table there is makes a new table shift it, and dropping that table
gives the empty list; the fifth statement is the one sent after a question was asked, the tree refreshed and an answer worked on. While an answer waits to be worked on, the next statement is sent, executed and
answered, which overwrites it. The comma
rules depend on whether a list is empty, has one part or has more: two of each kind decide, and the
theorem covers any number. Symmetry is over connections, handlers, records, texts and values of cells, in runs without
liveness, and over nothing that is ordered or chosen from.

**Fairness.** `MariaDBProxy!LiveSpec`: a goroutine that can run does (weak
fairness of the loop, of each handler and of Stop); a read on a closed socket fails;
every client leaves some day, because Stop waits for clients and does not
disconnect them; and the backend answers in the end, because `createMariaDBClient`
retries it every ten seconds for ever. The last two are assumptions on the
environment, and both are needed: without them the handler never returns, the
record stays connected and Stop never returns. `StopReturns` further needs an
insert of a session record never to fail ("create" is not among the faults), since
`CreateRow` leaves the wait group one too high. `WebSession!LiveSpec`: weak
fairness of handlers and of the holder of the mutex (the writes of a close
return, which the code does not ensure for a browser that stops reading: there is
no write deadline), strong fairness for those who wait for the mutex, which Go's
mutex gives in its starvation mode. Neither specification lets the process die:
liveness is about one life of it. The pages promise nothing that must happen: their
requests may stay unanswered for ever, so their specifications state no fairness, and their
properties speak of the states in which nothing is under way.

`CHECK_DEADLOCK FALSE` stands where the system may stop: in the runs with liveness, which end when all
clients are done, and in those of pages, where the bounds on what the user does end a behaviour.
`proxy_safety` and `web_desktop` have neither and are checked for deadlock.

## 4. What is proved

| theorem | assumes | states |
|---|---|---|
| `MariaDBProxyProofs!TypeCorrect` | `ConstantsOK` | `TypeOK`; the wait group never becomes negative, so `Done` never panics |
| `MariaDBProxyProofs!WaitGroup` | | the wait group counts the connections admitted and not detached, plus those a failed insert left behind |
| `MariaDBProxyProofs!Licence` | | never more than the licensed number of connections are served |
| `MariaDBProxyProofs!Drained` | | when Stop returns no handler is inside `handleConnection` |
| `MariaDBProxyProofs!PromiseKept` | | `MariaDBProxy` implements `AuditedSession` |
| `MariaDBProxyProofs!ListedIsLive` | | a connected record has a running handler, unless updates fail |
| `MariaDBProxyProofs!AuditLag` | | at most one executed SQL statement is not logged, and nothing runs after a missing one |
| `WebSessionProofs!NoGhosts` | terminals, or updates that do not fail | a registered session has a goroutine that will unregister it |
| `WebSessionProofs!WebTypes` | | types; no observer goes on with a session that is not there |
| `WebSessionProofs!Confirmed` | | a record is connected only if a handler dialled the backend |
| `EditorLinkProofs!LinkTypes` | `LinkAssumption`, and those of `TreeTypes` | types of `MCEditorTree`: of connections, timers and maps, or of the tree |
| `EditorLinkProofs!LinkNeverAlone` | | `NeverAlone`, for any number of reconnections |
| `EditorLinkProofs!LinkIsQuiet` | | `ConnectedIsQuiet` |
| `EditorLinkProofs!LinkIsOfNodes` | | `ExpandedIsConnected`, for any number of assets |
| `EditorTreeProofs!TreeTypes` | `NamesAreOrdered`, `TablesAreNamed`, `SendsAreCounted`, `NoneIsNoNode` | types of the tree, the menus, the tabs and what is under way |
| `EditorTreeProofs!TabsAreTrue` | | `TabsAreOfTables`, for any databases, tables and number of tabs |
| `EditorTruthProofs!QuietTree` | | `QuietTreeIsTrue`, for any databases, tables and number of statements under way |
| `AdminPagesProofs!PagesTypes` | `NoneIsNoRecord`, `OpeningsAreCounted`, `NoneIsNoText` | types of dialogs, tables, file browser and settings |
| `AdminPagesProofs!PagesSaveAsMeant` | | `SavesAsMeant`, on all pages, for any number of openings |
| `AdminPagesProofs!PagesSaveTyped` | | `TypedIsSaved`, likewise |
| `AdminPagesProofs!TablesAreTrue` | | `QuietTableIsTrue`, for any set of records |
| `AdminPagesProofs!ListingsAreTrue` | | `QuietListingIsTrue`, for any directories and any number of calls under way |
| `AdminPagesProofs!EditorsKeepText` | | `TextIsKept`, for any files and texts |
| `AdminPagesProofs!RenamesAreMeant` | | `RenamesItsFile` |
| `AdminPagesProofs!SettingsAreTrue` | | `SettingsHold`, which the next three make up |
| `AdminPagesProofs!UntouchedKept` | | `Settings!UntouchedIsKept`, for any texts and any number of saves |
| `AdminPagesProofs!StartedAsStored` | | `Settings!StartsAsStored` |
| `AdminPagesProofs!StatusTold` | | `Settings!StatusIsTrue`, for any number of starts and stops |
| `EditorTabsProofs!TabTypes` | `BoundsOK`, `IdsDistinct` | types; every identifier, tab object and array in use is one that was handed out |
| `EditorTabsProofs!ActiveTabIsOne` | | `ActiveIsOneTab`, for any number of tabs |
| `EditorTabsProofs!CrashesHaveCauses` | | `CrashHasCause`, for any number of statements |
| `EditorTabsProofs!TabsAreAsLeft` | | `TabsAsLeft`, for any number of tabs and edits |
| `EditorTabsProofs!ShownIsRun` | | `RunsWhatIsShown` |
| `EditorTabsProofs!ResultsAreAtHome` | | `ResultsAtHome`, for any number of tabs, runs and statements |
| `EditorPartsProofs!PartTypes` | `KeysAreTimes`, `BoundsAreNumbers` | types of designer, statements, grid and panels of code |
| `EditorPartsProofs!DesignSentIsShown` | | `SentIsShown`, in all five panels, for any number of rows |
| `EditorPartsProofs!DesignIsKept` | | `EditsAreKept`, for any number of rows and edits |
| `EditorPartsProofs!IndexReadIsTable` | | `ReadIsTable`, for any list of indexes |
| `EditorPartsProofs!GridRowsAreKept` | | `RowsAreKept`, for any number of rows and statements |
| `EditorPartsProofs!PreviewIsOfText` | | `PreviewIsText`, for any texts |
| `EditorPartsProofs!CreateTableAccepts` | | the text of `createTable` is well formed exactly for the accepted designs, of any size |
| `EditorPartsProofs!DesignsAccepted` | | `AcceptedDesigns` along every behaviour |

All hold for any finite set of clients, all assets, gateways, records and texts, every licence, every bound and
every combination of faults. The assumptions say that null is not a record, a text or a row, that
the identifiers a page is given differ from the names of tables (a UUID is none), that rows of the designer are keyed by the time they were added at, and
that the names of databases and tables are finitely many and have an order, the one MySQL lists them in, and
that bounds are numbers; TLC evaluates each of them on the instance it checks.

**The proxy.** `IInv` is `TypeOK`, `WaitGroupExact` and `LicenceCap` with what they need to
be inductive. `WaitGroupExact` gives `TypeOK` for the wait group: `Detach`
subtracts one from a positive number because its connection is counted.
`LicenceCap` is not inductive, since `CheckLicense` looks at the map and not at the
connections that are served: `MapExact` says that the map holds the connections
inside `handleConnection`, the one that asks included, so a connection let through
finds at most `MaxLive` in the map and all that are served are among them; and a map with
concurrent logins only counts more. `LoopOff` lets `Start` replace the map by an empty one. `WantKnown` types
the shared fields. `Drained` follows from `WaitGroupExact` alone: counter
zero, no connection counted.

For the refinement, `RecordOf` ties a record to the place of its handler: no record before it is
created; without an asset, and connecting or deleted, until the handler binds it;
and bound to no asset but the handler's own afterwards. Then each update is `Bind`, `Finish` or a stutter,
whatever the administrator has done in between. `ListedIsLive` adds that a
process that is down has no accept loop, so a restart cannot meet a live handler. `AuditLag` is an
invariant of one connection's counters.

**Browser sessions.** `NoGhosts` needs `HolderKnown`: a handler that holds the mutex waits in its own close, for its own
session, and after `Del` it is not registered any more. It can only be registered by itself, and it
cannot register while it is closing. `Hosted` gives observers that hold the mutex a handler to name.
A desktop registers before its update, and one that fails returns
without unregistering (`guacamole.go:156`), so for desktops the theorem excludes that fault (`UpdatesOrNative`).
`WebTypes` rests on the check that a session was found before an observer joins it; `Confirmed` on
requests to connect, and handlers that write so, existing only for sessions that were dialled.

**Connections.** `LinkInv` ties each of the page's variables to the state of its connections: a timer is the one that is
held, or an attempt has failed or overlapped; a live connection of an asset is in the map and its node expanded,
unless it was hasty, late or lost. The four theorems follow from its parts.

**Tree.** `TreeOK` types what is sent and answered kind by kind, lists by places of which some may be missing, and says which
questions are about a database and which about a table. The keys that tabs, the menu, the question and the statements under way
name are gathered in `Known`, each with its table (`Agreement`): what is known of one key is the same wherever it is kept, also while the key is not in
the tree, and the tree agrees. The menu takes from the tree and all others from each other, so only an answer
can break this, and it then is "shifted" or "renamed".

**A quiet tree.** `QuietTreeIsTrue` speaks of the moment when nothing is under way, and like the grid it needs to say what the
tree has yet to learn. What is under way stands in one line (`Line`): the answer that waits, the answers on their way, the statements sent;
steps work on its front, execute its middle and add to its end. For each place up to what was executed last there are the names of tables
at that time (`Chain`): the last are those of the server, and the answer between two of them tells their difference (`Leads`) or lists the
second. `Truth` says that the tables listed at a node are those at the front, less those dropped on the page whose answers are still in the line,
and that each answer still to come will find its node; tables are unlike routines, which stay until the drop is answered.
It holds of each node that no answer in the line will list anew, unless all databases will be asked for again (`Renewal`) or
an answer in the line must end in the mishap "renamed" (`Doomed`). That the names fit is `InOrder`: keys of earlier trees are older
than the prefix of this one, so their answers do nothing to it (`Aged`), what carries the key of a database is about it (`Owned`), statements
about an earlier tree precede all that the present one learns (`OldFirst`), and no table is dropped while tables are being listed
(`DropsFirst`). The last is the mishap "outdated", and "outlived" is the one that `OldFirst` needs to be absent.

**Dialogs, tables, files.** A behaviour is about one page, so the invariant `PagesInv` is that of the part there is
and leaves the others unset. `TypedInv` follows what was typed from the form into the save and
into the record, across answers of earlier openings: only an answer that is marked as a mishap can take it out.
`MeantInv` does the same for the identity of the record: the key survives until the save is answered (`KeyKept`), the form
is of the record the dialog was opened for or empty (`FormMeant`), and a form opened to edit has an identifier unless its
record is still asked for (`EditMeant`), which is why a save before the answer is one of the mishaps. `TableInv` says of every reload
under way that it shows the records there are or will be followed by another, so that the last to arrive is true. In the file browser
(`FilesInv`) the same holds of listings (`ListingComes`), but what is followed is their order, since they overtake each other;
`TextKept` and `NamesKept` say that the key is still that of the file the editor or the rename was opened on.

**Settings.** `SettingsInv` has four parts. An answer that no save or start has outdated is what is stored
(`AnswersAreTrue`). A form that is filled and not typed into shows what is stored, and what is stored is changed only by a save
of typed text whose form still counts as typed: an answer that would fill it meanwhile has crossed the save, and two saves of one form
have crossed each other (`FormsAreTrue`). While the port is not saved, the port known and those ordered are the one
stored (`PortIsTrue`). On the tab of the proxy the status is true, or a start or stop is under way whose answer is followed by a
request for the status, or such a request is (`StatusComes`).

**Tabs.** `TabsInv` types the state, and says that a tab object is reached by one identifier only and that lists held by requests
and dialogs are lists of known objects: without it a callback that puts back an earlier list could bring anything. Upon it stand four invariants that
each need the one or two mishaps they name to be absent. `ActiveInv`: the active tab is in the list, in
the state and in the one a dialog would put back. `FlightInv`: every statement under way is of an open tab, which is what an answer
needs to find its tab. `KeptInv`: the open tabs are those the user opened, and what a tab shows, counting what the editor has and the tab does not yet,
is what was written. `RunsInv`: a selection is one of the text shown. `HomeInv` is about arrays: open tabs share none, an
answer's place in the array is still free, and only statements of the tab's last run are under way, so that results can neither
go elsewhere nor be shown twice.

**Statements.** A statement is a concatenation of four lists with the commas the code puts between them. The lemmas say where
a list has its commas, which positions are parts, and that a text is well formed just when parts and commas alternate; the
theorem splits on which lists are empty. `DesignInv` types the design. That an index is read back as it is needs that a sequence of length one
is its own beginning, and that a longer one is not (`SqlInv`).

**Designer.** What makes `SentIsShown` and `EditsAreKept` inductive is `DesignerInv`: the designer's list and the panel's are
the same rows apart from the row being added, which only the panel has (`ListsInv`); a script panel's chosen row is the one selected
(`PickedInv`); each row holds what the user last wrote for it, a script's what it was one change earlier (`MeantInv`), since its panel
hands on the text of the previous render; and options lag by the one chosen last (`OptionsLagByOne`). No panel departs from it in
a way the invariant does not name, so it is one proof for five panels.

**Grid.** `RowsAreKept` speaks of the moment when nothing is under way. Before it, the statements sent lead from the rows of the
database to those shown: there is a sequence of sets of rows, one for each statement, that starts at `db`, ends at `shown` and
in which each statement makes the next set of the one before (`Replays`). A new statement extends it at the end, the server takes from its beginning. After
rows were asked for again nothing is changed until they come (`LoadsLast`). The key tells rows apart (`KeysTell`), which
the mishap "composite" ends. `CodeInv` says of each panel of code where the text it shows is kept.

Only model-checked: all liveness (`SessionEnds`, `StopReturns`, `KickEnds`,
`LeaverForgotten`), since liveness under fairness and ENABLED
are outside what the proof system supports. Every invariant and every action property of the passing runs is stated by a
theorem, or implied by one. No module declares a recursive operator. Types of
`WebSession` are proved and no longer part of a run.

## 5. What is not modelled, and why

* Bytes (MySQL packets, guacd instructions, terminal output), formatting, logging, translations and
  drawing have no state that the properties could relate. The dictionary of MySQL's words (`dicts/mysql.js`), dashboards
  and the pages that only show what a request returned are of this kind.
* Expiry of times is a nondeterministic choice. A concurrent map access in the proxy, which kills the process, is part of
  `Crash`, which may strike at any step.
* Proxy instances beyond what `Settings` sees of them, the credential pool, tokens, roles, the access wall, gateways and jobs: the hazards
  that were found while reading them are listed with their lines. They are short procedures over
  maps and caches; their modules are the plan below.
* Of the tree, saved statements and columns, keys and indexes (whose menus only show messages); of the
  statements, one-line texts and the dialects that repeat the one for MySQL; of the tables, sorting, paging and search.
* In the file browser downloads read only; in the settings licence, backup, translations and upgrade are single
  requests, and the proxies of other kinds answer without doing anything (`api/property.go`).

Disagreements known from the source that no run states, since each is visible in one line: a statement marked for the AI runs without a log
entry (`mariaDB_proxy.go:539`); after a failed insert the accept loop ends while the status says running (line 263); a connection
accepted just before a Stop is served after it (line 250); the sweep deletes the record of a session that is served and was
never confirmed (`task/ticker.go:205`).

## 6. Plan

In order of what matters most to a user of the bastion:

1. `ProxyService`: `StartMariaDBProxy`, `StopMariaDBProxy` and `Serve` over the published instance
   (an old Stop that returns late publishes nil over a new instance; `Reload` reads the pointer twice), and
   the credential pool under concurrent `InitAuth` (clear, query, add one by one), with
   reloads that start inside a transaction. Abstract specification: the pool that is replaced in one step. To prove: a
   reload that runs alone after the last commit ends with the table's users. `Settings` would then use it.
2. `LoginTokens`: login, Auth's read and write back, logout through the cache's eviction callback,
   expiry, disabling and deleting a user, restart (`FixUserOnlineState`,
   `ReloadToken`), with the role cache. To prove: without concurrent requests a cached token has a live login.
3. `AccessWall`: table, map, snapshot and published slice under two requests; `TcpWall`,
   `allowIP`, and `checkClientIp` against "the matching rule of the smallest priority decides".
4. `GatewayTunnels`, joined to `WebSession` through the identifier of the session. To prove: the ssh client
   is closed only with no tunnel left.
5. `JobScheduler`: cron entries against records, with errors between the two.
