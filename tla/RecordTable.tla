---------------------------- MODULE RecordTable ----------------------------
(***************************************************************************)
(* The table of a page of records: rows that the server is asked for,      *)
(* a selection, deletions of one, of the selected and of all records,      *)
(* connection tests, and additions.  Every operation ends with reload().   *)
(* One user, requests that are answered in any order.                      *)
(*                                                                         *)
(* A page that tests connections keeps its rows itself: a test writes back *)
(* the rows of the moment it was started.                                  *)
(***************************************************************************)
EXTENDS AdminPages, FiniteSets, Naturals

CONSTANTS
  Ids,       \* records
  MaxHarm    \* bound on mishaps (see harm) in one behaviour

VARIABLES
  table,     \* the table, one of TablePages
  db,        \* the records there are
  rows,      \* the records shown
  keys,      \* selectedRowKeys
  wanted,    \* a reload whose request has not reached the server
  answers,   \* answers to reloads under way, the records each holds
  ops,       \* changes under way
  tests,     \* connection tests under way: the record, and the rows they saw
  harm       \* history: mishaps

vars == <<table, db, rows, keys, wanted, answers, ops, tests, harm>>

Op == [what : {"add", "one", "many", "all"}, ids : SUBSET Ids, reload : BOOLEAN]

Init ==
  /\ table \in TablePages
  /\ db \in SUBSET Ids /\ rows = db
  /\ keys = {} /\ wanted = FALSE /\ answers = {} /\ ops = {} /\ tests = {}
  /\ harm = {}

\* A check box.  Rows already deleted can be selected until the table reloads.
Select(k) ==
  /\ table.selects /\ k \in rows
  /\ keys' = IF k \in keys THEN keys \ {k} ELSE (keys \cap rows) \cup {k}
  /\ harm' = IF k \in db THEN harm ELSE harm \cup {"lingers"}
  /\ UNCHANGED <<table, db, rows, wanted, answers, ops, tests>>

\* Altered: the answer is not waited for.
AlteredAwaits == FALSE

\* Whether an addition waits for the answer before it reloads.
Awaits == ~table.loose

\* A new record, saved by a form or imported.  Some dialogs reload at once.
Add(k) ==
  /\ table.adds /\ ops = {} /\ k \notin db
  /\ ops' = {[what |-> "add", ids |-> {k}, reload |-> Awaits]}
  /\ wanted' = (wanted \/ ~Awaits)
  /\ UNCHANGED <<table, db, rows, keys, answers, tests, harm>>

\* The link of a row.  The selection is left as it is.
DeleteOne(k) ==
  /\ table.links /\ ops = {} /\ k \in rows
  /\ ops' = {[what |-> "one", ids |-> {k}, reload |-> TRUE]}
  /\ UNCHANGED <<table, db, rows, keys, wanted, answers, tests, harm>>

\* The selection after the selected records were deleted.
Deselected == {}

\* The selected records are deleted when the dialog that asks is confirmed.
DeleteSelected ==
  /\ table.selects /\ ops = {} /\ keys # {}
  /\ ops' = {[what |-> "many", ids |-> keys, reload |-> TRUE]}
  /\ UNCHANGED <<table, db, rows, keys, wanted, answers, tests, harm>>

DeleteAll ==
  /\ table.wipes # "no" /\ ops = {}
  /\ ops' = {[what |-> "all", ids |-> Ids, reload |-> TRUE]}
  /\ UNCHANGED <<table, db, rows, keys, wanted, answers, tests, harm>>

\* A change is made and answered.
Changed(op) ==
  /\ op \in ops /\ ops' = ops \ {op}
  /\ db' = IF op.what = "add" THEN db \cup op.ids ELSE db \ op.ids
  /\ wanted' = (wanted \/ op.reload)
  /\ keys' = IF op.what = "many" \/ (op.what = "all" /\ table.wipes = "resets")
             THEN Deselected ELSE keys
  /\ harm' = IF op.what = "one" /\ op.ids \subseteq keys THEN harm \cup {"lingers"}
             ELSE harm
  /\ UNCHANGED <<table, rows, answers, tests>>

\* The server reads what the table asked for.  The table drops the answer to an
\* earlier request; a page that keeps its rows itself does not.
Read ==
  /\ wanted /\ wanted' = FALSE
  /\ answers' = IF table.tests THEN answers \cup {db} ELSE {db}
  /\ UNCHANGED <<table, db, rows, keys, ops, tests, harm>>

Arrive(a) ==
  /\ a \in answers /\ answers' = answers \ {a}
  /\ rows' = a
  /\ harm' = IF a = db \/ wanted \/ ops # {} \/ db \in answers' THEN harm
             ELSE harm \cup {"outdated"}
  /\ UNCHANGED <<table, db, keys, wanted, ops, tests>>

\* connTest and connTestInBatch: the selection is cleared, and the rows of this
\* moment are shown again when the answer is there.
Test ==
  /\ table.tests /\ tests = {} /\ keys \cap rows # {}
  /\ tests' = {[id |-> k, saw |-> rows] : k \in keys \cap rows}
  /\ keys' = {}
  /\ UNCHANGED <<table, db, rows, wanted, answers, ops, harm>>

\* The answer to a test.
Tested(t) ==
  /\ t \in tests /\ tests' = tests \ {t}
  /\ rows' = t.saw
  /\ harm' = IF t.saw = rows THEN harm ELSE harm \cup {"reverted"}
  /\ UNCHANGED <<table, db, keys, wanted, answers, ops>>

Step ==
  \/ \E k \in Ids : Select(k) \/ Add(k) \/ DeleteOne(k)
  \/ DeleteSelected \/ DeleteAll
  \/ \E op \in ops : Changed(op)
  \/ Read
  \/ \E a \in answers : Arrive(a)
  \/ Test
  \/ \E t \in tests : Tested(t)

Next == Step /\ Cardinality(harm') <= MaxHarm

Spec == Init /\ [][Next]_vars

-----------------------------------------------------------------------------
Quiet == ~wanted /\ answers = {} /\ ops = {} /\ tests = {}

\* Types.
TypeOK ==
  /\ table \in TablePages /\ db \subseteq Ids /\ rows \subseteq Ids
  /\ keys \subseteq Ids /\ wanted \in BOOLEAN /\ answers \subseteq SUBSET Ids
  /\ ops \subseteq Op /\ tests \subseteq [id : Ids, saw : SUBSET Ids]
  /\ harm \subseteq {"lingers", "outdated", "reverted"}

\* When nothing is under way the table shows the records there are, unless a
\* test or an old answer put back earlier rows, or the page did not wait.
QuietTableIsTrue ==
  Quiet => rows = db \/ harm \cap {"outdated", "reverted"} # {} \/ table.loose
=============================================================================
