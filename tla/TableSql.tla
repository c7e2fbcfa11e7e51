------------------------------ MODULE TableSql ------------------------------
(***************************************************************************)
(* The statement the designer writes for a table, createTable of           *)
(* SQLConverter/mysql.js, and the structure it reads back from the         *)
(* definition MySQL reports, parseCreateTableSql.  Of the text only what   *)
(* decides whether it can be executed, and what is lost, is kept: where    *)
(* the commas are, and which keys the expressions find.                    *)
(***************************************************************************)
EXTENDS Naturals, Sequences, SequencesExt

CONSTANTS Columns, MaxParts  \* MaxParts: bound on the rows of a panel

VARIABLES
  design,    \* rows of the panels: fields, indexes, foreign keys; primary fields
  sent,      \* what is between the parentheses of the statement sent for this design
  table,     \* the indexes of a table: the columns of each
  read       \* the indexes read from its definition

vars == <<design, sent, table, read>>

Design == [fields : 0..MaxParts, indexes : 0..MaxParts, keys : 0..MaxParts,
           primary : 0..MaxParts]
Index == [columns : {c \in SeqOf(Columns, 2) : c # <<>>}, remark : BOOLEAN]

Comma == <<",">>
\* The parts of a list with commas between them.
List(n) == IF n = 0 THEN <<>>
           ELSE [i \in 1..(2 * n - 1) |-> IF i % 2 = 1 THEN "part" ELSE ","]

\* fieldSql of the rows: a comma follows when there are several.
Fields(d) == List(d.fields) \o (IF d.fields > 1 THEN Comma ELSE <<>>)
\* indexSql of the rows.
Indexes(d) == List(d.indexes)
\* foreignKeySql of the rows: a comma follows when there are several.
ForeignKeys(d) == List(d.keys) \o (IF d.keys > 1 THEN Comma ELSE <<>>)

\* Altered: nothing follows.
AlteredPrimary(d) == IF d.primary > 0 THEN <<"part">> ELSE <<>>

\* The primary key, and always a comma.
Primary(d) == IF d.primary > 0 THEN <<"part">> \o Comma ELSE <<>>

\* createTable
Statement(d) == Fields(d) \o Indexes(d) \o ForeignKeys(d) \o Primary(d)

\* MySQL's grammar: parts with one comma between any two.
WellFormed(s) == \E n \in 1..Len(s) : s = List(n)

\* A definition with an index that has a comment stops the page: a piece of
\* text that is no field has a comment and no type.
Stops(t) == \E i \in DOMAIN t : t[i].remark

\* Altered: all columns of the index are read.
AlteredParsed(t) == IF t = <<>> THEN <<>> ELSE <<t[1]>>

\* parseCreateTableSql: the expression for indexes is not global, and its
\* columns end at the first quote.
Parsed(t) ==
  IF t = <<>> THEN <<>>
  ELSE << [t[1] EXCEPT !.columns = SubSeq(@, 1, 1)] >>

Init ==
  /\ design = [fields |-> 0, indexes |-> 0, keys |-> 0, primary |-> 0]
  /\ sent = <<>> /\ table = <<>> /\ read = <<>>

\* A row is added to a panel or deleted, a field is made part of the key or not.
Change(p, n) ==
  /\ n \in {design[p] + 1, design[p] - 1} \cap 0..MaxParts
  /\ design' = [design EXCEPT ![p] = n]
  /\ design'.primary <= design'.fields
  /\ sent' = <<>> /\ UNCHANGED <<table, read>>

\* runQuery of the designer's Buttons.
Send ==
  /\ design.fields > 0
  /\ sent' = Statement(design)
  /\ UNCHANGED <<design, table, read>>

\* An index is added to the table, outside of the designer.
AddIndex(x) ==
  /\ Len(table) < MaxParts
  /\ table' = Append(table, x) /\ read' = <<>>
  /\ UNCHANGED <<design, sent>>

\* The table is opened in the designer.
Open ==
  /\ ~Stops(table)
  /\ read' = Parsed(table)
  /\ design' = [design EXCEPT !.indexes = Len(read')]
  /\ sent' = <<>> /\ UNCHANGED table

Next ==
  \/ \E p \in DOMAIN design, n \in 0..MaxParts : Change(p, n)
  \/ Send
  \/ \E x \in Index : AddIndex(x)
  \/ Open

Spec == Init /\ [][Next]_vars

-----------------------------------------------------------------------------
\* Types.
TypeOK ==
  /\ design \in Design /\ sent \in Seq({"part", ","})
  /\ table \in Seq(Index) /\ read \in Seq(Index)

\* The designs whose statement MySQL accepts: no primary key, and either one
\* field alone, or several with indexes or with one foreign key.
Accepted(d) ==
  /\ d.primary = 0
  /\ \/ d.fields = 1 /\ d.indexes = 0 /\ d.keys = 0
     \/ d.fields > 1 /\ d.indexes > 0 /\ d.keys = 0
     \/ d.fields > 1 /\ d.indexes = 0 /\ d.keys = 1

\* createTable writes a list with one comma between any two parts for these
\* designs and for no other.
AcceptedDesigns ==
  design.fields > 0 => (WellFormed(Statement(design)) <=> Accepted(design))

\* The designer shows the indexes of a table it opened exactly when there is at
\* most one, of one column.
ReadIsTable ==
  read # <<>> =>
    (read = table <=> Len(table) = 1 /\ Len(table[1].columns) = 1)
=============================================================================
