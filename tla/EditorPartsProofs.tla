--------------------------- MODULE EditorPartsProofs ---------------------------
(***************************************************************************)
(* What the parts of a tab of the SQL editor promise, for any texts, rows, *)
(* keys and columns and any number of them: CREATE TABLE, the panels of    *)
(* views, functions and procedures (C), the indexes the designer reads     *)
(* back, the grid of result rows (G) and the panels of the designer (D).   *)
(***************************************************************************)
EXTENDS MCEditorParts, FiniteSetTheorems, SequenceTheorems, TLAPS

-----------------------------------------------------------------------------
(***************************************************************************)
(* Which designs give a statement that MySQL can parse, for any number of  *)
(* fields, indexes, foreign keys and primary fields: most do not.          *)
(***************************************************************************)
Token == {"part", ","}
Turn(i) == IF i % 2 = 1 THEN "part" ELSE ","
AnyDesign == [fields : Nat, indexes : Nat, keys : Nat, primary : Nat]

-----------------------------------------------------------------------------
\* In a list parts and commas take turns, and it ends with a part.
LEMMA ListTurns ==
  ASSUME NEW n \in Nat
  PROVE  /\ List(n) \in Seq(Token) /\ Len(List(n)) = IF n = 0 THEN 0 ELSE 2 * n - 1
         /\ \A i \in 1..Len(List(n)) : List(n)[i] = Turn(i)
<1>1. CASE n = 0
  BY <1>1 DEF List
<1>2. CASE n # 0
  <2>0. n > 0 /\ 2 * n - 1 \in Nat
    BY <1>2
  <2>1. List(n) = [i \in 1..(2 * n - 1) |-> Turn(i)]
    BY <1>2 DEF List, Turn
  <2>2. \A i \in 1..(2 * n - 1) : Turn(i) \in Token
    BY DEF Turn, Token
  <2>3. List(n) \in Seq(Token) /\ Len(List(n)) = 2 * n - 1
    BY <2>0, <2>1, <2>2
  <2> QED BY <1>2, <2>1, <2>3
<1> QED BY <1>1, <1>2

\* A well-formed text has parts at the odd places and commas at the even ones.
LEMMA FormTurns ==
  ASSUME NEW s \in Seq(Token), WellFormed(s)
  PROVE  Len(s) % 2 = 1 /\ \A i \in 1..Len(s) : s[i] = Turn(i)
<1>1. PICK n \in 1..Len(s) : s = List(n)
  BY DEF WellFormed
<1>2. n \in Nat /\ n # 0
  BY <1>1
<1>3. Len(s) = 2 * n - 1 /\ \A i \in 1..Len(s) : s[i] = Turn(i)
  BY <1>1, <1>2, ListTurns
<1> QED BY <1>2, <1>3

\* ... and every such text is well formed.
LEMMA TurnsForm ==
  ASSUME NEW s \in Seq(Token), NEW n \in Nat, n > 0, Len(s) = 2 * n - 1,
         \A i \in 1..Len(s) : s[i] = Turn(i)
  PROVE  WellFormed(s)
<1>1. /\ List(n) \in Seq(Token) /\ Len(List(n)) = Len(s)
      /\ \A i \in 1..Len(s) : List(n)[i] = s[i]
  <2>1. n # 0
    OBVIOUS
  <2>2. Len(List(n)) = 2 * n - 1
    BY <2>1, ListTurns
  <2> QED BY <2>2, ListTurns
<1>2. s = List(n)
  BY <1>1
<1> QED BY <1>2 DEF WellFormed

Turns(s) == \A i \in 1..Len(s) : s[i] = Turn(i)

\* A piece that starts with a part stands behind an even number of tokens.
LEMMA Boundary ==
  ASSUME NEW s \in Seq(Token), NEW t \in Seq(Token), Len(t) > 0, t[1] = "part",
         Turns(s \o t)
  PROVE  Len(s) % 2 = 0 /\ Turns(s)
<1>1. /\ Len(s \o t) = Len(s) + Len(t) /\ (s \o t)[Len(s) + 1] = "part"
      /\ \A i \in 1..Len(s) : (s \o t)[i] = s[i]
  OBVIOUS
<1>2. Turn(Len(s) + 1) = "part" /\ Turns(s)
  BY <1>1 DEF Turns
<1>3. (Len(s) + 1) % 2 = 1
  BY <1>2 DEF Turn
<1> QED BY <1>2, <1>3

\* Pieces that take turns do so together behind an even number of tokens.
LEMMA Joined ==
  ASSUME NEW s \in Seq(Token), NEW t \in Seq(Token), Turns(s), Turns(t), Len(s) % 2 = 0
  PROVE  Turns(s \o t)
<1> SUFFICES ASSUME NEW i \in 1..Len(s \o t) PROVE (s \o t)[i] = Turn(i)
  BY DEF Turns
<1>1. CASE i <= Len(s)
  BY <1>1 DEF Turns
<1>2. CASE i > Len(s)
  <2>1. i - Len(s) \in 1..Len(t) /\ (s \o t)[i] = t[i - Len(s)]
    BY <1>2
  <2>2. i % 2 = (i - Len(s)) % 2
    <3>1. PICK k \in Nat : Len(s) = 2 * k
      OBVIOUS
    <3> QED BY <2>1, <3>1
  <2> QED BY <2>1, <2>2 DEF Turns, Turn
<1> QED BY <1>1, <1>2

\* One token.
LEMMA Single ==
  ASSUME NEW x \in Token
  PROVE  <<x>> \in Seq(Token) /\ 0 < Len(<<x>>) /\ Len(<<x>>) < 2 /\ <<x>>[1] = x
OBVIOUS

LEMMA LengthIsNat ==
  ASSUME NEW s \in Seq(Token)
  PROVE  Len(s) \in Nat
OBVIOUS

LEMMA LastOrBefore ==
  ASSUME NEW m \in Nat
  PROVE  \A i \in 1..(m + 1) : i \in 1..m \/ i = m + 1
OBVIOUS

\* A token behind a text.
LEMMA Behind ==
  ASSUME NEW s \in Seq(Token), NEW c \in Seq(Token), 0 < Len(c), Len(c) < 2
  PROVE  /\ s \o c \in Seq(Token) /\ Len(s \o c) = Len(s) + 1
         /\ (s \o c)[Len(s) + 1] = c[1]
         /\ \A i \in 1..Len(s) : (s \o c)[i] = s[i]
OBVIOUS

\* A comma behind a text that takes turns and ends with a part.
LEMMA WithComma ==
  ASSUME NEW s \in Seq(Token), Turns(s), Turn(Len(s) + 1) = ",",
         NEW c \in Seq(Token), 0 < Len(c), Len(c) < 2, c[1] = ","
  PROVE  s \o c \in Seq(Token) /\ Len(s \o c) = Len(s) + 1 /\ Turns(s \o c)
<1>1. /\ s \o c \in Seq(Token) /\ Len(s \o c) = Len(s) + 1
      /\ (s \o c)[Len(s) + 1] = ","
      /\ \A i \in 1..Len(s) : (s \o c)[i] = s[i]
  BY Behind
<1>2. \A i \in 1..(Len(s) + 1) : i \in 1..Len(s) \/ i = Len(s) + 1
  <2>1. Len(s) \in Nat
    BY LengthIsNat, Zenon
  <2> QED BY <2>1, LastOrBefore, Zenon
<1> QED BY <1>1, <1>2 DEF Turns

\* The four pieces of a statement: their lengths and their tokens.
LEMMA Pieces ==
  ASSUME NEW d \in AnyDesign
  PROVE  /\ {Fields(d), Indexes(d), ForeignKeys(d), Primary(d)} \subseteq Seq(Token)
         /\ Turns(Fields(d)) /\ Turns(Indexes(d)) /\ Turns(ForeignKeys(d)) /\ Turns(Primary(d))
         /\ Len(Fields(d)) = IF d.fields > 1 THEN 2 * d.fields ELSE d.fields
         /\ Len(Indexes(d)) = IF d.indexes > 0 THEN 2 * d.indexes - 1 ELSE 0
         /\ Len(ForeignKeys(d)) = IF d.keys > 1 THEN 2 * d.keys ELSE d.keys
         /\ Len(Primary(d)) = IF d.primary > 0 THEN 2 ELSE 0
<1>1. ASSUME NEW n \in Nat, NEW s, s = List(n) \o (IF n > 1 THEN Comma ELSE <<>>)
      PROVE  s \in Seq(Token) /\ Turns(s) /\ Len(s) = IF n > 1 THEN 2 * n ELSE n
  <2>0. List(n) \in Seq(Token) /\ Turns(List(n))
    BY ListTurns DEF Turns
  <2>1. CASE n > 1
    <3>1. Len(List(n)) = 2 * n - 1
      <4>1. n # 0
        BY <2>1
      <4> QED BY <4>1, ListTurns
    <3>2. s = List(n) \o Comma
      BY <1>1, <2>1
    <3>3. Comma \in Seq(Token) /\ 0 < Len(Comma) /\ Len(Comma) < 2 /\ Comma[1] = ","
      BY Single DEF Token, Comma
    <3>4. Turn(Len(List(n)) + 1) = ","
      <4>1. (2 * n) % 2 = 0 /\ Len(List(n)) + 1 = 2 * n
        BY <3>1
      <4> QED BY <4>1 DEF Turn
    <3>5. s \in Seq(Token) /\ Len(s) = Len(List(n)) + 1 /\ Turns(s)
      BY <2>0, <3>2, <3>3, <3>4, WithComma
    <3> QED BY <2>1, <3>1, <3>5
  <2>2. CASE ~(n > 1)
    <3>1. s = List(n)
      BY <1>1, <2>0, <2>2
    <3>2. CASE n = 0
      BY <2>0, <3>1, <3>2, ListTurns
    <3>3. CASE n # 0
      <4>1. n = 1
        BY <2>2, <3>3
      <4>2. Len(List(n)) = 2 * n - 1
        BY <3>3, ListTurns
      <4> QED BY <2>0, <3>1, <4>1, <4>2
    <3> QED BY <3>2, <3>3
  <2> QED BY <2>1, <2>2
<1>2. d.fields \in Nat /\ d.indexes \in Nat /\ d.keys \in Nat /\ d.primary \in Nat
  BY DEF AnyDesign
<1>3. /\ Fields(d) \in Seq(Token) /\ Turns(Fields(d))
      /\ Len(Fields(d)) = IF d.fields > 1 THEN 2 * d.fields ELSE d.fields
  BY <1>1, <1>2 DEF Fields
<1>4. /\ ForeignKeys(d) \in Seq(Token) /\ Turns(ForeignKeys(d))
      /\ Len(ForeignKeys(d)) = IF d.keys > 1 THEN 2 * d.keys ELSE d.keys
  BY <1>1, <1>2 DEF ForeignKeys
<1>5. /\ Indexes(d) \in Seq(Token) /\ Turns(Indexes(d))
      /\ Len(Indexes(d)) = IF d.indexes > 0 THEN 2 * d.indexes - 1 ELSE 0
  <2>1. List(d.indexes) \in Seq(Token) /\ Turns(List(d.indexes))
    BY <1>2, ListTurns DEF Turns
  <2>2. CASE d.indexes = 0
    BY <1>2, <2>1, <2>2, ListTurns DEF Indexes
  <2>3. CASE d.indexes # 0
    <3>1. Len(List(d.indexes)) = 2 * d.indexes - 1
      BY <1>2, <2>3, ListTurns
    <3> QED BY <1>2, <2>1, <2>3, <3>1 DEF Indexes
  <2> QED BY <2>2, <2>3
<1>6. /\ Primary(d) \in Seq(Token) /\ Turns(Primary(d))
      /\ Len(Primary(d)) = IF d.primary > 0 THEN 2 ELSE 0
  <2>1. CASE d.primary > 0
    <3>1. Primary(d) = <<"part">> \o Comma
      BY <2>1 DEF Primary
    <3>2. Comma \in Seq(Token) /\ 0 < Len(Comma) /\ Len(Comma) < 2 /\ Comma[1] = ","
      BY Single DEF Token, Comma
    <3>3. <<"part">> \in Seq(Token) /\ 1 = Len(<<"part">>) /\ <<"part">>[1] = "part"
      BY Single DEF Token
    <3>4. Turn(1) = "part"
      BY DEF Turn
    <3>5. \A i \in 1..1 : i = 1
      OBVIOUS
    <3>6. Turns(<<"part">>)
      BY <3>3, <3>4, <3>5 DEF Turns
    <3>7. Turn(Len(<<"part">>) + 1) = ","
      BY <3>3 DEF Turn
    <3>8. Primary(d) \in Seq(Token) /\ Len(Primary(d)) = Len(<<"part">>) + 1 /\ Turns(Primary(d))
      BY <3>1, <3>2, <3>3, <3>6, <3>7, WithComma
    <3> QED BY <2>1, <3>3, <3>8
  <2>2. CASE ~(d.primary > 0)
    BY <2>2 DEF Primary, Turns
  <2> QED BY <2>1, <2>2
<1> QED BY <1>3, <1>4, <1>5, <1>6

\* A piece that takes turns behind others: together they take turns exactly when
\* the others do and have an even number of tokens, or the piece is empty.
LEMMA PieceBehind ==
  ASSUME NEW s \in Seq(Token), NEW t \in Seq(Token), Turns(t)
  PROVE  /\ s \o t \in Seq(Token) /\ Len(s \o t) = Len(s) + Len(t)
         /\ Turns(s \o t) => Turns(s) /\ (Len(t) > 0 => Len(s) % 2 = 0)
         /\ Turns(s) /\ (Len(t) > 0 => Len(s) % 2 = 0) => Turns(s \o t)
<1>1. s \o t \in Seq(Token) /\ Len(s \o t) = Len(s) + Len(t)
  OBVIOUS
<1>2. CASE Len(t) > 0
  <2>1. t[1] = "part"
    <3>1. 1 \in 1..Len(t)
      BY <1>2, LengthIsNat
    <3>2. Turn(1) = "part"
      BY DEF Turn
    <3> QED BY <3>1, <3>2 DEF Turns
  <2>2. ASSUME Turns(s \o t) PROVE Turns(s) /\ Len(s) % 2 = 0
    BY <1>2, <2>1, <2>2, Boundary
  <2>3. ASSUME Turns(s), Len(s) % 2 = 0 PROVE Turns(s \o t)
    BY <2>3, Joined
  <2> QED BY <1>1, <1>2, <2>2, <2>3
<1>3. CASE ~(Len(t) > 0)
  <2>1. s \o t = s
    BY <1>3
  <2> QED BY <1>1, <1>3, <2>1
<1> QED BY <1>2, <1>3

FieldTokens(n) == IF n > 1 THEN 2 * n ELSE n
IndexTokens(n) == IF n > 0 THEN 2 * n - 1 ELSE 0
PrimaryTokens(n) == IF n > 0 THEN 2 ELSE 0

\* Whether f, i, k and p rows make four pieces that take turns and end with a part.
Fits(f, i, k, p) ==
  /\ i > 0 => FieldTokens(f) % 2 = 0
  /\ k > 0 => (FieldTokens(f) + IndexTokens(i)) % 2 = 0
  /\ p > 0 => (FieldTokens(f) + IndexTokens(i) + FieldTokens(k)) % 2 = 0
  /\ (FieldTokens(f) + IndexTokens(i) + FieldTokens(k) + PrimaryTokens(p)) % 2 = 1

\* They do in three cases.
LEMMA FitsWhen ==
  ASSUME NEW f \in Nat, NEW i \in Nat, NEW k \in Nat, NEW p \in Nat, f > 0
  PROVE  Fits(f, i, k, p) <=>
           /\ p = 0
           /\ \/ f = 1 /\ i = 0 /\ k = 0
              \/ f > 1 /\ i > 0 /\ k = 0
              \/ f > 1 /\ i = 0 /\ k = 1
<1>1. FieldTokens(f) % 2 = IF f = 1 THEN 1 ELSE 0
  BY DEF FieldTokens
<1>2. IndexTokens(i) % 2 = IF i > 0 THEN 1 ELSE 0
  BY DEF IndexTokens
<1>3. FieldTokens(k) % 2 = IF k = 1 THEN 1 ELSE 0
  BY DEF FieldTokens
<1>4. PrimaryTokens(p) % 2 = 0
  BY DEF PrimaryTokens
<1>5. /\ FieldTokens(f) \in Nat /\ IndexTokens(i) \in Nat
      /\ FieldTokens(k) \in Nat /\ PrimaryTokens(p) \in Nat
  BY DEF FieldTokens, IndexTokens, PrimaryTokens
<1> HIDE DEF FieldTokens, IndexTokens, PrimaryTokens
<1>6. CASE f = 1
  BY <1>1, <1>2, <1>3, <1>4, <1>5, <1>6 DEF Fits
<1>7. CASE f > 1
  BY <1>1, <1>2, <1>3, <1>4, <1>5, <1>7 DEF Fits
<1> QED BY <1>6, <1>7

\* The statement takes turns and ends with a part exactly when its pieces fit.
LEMMA StatementFits ==
  ASSUME NEW d \in AnyDesign, d.fields > 0
  PROVE  /\ Statement(d) \in Seq(Token)
         /\ Turns(Statement(d)) /\ Len(Statement(d)) % 2 = 1
              <=> Fits(d.fields, d.indexes, d.keys, d.primary)
<1> DEFINE F == Fields(d) I == Indexes(d) K == ForeignKeys(d) P == Primary(d)
<1>1. d.fields \in Nat /\ d.indexes \in Nat /\ d.keys \in Nat /\ d.primary \in Nat
  BY DEF AnyDesign
<1>2. /\ F \in Seq(Token) /\ I \in Seq(Token) /\ K \in Seq(Token) /\ P \in Seq(Token)
      /\ Turns(F) /\ Turns(I) /\ Turns(K) /\ Turns(P)
  BY Pieces
<1>3. /\ Len(F) = FieldTokens(d.fields) /\ Len(I) = IndexTokens(d.indexes)
      /\ Len(K) = FieldTokens(d.keys) /\ Len(P) = PrimaryTokens(d.primary)
  BY Pieces DEF FieldTokens, IndexTokens, PrimaryTokens
<1>4. Statement(d) = ((F \o I) \o K) \o P
  BY DEF Statement
<1>5. /\ Len(I) > 0 <=> d.indexes > 0
      /\ Len(K) > 0 <=> d.keys > 0
      /\ Len(P) > 0 <=> d.primary > 0
  BY <1>1, <1>3 DEF FieldTokens, IndexTokens, PrimaryTokens
<1> HIDE DEF F, I, K, P
<1>6. /\ F \o I \in Seq(Token) /\ Len(F \o I) = Len(F) + Len(I)
      /\ Turns(F \o I) <=> (Len(I) > 0 => Len(F) % 2 = 0)
  BY <1>2, PieceBehind, Zenon
<1>7. /\ (F \o I) \o K \in Seq(Token) /\ Len((F \o I) \o K) = Len(F \o I) + Len(K)
      /\ Turns((F \o I) \o K) <=> Turns(F \o I) /\ (Len(K) > 0 => Len(F \o I) % 2 = 0)
  BY <1>2, <1>6, PieceBehind, Zenon
<1>8. /\ ((F \o I) \o K) \o P \in Seq(Token)
      /\ Len(((F \o I) \o K) \o P) = Len((F \o I) \o K) + Len(P)
      /\ Turns(((F \o I) \o K) \o P)
           <=> Turns((F \o I) \o K) /\ (Len(P) > 0 => Len((F \o I) \o K) % 2 = 0)
  BY <1>2, <1>7, PieceBehind, Zenon
<1> QED BY <1>3, <1>4, <1>5, <1>6, <1>7, <1>8, Zenon DEF Fits

\* A text that takes turns and ends with a part is a list, and no other text is.
LEMMA FormIsTurns ==
  ASSUME NEW s \in Seq(Token)
  PROVE  WellFormed(s) <=> Turns(s) /\ Len(s) % 2 = 1
<1>1. ASSUME WellFormed(s) PROVE Turns(s) /\ Len(s) % 2 = 1
  BY <1>1, FormTurns, Zenon DEF Turns
<1>2. ASSUME Turns(s), Len(s) % 2 = 1 PROVE WellFormed(s)
  <2>1. Len(s) \in Nat
    BY LengthIsNat, Zenon
  <2>2. PICK n \in Nat : Len(s) = 2 * n - 1 /\ n > 0
    <3>1. (Len(s) + 1) % 2 = 0 /\ Len(s) + 1 \in Nat
      BY <1>2, <2>1
    <3>2. PICK n \in Nat : Len(s) + 1 = 2 * n
      BY <3>1
    <3> QED BY <2>1, <3>2
  <2> QED BY <1>2, <2>2, TurnsForm, Zenon DEF Turns
<1> QED BY <1>1, <1>2

-----------------------------------------------------------------------------
\* createTable of SQLConverter/mysql.js, for any number of rows in its panels:
\* the text is a list with one comma between any two parts for the accepted
\* designs and for no other.
THEOREM CreateTableAccepts ==
  ASSUME NEW d \in AnyDesign, d.fields > 0
  PROVE  WellFormed(Statement(d)) <=> Accepted(d)
<1>1. d.fields \in Nat /\ d.indexes \in Nat /\ d.keys \in Nat /\ d.primary \in Nat
  BY DEF AnyDesign
<1>2. Fits(d.fields, d.indexes, d.keys, d.primary) <=> Accepted(d)
  BY <1>1, FitsWhen DEF Accepted
<1> QED BY <1>2, StatementFits, FormIsTurns, Zenon

DesignInv == design \in AnyDesign

LEMMA InitDesign == Init => DesignInv
BY DEF Init, AnyDesign, DesignInv

\* The panels never have less than no rows.
LEMMA StepDesign == DesignInv /\ [Next]_vars => DesignInv'
<1> SUFFICES ASSUME design \in AnyDesign, [Next]_vars PROVE design' \in AnyDesign
  BY DEF DesignInv
<1>1. ASSUME NEW p \in DOMAIN design, NEW n \in 0..MaxParts, Change(p, n)
      PROVE  design' \in AnyDesign
  BY <1>1 DEF Change, AnyDesign
<1>2. ASSUME Send PROVE design' \in AnyDesign
  BY <1>2 DEF Send
<1>3. ASSUME NEW x \in Index, AddIndex(x) PROVE design' \in AnyDesign
  BY <1>3 DEF AddIndex
<1>4. ASSUME Open PROVE design' \in AnyDesign
  <2>1. design' = [design EXCEPT !.indexes = Len(Parsed(table))]
    BY <1>4 DEF Open
  <2>2. Len(Parsed(table)) \in Nat
    <3>1. CASE table = <<>>
      BY <3>1 DEF Parsed
    <3>2. CASE table # <<>>
      BY <3>2 DEF Parsed
    <3> QED BY <3>1, <3>2
  <2> QED BY <2>1, <2>2 DEF AnyDesign
<1>5. CASE UNCHANGED vars
  BY <1>5 DEF vars
<1> QED BY <1>1, <1>2, <1>3, <1>4, <1>5 DEF Next

\* Whatever is done in the designer and to the table, the design on the screen
\* gives a statement MySQL can parse exactly when it is an accepted one.
THEOREM DesignsAccepted == Spec => []AcceptedDesigns
<1>1. DesignInv => AcceptedDesigns
  BY CreateTableAccepts DEF DesignInv, AcceptedDesigns
<1> QED BY <1>1, InitDesign, StepDesign, PTL DEF Spec

-----------------------------------------------------------------------------
(***************************************************************************)
(* Panels of views, functions and procedures.  PreviewIsText is inductive  *)
(* once it is said of the text of the panel: the preview is always of that *)
(* text, the widget shows another one only where the component has it, and *)
(* the component of a view always has the text of its panel.               *)
(***************************************************************************)
CodeInv ==
  /\ C!TypeOK /\ kind \in C!Panels
  /\ ddlData = C!Statement(sql, optionData)
  /\ widget # sql => kind = C!FunctionPanel /\ widget = sqlValue
  /\ kind = C!ViewPanel => sqlValue = sql

LEMMA CodeInit == C!Init => CodeInv
  BY DEF C!Init, CodeInv, C!TypeOK, C!Panels, C!Statement, C!Text, C!ViewPanel, C!FunctionPanel,
         C!ProcedurePanel

LEMMA CodeStep == CodeInv /\ [C!Next]_(C!panelVars) => CodeInv'
<1> SUFFICES ASSUME CodeInv, [C!Next]_(C!panelVars) PROVE CodeInv'
  OBVIOUS
<1> USE DEF CodeInv, C!TypeOK, C!Statement
<1>0. /\ kind.keeps <=> kind \in {C!ViewPanel, C!FunctionPanel}
      /\ C!ViewPanel # C!FunctionPanel
  BY DEF C!Panels, C!ViewPanel, C!FunctionPanel, C!ProcedurePanel
<1>1. ASSUME NEW t \in C!Text, C!Type(t) PROVE CodeInv'
  <2>1. /\ widget' = t /\ sqlValue' = t /\ UNCHANGED <<kind, mode, optionData, tabSql, saved>>
        /\ kind \in {C!ViewPanel, C!FunctionPanel}
    BY <1>0, <1>1 DEF C!Type
  <2>2. CASE t = sqlValue
    <3>1. UNCHANGED <<sql, ddlData>> /\ t # widget
      BY <1>1, <2>2 DEF C!Type
    <3>2. kind = C!FunctionPanel
      BY <2>1, <2>2, <3>1
    <3> QED BY <1>0, <2>1, <2>2, <3>1, <3>2
  <2>3. CASE t # sqlValue
    <3>1. sql' = t /\ ddlData' = C!Statement(t, optionData)
      BY <1>1, <2>3 DEF C!Type, C!Told, C!Panel
    <3>2. ddlData' \in [text : C!Text, options : Options \cup {None}]
      BY <3>1
    <3> QED BY <2>1, <3>1, <3>2
  <2> QED BY <2>2, <2>3
<1>2. ASSUME NEW t \in C!Text, C!TypeThrough(t) PROVE CodeInv'
  <2>1. /\ widget' = t /\ UNCHANGED <<kind, mode, sqlValue, optionData, tabSql, saved>>
        /\ kind \notin {C!ViewPanel, C!FunctionPanel}
    BY <1>0, <1>2 DEF C!TypeThrough
  <2>2. sql' = t /\ ddlData' = C!Statement(t, optionData)
    BY <1>2 DEF C!TypeThrough, C!Told, C!Panel
  <2>3. ddlData' \in [text : C!Text, options : Options \cup {None}]
    BY <2>2
  <2> QED BY <2>1, <2>2, <2>3
<1>3. ASSUME NEW o \in Options, C!SetOption(o) PROVE CodeInv'
  BY <1>3 DEF C!SetOption
<1>4. CASE C!Draw
  BY <1>4 DEF C!Draw
<1>5. CASE C!Save
  BY <1>5 DEF C!Save
<1>6. CASE UNCHANGED C!panelVars
  BY <1>6 DEF C!panelVars
<1> QED BY <1>1, <1>2, <1>3, <1>4, <1>5, <1>6 DEF C!Next

-----------------------------------------------------------------------------
(***************************************************************************)
(* Indexes read back: what was read is what parseCreateTableSql finds in   *)
(* the definition of the table as it still is.                             *)
(***************************************************************************)
SqlInv ==
  /\ TypeOK /\ DesignInv
  /\ Len(table) <= MaxParts
  /\ read # <<>> => table # <<>> /\ read = Parsed(table)

LEMMA SqlInit == Init => SqlInv
  BY BoundsAreNumbers DEF Init, SqlInv, TypeOK, DesignInv, Design, AnyDesign

\* At most one index is found, and it is one.
LEMMA ParsedIs ==
  ASSUME NEW t \in Seq(Index)
  PROVE  /\ Parsed(t) \in Seq(Index)
         /\ Len(Parsed(t)) = IF t = <<>> THEN 0 ELSE 1
         /\ t # <<>> => Parsed(t)[1] = [t[1] EXCEPT !.columns = SubSeq(@, 1, 1)]
<1>1. CASE t = <<>>
  BY <1>1 DEF Parsed
<1>2. CASE t # <<>>
  <2> DEFINE c == t[1].columns
             x == [t[1] EXCEPT !.columns = SubSeq(@, 1, 1)]
  <2>1. t[1] \in Index
    BY <1>2
  <2>2. c # <<>> /\ \E m \in 0..2 : c \in [1..m -> Columns]
    BY <2>1 DEF Index, SeqOf
  <2>3. PICK m \in 0..2 : c \in [1..m -> Columns]
    BY <2>2
  <2>4. c \in Seq(Columns) /\ Len(c) = m
    BY <2>3
  <2>5. SubSeq(c, 1, 1) \in [1..1 -> Columns] /\ SubSeq(c, 1, 1) # <<>>
    <3>1. Len(c) \in Nat /\ Len(c) # 0
      BY <2>2, <2>4
    <3>2. SubSeq(c, 1, 1) \in Seq(Columns)
      BY <2>4, <3>1
    <3>3. Len(SubSeq(c, 1, 1)) = 1
      BY <2>4, <3>1
    <3>4. SubSeq(c, 1, 1) \in [1..Len(SubSeq(c, 1, 1)) -> Columns]
      BY <3>2, LenProperties, Zenon
    <3>5. SubSeq(c, 1, 1) # <<>>
      <4>1. Len(<<>>) # 1
        OBVIOUS
      <4> QED BY <3>3, <4>1, Zenon
    <3>6. SubSeq(c, 1, 1) \in [1..1 -> Columns]
      BY <3>3, <3>4, Zenon
    <3> QED BY <3>5, <3>6
  <2>6. SubSeq(c, 1, 1) \in SeqOf(Columns, 2)
    BY <2>5 DEF SeqOf
  <2>7. x \in Index
    <3>1. x = [columns |-> SubSeq(c, 1, 1), remark |-> t[1].remark] /\ t[1].remark \in BOOLEAN
      BY <2>1 DEF Index
    <3> QED BY <2>5, <2>6, <3>1 DEF Index
  <2> HIDE DEF x
  <2>8. Parsed(t) = <<x>>
    BY <1>2 DEF Parsed, x
  <2> QED BY <1>2, <2>7, <2>8 DEF x
<1> QED BY <1>1, <1>2

LEMMA SqlStep == SqlInv /\ [Next]_vars => SqlInv'
<1> SUFFICES ASSUME SqlInv, [Next]_vars PROVE SqlInv'
  OBVIOUS
<1>0. DesignInv'
  BY StepDesign DEF SqlInv
<1>a. table \in Seq(Index)
  BY DEF SqlInv, TypeOK
<1>b. design \in Design /\ sent \in Seq({"part", ","}) /\ read \in Seq(Index)
  BY DEF SqlInv, TypeOK
<1>c. Len(table) \in Nat /\ Len(table) <= MaxParts /\ (table # <<>> => Len(table) > 0)
  BY <1>a DEF SqlInv
<1>d. <<>> \in Seq({"part", ","}) /\ <<>> \in Seq(Index)
  OBVIOUS
<1>1. ASSUME NEW p \in DOMAIN design, NEW n \in 0..MaxParts, Change(p, n) PROVE SqlInv'
  <2>1. design' \in Design /\ sent' = <<>> /\ UNCHANGED <<table, read>>
    BY <1>1, <1>b DEF Change, Design
  <2>t. TypeOK'
    BY <1>a, <1>b, <1>d, <2>1 DEF TypeOK
  <2> QED BY <1>0, <1>d, <2>1, <2>t DEF SqlInv
<1>2. CASE Send
  <2>1. sent' \in Seq({"part", ","})
    BY <1>2, StatementFits DEF Send, SqlInv, DesignInv, Token
  <2>2. UNCHANGED <<design, table, read>>
    BY <1>2 DEF Send
  <2> QED BY <1>0, <1>a, <1>b, <2>1, <2>2 DEF SqlInv, TypeOK
<1>3. ASSUME NEW x \in Index, AddIndex(x) PROVE SqlInv'
  <2>1. /\ table' = Append(table, x) /\ Len(table) < MaxParts /\ read' = <<>>
        /\ UNCHANGED <<design, sent>>
    BY <1>3 DEF AddIndex
  <2>2. table' \in Seq(Index) /\ Len(table') = Len(table) + 1
    BY <1>a, <2>1
  <2>3. Len(table') <= MaxParts
    BY <1>c, <2>1, <2>2, BoundsAreNumbers
  <2>t. TypeOK'
    BY <1>a, <1>b, <1>d, <2>1, <2>2, <2>3 DEF TypeOK
  <2> QED BY <1>0, <1>d, <2>1, <2>2, <2>3, <2>t DEF SqlInv
<1>4. CASE Open
  <2>1. /\ read' = Parsed(table) /\ design' = [design EXCEPT !.indexes = Len(read')]
        /\ sent' = <<>> /\ table' = table
    BY <1>4 DEF Open
  <2>2. read' \in Seq(Index) /\ Len(read') = IF table = <<>> THEN 0 ELSE 1
    BY <1>a, <2>1, ParsedIs
  <2>3. Len(read') \in 0..MaxParts
    BY <1>c, <2>2, BoundsAreNumbers
  <2>4. design' \in Design
    BY <1>b, <2>1, <2>3 DEF Design
  <2>5. read' # <<>> => table # <<>>
    BY <2>1 DEF Parsed
  <2>t. TypeOK'
    BY <1>a, <1>b, <1>d, <2>1, <2>2, <2>4, <2>5 DEF TypeOK
  <2> QED BY <1>0, <1>d, <2>1, <2>2, <2>4, <2>5, <2>t DEF SqlInv
<1>5. CASE UNCHANGED vars
  BY <1>0, <1>5 DEF vars, SqlInv, TypeOK
<1> QED BY <1>1, <1>2, <1>3, <1>4, <1>5 DEF Next

LEMMA ReadIs == SqlInv => ReadIsTable
<1> SUFFICES ASSUME SqlInv, read # <<>>
             PROVE  read = table <=> Len(table) = 1 /\ Len(table[1].columns) = 1
  BY DEF ReadIsTable
<1> DEFINE c == table[1].columns
<1>1. table \in Seq(Index) /\ table # <<>> /\ read \in Seq(Index)
  BY DEF SqlInv, TypeOK
<1>2. /\ Len(read) = 1 /\ read[1] = [table[1] EXCEPT !.columns = SubSeq(@, 1, 1)]
  BY <1>1, ParsedIs DEF SqlInv
<1>3. table[1] \in Index /\ c \in Seq(Columns) /\ Len(c) \in Nat /\ Len(c) # 0
  <2>1. table[1] \in Index
    BY <1>1
  <2>2. c # <<>> /\ \E m \in 0..2 : c \in [1..m -> Columns]
    BY <2>1 DEF Index, SeqOf
  <2>3. PICK m \in 0..2 : c \in [1..m -> Columns]
    BY <2>2
  <2>4. c \in Seq(Columns)
    BY <2>3
  <2> QED BY <2>1, <2>2, <2>4
<1>4. Len(SubSeq(c, 1, 1)) = 1 /\ (Len(c) = 1 => SubSeq(c, 1, 1) = c)
  BY <1>3
<1>5. ASSUME read = table PROVE Len(table) = 1 /\ Len(c) = 1
  <2>1. c = SubSeq(c, 1, 1)
    BY <1>2, <1>3, <1>5 DEF Index
  <2> QED BY <1>2, <1>4, <1>5, <2>1
<1>6. ASSUME Len(table) = 1, Len(c) = 1 PROVE read = table
  <2>1. read[1] = table[1]
    BY <1>2, <1>3, <1>4, <1>6 DEF Index
  <2> QED BY <1>1, <1>2, <1>6, <2>1
<1> QED BY <1>5, <1>6

-----------------------------------------------------------------------------
(***************************************************************************)
(* The grid of result rows.  While no mishap has happened the statements   *)
(* sent and not executed lead from the rows of the database to those shown *)
(* (Replays), or the rows have been asked for again and nothing was        *)
(* changed since (LoadsLast).                                              *)
(***************************************************************************)
Filled == \E i \in DOMAIN wire : wire[i] = G!Load
LoadsLast == \A i, j \in DOMAIN wire : i < j /\ wire[i] = G!Load => wire[j] = G!Load

\* The primary key tells the rows of d apart.
KeysTell(d) == \A r, s \in d : G!SameKey(r, s) => r = s

\* Statement s, meant for the rows d, is to make them e.
Follows(s, d, e) ==
  \/ s.what = "insert" /\ e = d \cup {s.row}
  \/ /\ s.what = "update" /\ s.old # None
     /\ \E r \in d : /\ s.old.a = r.a /\ s.row.a = r.a /\ s.row.b = r.b /\ s.row # r
                     /\ e = (d \ {r}) \cup {s.row}
  \/ s.what = "delete" /\ s.rows \subseteq d /\ e = d \ s.rows

\* The statements w make e of the rows d.
Replays(d, w, e) ==
  \E m \in [0..Len(w) -> SUBSET G!Row] :
    m[0] = d /\ m[Len(w)] = e /\ \A i \in 1..Len(w) : Follows(w[i], m[i - 1], m[i])

Harmless ==
  /\ waiting # None => isSave /\ waiting = fresh
  /\ fresh # None /\ waiting = None => Filled
  /\ LoadsLast
  /\ ~Filled => Replays(db, wire, shown)

GridInv ==
  /\ G!TypeOK /\ KeysTell(db) /\ IsFiniteSet(db)
  /\ selected \subseteq shown /\ (dialog # None => dialog.rows \subseteq dialog.saw)
  /\ G!LostWereSelected /\ G!UnsavedIsOffered
  /\ harm = {} => Harmless

LEMMA StatementIs ==
  ASSUME NEW s \in G!Statement
  PROVE  /\ s.what \in {"load", "insert", "update", "delete"}
         /\ s.what = "load" => s = G!Load
         /\ s.what = "insert" => s.row \in G!Row
         /\ s.what = "update" => s.row \in G!Row /\ s.old \in G!Row \cup {None}
         /\ s.what = "delete" => s.rows \subseteq G!Row
  BY DEF G!Statement, G!Load

\* Nothing to execute.
LEMMA ReplaysNone ==
  ASSUME NEW d \in SUBSET G!Row
  PROVE  /\ Replays(d, <<>>, d)
         /\ \A e : Replays(d, <<>>, e) => d = e
<1>1. Len(<<>>) = 0 /\ 1..0 = {}
  OBVIOUS
<1> DEFINE m == [i \in 0..0 |-> d]
<1>2. m \in [0..Len(<<>>) -> SUBSET G!Row] /\ m[0] = d
  BY <1>1
<1> QED BY <1>1, <1>2 DEF Replays

\* One statement more.
LEMMA ReplaysMore ==
  ASSUME NEW d, NEW w \in Seq(G!Statement), NEW e, Replays(d, w, e),
         NEW s \in G!Statement, NEW f \in SUBSET G!Row, Follows(s, e, f)
  PROVE  Replays(d, Append(w, s), f)
<1> DEFINE n == Len(w)
           v == Append(w, s)
<1>1. n \in Nat /\ Len(v) = n + 1 /\ v[n + 1] = s /\ \A i \in 1..n : v[i] = w[i]
  OBVIOUS
<1>2. PICK m \in [0..n -> SUBSET G!Row] :
        m[0] = d /\ m[n] = e /\ \A i \in 1..n : Follows(w[i], m[i - 1], m[i])
  BY DEF Replays
<1> DEFINE k == [i \in 0..(n + 1) |-> IF i <= n THEN m[i] ELSE f]
<1> HIDE DEF n, v
<1>3. k \in [0..(n + 1) -> SUBSET G!Row] /\ k[0] = d /\ k[n + 1] = f
  BY <1>1, <1>2
<1>4. ASSUME NEW i \in 1..(n + 1) PROVE Follows(v[i], k[i - 1], k[i])
  <2>1. CASE i <= n
    <3>1. i \in 1..n /\ k[i] = m[i] /\ k[i - 1] = m[i - 1] /\ v[i] = w[i]
      BY <1>1, <2>1
    <3> QED BY <1>2, <3>1
  <2>2. CASE i = n + 1
    <3>1. k[i] = f /\ k[i - 1] = e /\ v[i] = s
      BY <1>1, <1>2, <2>2
    <3> QED BY <3>1
  <2> QED BY <1>1, <2>1, <2>2
<1> QED BY <1>1, <1>3, <1>4 DEF Replays, v

\* The first statement is executed.
LEMMA ReplaysLess ==
  ASSUME NEW d, NEW w \in Seq(G!Statement), NEW e, Replays(d, w, e), w # <<>>
  PROVE  \E f \in SUBSET G!Row : Follows(Head(w), d, f) /\ Replays(f, Tail(w), e)
<1> DEFINE n == Len(w)
           v == Tail(w)
<1>1. /\ n \in Nat /\ n > 0 /\ Len(v) = n - 1 /\ Head(w) = w[1]
      /\ \A i \in 1..(n - 1) : v[i] = w[i + 1]
  OBVIOUS
<1>2. PICK m \in [0..n -> SUBSET G!Row] :
        m[0] = d /\ m[n] = e /\ \A i \in 1..n : Follows(w[i], m[i - 1], m[i])
  BY DEF Replays
<1> DEFINE k == [i \in 0..(n - 1) |-> m[i + 1]]
<1> HIDE DEF n, v
<1>3. k \in [0..(n - 1) -> SUBSET G!Row] /\ k[0] = m[1] /\ k[n - 1] = e
  BY <1>1, <1>2
<1>4. ASSUME NEW i \in 1..(n - 1) PROVE Follows(v[i], k[i - 1], k[i])
  <2>1. i + 1 \in 1..n /\ k[i] = m[i + 1] /\ k[i - 1] = m[i] /\ v[i] = w[i + 1]
    BY <1>1
  <2>2. Follows(w[i + 1], m[(i + 1) - 1], m[i + 1])
    BY <1>2, <2>1
  <2>3. (i + 1) - 1 = i
    OBVIOUS
  <2> QED BY <2>1, <2>2, <2>3
<1>5. Replays(m[1], v, e)
  BY <1>1, <1>3, <1>4 DEF Replays
<1>6. m[1] \in SUBSET G!Row /\ Follows(w[1], d, m[1])
  <2>1. 1 \in 1..n /\ 1 - 1 = 0
    BY <1>1
  <2> QED BY <1>1, <1>2, <2>1
<1> QED BY <1>1, <1>5, <1>6 DEF v

LEMMA LoadIs == G!Load \in G!Statement
  BY DEF G!Load, G!Statement

\* A statement is sent.
LEMMA SentIs ==
  ASSUME G!TypeOK, NEW s \in G!Statement, G!Sent(s)
  PROVE  /\ wire' = Append(wire, s) /\ wire' \in Seq(G!Statement)
         /\ Len(wire) \in Nat /\ Len(wire') = Len(wire) + 1 /\ wire'[Len(wire) + 1] = s
         /\ \A i \in 1..Len(wire) : wire'[i] = wire[i]
<1>1. wire \in Seq(G!Statement) /\ wire' = Append(wire, s)
  BY DEF G!TypeOK, G!Sent
<1> QED BY <1>1, AppendProperties, LenProperties

LEMMA GridTypesInit == G!Init => G!TypeOK
<1> SUFFICES ASSUME G!Init PROVE G!TypeOK
  OBVIOUS
<1>1. key \in G!PrimaryKeys /\ db \subseteq G!Entered(key) /\ shown = db /\ wire = <<>>
  BY DEF G!Init
<1>2. G!Entered(key) \subseteq G!Row
  BY BoundsAreNumbers DEF G!Entered, G!Row
<1>3. wire \in Seq(G!Statement)
  BY <1>1
<1>4. /\ fresh = None /\ selected = {} /\ old = None /\ waiting = None /\ isSave = FALSE
      /\ isAdd = TRUE /\ dialog = None /\ lost = {} /\ harm = {}
  BY DEF G!Init
<1> QED BY <1>1, <1>2, <1>3, <1>4 DEF G!TypeOK

LEMMA GridTypesStep == G!TypeOK /\ [G!Next]_(G!vars) => G!TypeOK'
<1> SUFFICES ASSUME G!TypeOK, [G!Next]_(G!vars) PROVE G!TypeOK'
  OBVIOUS
<1>a. /\ key \in G!PrimaryKeys /\ db \subseteq G!Row /\ shown \subseteq G!Row
      /\ selected \subseteq G!Row /\ lost \subseteq G!Row
      /\ fresh \in G!Row \cup {None} /\ old \in G!Row \cup {None} /\ waiting \in G!Row \cup {None}
      /\ isSave \in BOOLEAN /\ isAdd \in BOOLEAN /\ harm \subseteq G!Harms
      /\ dialog \in {None} \cup [rows : SUBSET G!Row, saw : SUBSET G!Row]
  BY DEF G!TypeOK
<1>b. wire \in Seq(G!Statement)
  BY DEF G!TypeOK
<1>c. \A b, h : h \in G!Harms => G!Marked(b, h) \subseteq G!Harms
  BY <1>a DEF G!Marked
<1>d. G!Overtaken \subseteq G!Harms
  BY DEF G!Overtaken, G!Harms
<1>1. ASSUME NEW r \in shown, G!Select(r) PROVE G!TypeOK'
  BY <1>1, <1>a, <1>b DEF G!Select, G!TypeOK
<1>2. ASSUME NEW refresh \in BOOLEAN, G!Page(refresh) PROVE G!TypeOK'
  <2>1. wire' \in Seq(G!Statement)
    BY <1>2, LoadIs, SentIs DEF G!Page
  <2>2. harm' \subseteq G!Harms
    BY <1>2, <1>c DEF G!Page, G!Harms
  <2> QED BY <1>2, <1>a, <2>1, <2>2 DEF G!Page, G!TypeOK
<1>3. ASSUME NEW r \in G!Entered(key), G!Add(r) PROVE G!TypeOK'
  <2>1. r \in G!Row
    BY BoundsAreNumbers DEF G!Entered, G!Row
  <2> QED BY <1>3, <1>a, <1>b, <2>1 DEF G!Add, G!Wait, G!TypeOK
<1>4. ASSUME NEW r \in shown, G!Paste(r) PROVE G!TypeOK'
  <2>1. r \in G!Row /\ "several" \in G!Harms
    BY <1>a DEF G!Harms
  <2> QED BY <1>4, <1>a, <1>b, <2>1 DEF G!Paste, G!Wait, G!TypeOK
<1>5. ASSUME NEW r \in shown, NEW double \in BOOLEAN, G!Change(r, double) PROVE G!TypeOK'
  <2> DEFINE new == [r EXCEPT !.v = @ + 1]
  <2>1. r \in G!Row /\ new \in G!Row /\ old' \in G!Row \cup {None}
    <3>1. r \in G!Row /\ r.v < MaxRow
      BY <1>5, <1>a DEF G!Change
    <3>2. new \in G!Row
      BY <3>1, BoundsAreNumbers DEF G!Row
    <3> QED BY <1>5, <1>a, <3>1, <3>2 DEF G!Change
  <2>2. /\ shown' = (shown \ {r}) \cup {new}
        /\ selected' = IF r \in selected THEN (selected \ {r}) \cup {new} ELSE selected
        /\ UNCHANGED <<key, db, fresh, isSave, isAdd, dialog, lost>>
    BY <1>5 DEF G!Change
  <2>3. waiting' \in G!Row \cup {None} /\ wire' \in Seq(G!Statement) /\ harm' \subseteq G!Harms
    <3>1. CASE isSave
      <4>1. waiting' = new /\ wire' = wire /\ harm' = harm \cup {"replaced"}
        BY <1>5, <3>1 DEF G!Change
      <4> QED BY <1>a, <1>b, <2>1, <4>1 DEF G!Harms
    <3>2. CASE ~isSave
      <4> DEFINE s == [what |-> "update", row |-> new, old |-> old']
      <4>1. /\ G!Sent(s) /\ waiting' = waiting
            /\ harm' = G!Marked(old' = None \/ (old' # None /\ ~G!SameKey(old', r)), "keyed")
                         \cup G!Overtaken
        BY <1>5, <3>2 DEF G!Change
      <4>2. s \in G!Statement
        BY <2>1 DEF G!Statement
      <4>3. wire' \in Seq(G!Statement)
        BY <4>1, <4>2, SentIs
      <4>4. "keyed" \in G!Harms
        BY DEF G!Harms
      <4> QED BY <1>a, <1>c, <1>d, <4>1, <4>3, <4>4
    <3> QED BY <3>1, <3>2
  <2> HIDE DEF new
  <2> QED BY <1>a, <2>1, <2>2, <2>3 DEF G!TypeOK
<1>6. CASE G!Save
  <2>1. wire' \in Seq(G!Statement) /\ harm' \subseteq G!Harms
    <3>1. CASE waiting = None
      BY <1>6, <1>a, <1>b, <3>1 DEF G!Save
    <3>2. CASE waiting # None
      <4> DEFINE s == [what |-> "insert", row |-> waiting]
      <4>1. G!Sent(s) /\ harm' = harm \cup G!Overtaken
        BY <1>6, <3>2 DEF G!Save
      <4>2. s \in G!Statement
        BY <1>a, <3>2 DEF G!Statement
      <4> QED BY <1>a, <1>d, <4>1, <4>2, SentIs
    <3> QED BY <3>1, <3>2
  <2> QED BY <1>6, <1>a, <2>1 DEF G!Save, G!TypeOK
<1>7. CASE G!Discard
  <2>1. wire' \in Seq(G!Statement)
    BY <1>7, LoadIs, SentIs DEF G!Discard, G!Discarded
  <2> QED BY <1>7, <1>a, <2>1 DEF G!Discard, G!TypeOK
<1>8. CASE G!AskDelete
  BY <1>8, <1>a, <1>b DEF G!AskDelete, G!TypeOK
<1>9. ASSUME NEW ok \in BOOLEAN, G!Answer(ok) PROVE G!TypeOK'
  <2>1. CASE ok
    <3> DEFINE s == [what |-> "delete", rows |-> dialog.rows]
    <3>1. /\ G!Sent(s) /\ shown' = dialog.saw \ dialog.rows /\ selected' = {}
          /\ harm' = G!Marked(dialog.saw # shown, "outdated") \cup G!Overtaken
          /\ dialog # None
      BY <1>9, <2>1 DEF G!Answer
    <3>2. dialog.rows \subseteq G!Row /\ dialog.saw \subseteq G!Row
      BY <1>a, <3>1
    <3>3. wire' \in Seq(G!Statement)
      <4>1. s \in G!Statement
        BY <3>2 DEF G!Statement
      <4> QED BY <3>1, <4>1, SentIs
    <3>4. harm' \subseteq G!Harms
      <4>1. "outdated" \in G!Harms
        BY DEF G!Harms
      <4> QED BY <1>c, <1>d, <3>1, <4>1
    <3>5. UNCHANGED <<key, db, fresh, old, waiting, isSave, isAdd, lost>> /\ dialog' = None
      BY <1>9 DEF G!Answer
    <3> HIDE DEF s
    <3> QED BY <1>a, <3>1, <3>2, <3>3, <3>4, <3>5 DEF G!TypeOK
  <2>2. CASE ~ok
    BY <1>9, <1>a, <1>b, <2>2 DEF G!Answer, G!TypeOK
  <2> QED BY <2>1, <2>2
<1>10. CASE G!Execute
  <2> DEFINE s == Head(wire)
  <2>1. wire # <<>> /\ s \in G!Statement /\ wire' \in Seq(G!Statement)
    BY <1>10, <1>b, HeadTailProperties DEF G!Execute
  <2>2. UNCHANGED <<key, old, waiting, isSave, isAdd, dialog>>
    BY <1>10 DEF G!Execute
  <2>3. /\ db' \subseteq G!Row /\ lost' \subseteq G!Row /\ harm' \subseteq G!Harms
        /\ shown' \subseteq G!Row /\ selected' \subseteq G!Row /\ fresh' \in G!Row \cup {None}
    <3>1. CASE s.what = "load"
      <4>1. /\ shown' = db /\ fresh' = None /\ selected' = {} /\ db' = db /\ lost' = lost
            /\ harm' = G!Marked(waiting # None /\ harm = {}, "overtaken")
        BY <1>10, <3>1 DEF G!Execute
      <4>2. "overtaken" \in G!Harms
        BY DEF G!Harms
      <4> QED BY <1>a, <1>c, <4>1, <4>2
    <3>2. CASE s.what # "load"
      <4>1. /\ UNCHANGED <<shown, fresh, selected>>
            /\ \/ s.what = "insert" /\ G!Insert(s.row)
               \/ s.what = "update" /\ G!UpdateRow(s.row, s.old)
               \/ s.what = "delete" /\ G!DeleteRows(s.rows)
        BY <1>10, <3>2 DEF G!Execute
      <4>2. CASE s.what = "insert" /\ G!Insert(s.row)
        <5>1. s.row \in G!Row /\ "duplicate" \in G!Harms
          BY <2>1, <4>2, StatementIs DEF G!Harms
        <5> QED BY <1>a, <4>1, <4>2, <5>1 DEF G!Insert
      <4>3. CASE s.what = "update" /\ G!UpdateRow(s.row, s.old)
        <5>1. s.row \in G!Row /\ {"text", "composite", "keyed"} \subseteq G!Harms
          BY <2>1, <4>3, StatementIs DEF G!Harms
        <5>2. db' \subseteq G!Row /\ lost' = lost
          BY <1>a, <4>3, <5>1 DEF G!UpdateRow
        <5>3. harm' \subseteq G!Harms
          BY <1>a, <1>c, <4>3, <5>1 DEF G!UpdateRow
        <5> QED BY <1>a, <4>1, <5>2, <5>3
      <4>4. CASE s.what = "delete" /\ G!DeleteRows(s.rows)
        <5>1. {"text", "composite", "keyed"} \subseteq G!Harms
          BY DEF G!Harms
        <5>2. db' \subseteq G!Row /\ lost' \subseteq G!Row
          BY <1>a, <4>4 DEF G!DeleteRows, G!FoundAny, G!Strays
        <5>3. harm' \subseteq G!Harms
          BY <1>a, <1>c, <4>4, <5>1 DEF G!DeleteRows
        <5> QED BY <1>a, <4>1, <5>2, <5>3
      <4> QED BY <4>1, <4>2, <4>3, <4>4
    <3> QED BY <3>1, <3>2
  <2> HIDE DEF s
  <2> QED BY <1>a, <2>1, <2>2, <2>3 DEF G!TypeOK
<1>11. CASE UNCHANGED G!vars
  BY <1>11, <1>a, <1>b DEF G!vars, G!TypeOK
<1> QED BY <1>1, <1>2, <1>3, <1>4, <1>5, <1>6, <1>7, <1>8, <1>9, <1>10, <1>11 DEF G!Next, G!Step

-----------------------------------------------------------------------------
LEMMA GridHarmGrows == [G!Next]_(G!vars) => harm \subseteq harm'
<1> SUFFICES ASSUME [G!Next]_(G!vars) PROVE harm \subseteq harm'
  OBVIOUS
<1>1. \A b, h : harm \subseteq G!Marked(b, h)
  BY DEF G!Marked
<1>2. CASE G!Execute
  BY <1>1, <1>2 DEF G!Execute, G!Insert, G!UpdateRow, G!DeleteRows
<1>3. CASE G!Next /\ ~G!Execute
  BY <1>1, <1>3 DEF G!Next, G!Step, G!Select, G!Paste, G!Wait, G!Change, G!Add, G!Page, G!Save,
     G!Discard, G!AskDelete, G!Answer
<1>4. CASE UNCHANGED G!vars
  BY <1>4 DEF G!vars
<1> QED BY <1>2, <1>3, <1>4

\* Only the server changes the rows of the database, and they stay told
\* apart by its key.
LEMMA KeysStep == GridInv /\ [G!Next]_(G!vars) => KeysTell(db)' /\ IsFiniteSet(db)' /\ G!LostWereSelected'
<1> SUFFICES ASSUME GridInv, [G!Next]_(G!vars) PROVE KeysTell(db)' /\ IsFiniteSet(db)' /\ G!LostWereSelected'
  OBVIOUS
<1>a. KeysTell(db) /\ IsFiniteSet(db) /\ G!LostWereSelected
  BY DEF GridInv
<1>1. CASE UNCHANGED <<key, db, lost>>
  BY <1>1, <1>a DEF KeysTell, G!SameKey, G!LostWereSelected
<1>2. CASE G!Execute
  <2> DEFINE s == Head(wire)
  <2>0. key' = key
    BY <1>2 DEF G!Execute
  <2>1. CASE db' = db /\ lost' = lost
    BY <1>1, <2>0, <2>1
  <2>2. CASE G!Insert(s.row)
    <3>1. db' = db \/ db' = db \cup {s.row}
      BY <2>2 DEF G!Insert
    <3>2. IsFiniteSet(db')
      BY <1>a, <3>1, FS_AddElement
    <3> QED BY <1>a, <2>0, <2>2, <3>2 DEF G!Insert, KeysTell, G!SameKey, G!LostWereSelected
  <2>3. CASE G!UpdateRow(s.row, s.old)
    <3>1. \E h \in SUBSET db : db' = db \/ db' = (db \ h) \cup {s.row}
      BY <2>3 DEF G!UpdateRow, G!Found
    <3>2. IsFiniteSet(db')
      BY <1>a, <3>1, FS_AddElement, FS_Subset
    <3> QED BY <1>a, <2>0, <2>3, <3>2 DEF G!UpdateRow, KeysTell, G!SameKey, G!LostWereSelected
  <2>4. CASE G!DeleteRows(s.rows)
    <3>1. db' \subseteq db
      BY <2>4 DEF G!DeleteRows
    <3>2. IsFiniteSet(db')
      BY <1>a, <3>1, FS_Subset
    <3> QED BY <1>a, <2>0, <2>4, <3>2 DEF G!DeleteRows, KeysTell, G!SameKey, G!LostWereSelected,
              G!Hit, G!FoundAny, G!Strays
  <2> HIDE DEF s
  <2> QED BY <1>2, <2>1, <2>2, <2>3, <2>4 DEF G!Execute, s
<1>3. CASE G!Next /\ ~G!Execute
  <2>1. UNCHANGED <<key, db, lost>>
    BY <1>3 DEF G!Next, G!Step, G!Select, G!Paste, G!Wait, G!Change, G!Add, G!Page, G!Save,
       G!Discard, G!AskDelete, G!Answer
  <2> QED BY <1>1, <2>1
<1>4. CASE UNCHANGED G!vars
  BY <1>1, <1>4 DEF G!vars
<1> QED BY <1>2, <1>3, <1>4

\* A statement is sent: the rows are asked for again, or changed while nobody
\* has asked.
LEMMA SentLoad ==
  ASSUME G!TypeOK, LoadsLast, G!Sent(G!Load)
  PROVE  LoadsLast' /\ Filled'
<1>1. /\ wire' \in Seq(G!Statement) /\ Len(wire') = Len(wire) + 1 /\ Len(wire) \in Nat
      /\ wire'[Len(wire) + 1] = G!Load /\ \A i \in 1..Len(wire) : wire'[i] = wire[i]
  BY LoadIs, SentIs
<1>2. DOMAIN wire = 1..Len(wire) /\ DOMAIN wire' = 1..(Len(wire) + 1)
  BY <1>1, LenProperties DEF G!TypeOK
<1>3. Filled'
  BY <1>1, <1>2 DEF Filled, G!Load
<1>4. LoadsLast'
  <2> SUFFICES ASSUME NEW i \in DOMAIN wire', NEW j \in DOMAIN wire', i < j, wire'[i] = G!Load
               PROVE  wire'[j] = G!Load
    BY DEF LoadsLast, G!Load
  <2>1. CASE j = Len(wire) + 1
    BY <1>1, <2>1
  <2>2. CASE j # Len(wire) + 1
    <3>1. i \in 1..Len(wire) /\ j \in 1..Len(wire)
      BY <1>1, <1>2, <2>2
    <3> QED BY <1>1, <1>2, <3>1 DEF LoadsLast
  <2> QED BY <2>1, <2>2
<1> QED BY <1>3, <1>4

LEMMA SentChange ==
  ASSUME G!TypeOK, ~Filled, NEW s \in G!Statement, s.what # "load", G!Sent(s), db' = db,
         Replays(db, wire, shown), NEW e \in SUBSET G!Row, Follows(s, shown, e)
  PROVE  LoadsLast' /\ Replays(db', wire', e)
<1>1. /\ wire' = Append(wire, s)
      /\ wire' \in Seq(G!Statement) /\ Len(wire') = Len(wire) + 1 /\ Len(wire) \in Nat
      /\ wire'[Len(wire) + 1] = s /\ \A i \in 1..Len(wire) : wire'[i] = wire[i]
  BY SentIs
<1>2. /\ DOMAIN wire = 1..Len(wire) /\ DOMAIN wire' = 1..(Len(wire) + 1)
      /\ wire \in Seq(G!Statement)
  BY <1>1, LenProperties DEF G!TypeOK
<1>3. \A i \in DOMAIN wire' : wire'[i] # G!Load
  BY <1>1, <1>2 DEF Filled, G!Load
<1>4. LoadsLast'
  BY <1>3 DEF LoadsLast, G!Load
<1> QED BY <1>1, <1>2, <1>4, ReplaysMore

\* RowGrid counts as FiniteSets does.
LEMMA CountsAlike == \A S : G!Cardinality(S) = Cardinality(S) /\ (G!IsFiniteSet(S) <=> IsFiniteSet(S))
  BY DEF G!Cardinality, Cardinality, G!IsFiniteSet, IsFiniteSet

\* A statement that causes no mishap does what it is meant to.
LEMMA ExecutedAsMeant ==
  ASSUME G!TypeOK, KeysTell(db), IsFiniteSet(db), NEW s \in G!Statement, NEW f, Follows(s, db, f),
         harm' = {},
         \/ s.what = "insert" /\ G!Insert(s.row)
         \/ s.what = "update" /\ G!UpdateRow(s.row, s.old)
         \/ s.what = "delete" /\ G!DeleteRows(s.rows)
  PROVE  db' = f
<1>0. db \subseteq G!Row
  BY DEF G!TypeOK
<1>1. CASE s.what = "insert" /\ G!Insert(s.row)
  <2>1. f = db \cup {s.row}
    BY <1>1 DEF Follows
  <2> QED BY <1>1, <2>1 DEF G!Insert
<1>2. CASE s.what = "update" /\ G!UpdateRow(s.row, s.old)
  <2> DEFINE hit == G!Found(s.old)
             alone == Cardinality(hit) = 1 /\ ~\E x \in db \ hit : G!SameKey(s.row, x)
  <2> DEFINE h == IF ~key.integer THEN "text"
                  ELSE IF key.composite THEN "composite" ELSE "keyed"
  <2>1. IF alone THEN db' = (db \ hit) \cup {s.row} /\ harm' = harm
        ELSE db' = db /\ harm' = G!Marked(s.row \notin db, h)
    BY <1>2, CountsAlike DEF G!UpdateRow
  <2>2. PICK r \in db : /\ s.old # None /\ s.old.a = r.a /\ s.row # r
                        /\ s.row.a = r.a /\ s.row.b = r.b /\ f = (db \ {r}) \cup {s.row}
    BY <1>2 DEF Follows
  <2>3. s.row \notin db
    BY <2>2 DEF KeysTell, G!SameKey
  <2>4. alone
    <3>1. ~alone => harm' # {}
      <4> HIDE DEF alone, h
      <4> QED BY <2>1, <2>3 DEF G!Marked
    <3> QED BY <3>1
  <2>5. db' = (db \ hit) \cup {s.row}
    BY <2>1, <2>4
  <2>6. hit = {r}
    <3>1. Cardinality(hit) = 1
      BY <2>4
    <3>2. PICK x : hit = {x}
      <4>1. hit \subseteq db
        BY DEF G!Found
      <4>2. IsFiniteSet(hit)
        BY <4>1, FS_Subset
      <4> QED BY <3>1, <4>2, FS_Singleton
    <3>3. key.integer
      BY <3>2 DEF G!Found
    <3>4. r \in hit
      BY <2>2, <3>3 DEF G!Found, G!SameKey, G!Hit
    <3> QED BY <3>2, <3>4
  <2> QED BY <2>2, <2>5, <2>6
<1>3. CASE s.what = "delete" /\ G!DeleteRows(s.rows)
  <2> DEFINE hit == G!FoundAny(s.rows)
             stray == G!Strays(s.rows)
  <2>1. s.rows \subseteq db /\ f = db \ s.rows
    BY <1>3 DEF Follows
  <2>2. db' = db \ hit /\ key.integer /\ stray = {}
    <3>1. db' = db \ hit
      BY <1>3 DEF G!DeleteRows
    <3>2. ~key.integer => harm' # {}
      BY <1>3 DEF G!DeleteRows
    <3>3. key.integer => harm' = G!Marked(stray # {}, "composite")
      BY <1>3 DEF G!DeleteRows
    <3>4. key.integer /\ stray # {} => harm' # {}
      BY <3>3 DEF G!Marked
    <3> QED BY <3>1, <3>2, <3>4
  <2>3. hit \subseteq s.rows
    BY <2>1, <2>2 DEF KeysTell, G!Strays, G!FoundAny
  <2>4. s.rows \subseteq hit
    BY <2>1, <2>2 DEF G!FoundAny, G!Hit
  <2> QED BY <2>1, <2>2, <2>3, <2>4
<1> QED BY <1>1, <1>2, <1>3

\* The server executes a statement: the others still lead to the rows shown.
LEMMA GridExecuted ==
  ASSUME GridInv, G!Execute, harm = {}, harm' = {}
  PROVE  Harmless'
<1> DEFINE s == Head(wire)
<1>1. harm = {} /\ Harmless
  BY DEF GridInv
<1>2. G!TypeOK /\ KeysTell(db) /\ IsFiniteSet(db) /\ db \subseteq G!Row /\ wire \in Seq(G!Statement)
  BY DEF GridInv, G!TypeOK
<1>3. wire # <<>> /\ wire' = Tail(wire) /\ UNCHANGED <<key, waiting, isSave>>
  BY DEF G!Execute
<1>4. /\ Len(wire) \in Nat /\ Len(wire) > 0 /\ wire' \in Seq(G!Statement)
      /\ DOMAIN wire = 1..Len(wire) /\ DOMAIN wire' = 1..(Len(wire) - 1)
      /\ \A i \in 1..(Len(wire) - 1) : wire'[i] = wire[i + 1]
      /\ s = wire[1] /\ s \in G!Statement
  <2>1. wire' \in Seq(G!Statement) /\ Len(wire') = Len(wire) - 1 /\ s \in G!Statement
    BY <1>2, <1>3, HeadTailProperties
  <2> QED BY <1>2, <1>3, <2>1, HeadTailProperties, LenProperties
<1>5. LoadsLast'
  <2> SUFFICES ASSUME NEW i \in DOMAIN wire', NEW j \in DOMAIN wire', i < j, wire'[i] = G!Load
               PROVE  wire'[j] = G!Load
    BY DEF LoadsLast, G!Load
  <2>1. i + 1 \in DOMAIN wire /\ j + 1 \in DOMAIN wire /\ i + 1 < j + 1
    BY <1>4
  <2> QED BY <1>1, <1>4, <2>1 DEF Harmless, LoadsLast
<1>6. CASE s.what = "load"
  <2>1. /\ shown' = db /\ fresh' = None /\ selected' = {} /\ db' = db
        /\ harm' = G!Marked(waiting # None /\ harm = {}, "overtaken")
    BY <1>6 DEF G!Execute
  <2>2. waiting' = None
    BY <1>1, <1>3, <2>1 DEF G!Marked
  <2>3. ~Filled' => wire' = <<>>
    <3>1. CASE Len(wire) = 1
      BY <1>4, <3>1, EmptySeq
    <3>2. CASE Len(wire) # 1
      <4>1. 1 \in DOMAIN wire /\ 2 \in DOMAIN wire /\ 1 \in DOMAIN wire' /\ wire'[1] = wire[2]
        BY <1>4, <3>2
      <4>2. wire[1] = G!Load
        BY <1>4, <1>6, StatementIs
      <4> QED BY <1>1, <4>1, <4>2 DEF Harmless, LoadsLast, Filled, G!Load
    <3> QED BY <3>1, <3>2
  <2>4. ~Filled' => Replays(db', wire', shown')
    BY <1>2, <2>1, <2>3, ReplaysNone
  <2>5. fresh' = None /\ waiting' = None
    BY <2>1, <2>2
  <2> QED BY <1>5, <2>4, <2>5, Zenon DEF Harmless
<1>7. CASE s.what # "load"
  <2>1. /\ UNCHANGED <<shown, fresh, selected>>
        /\ \/ s.what = "insert" /\ G!Insert(s.row)
           \/ s.what = "update" /\ G!UpdateRow(s.row, s.old)
           \/ s.what = "delete" /\ G!DeleteRows(s.rows)
    BY <1>7 DEF G!Execute
  <2>2. Filled <=> Filled'
    <3>1. wire[1] # G!Load
      BY <1>4, <1>7 DEF G!Load
    <3>2. ASSUME Filled PROVE Filled'
      <4>1. PICK i \in DOMAIN wire : wire[i] = G!Load
        BY <3>2 DEF Filled
      <4>2. i # 1
        BY <3>1, <4>1
      <4>3. i - 1 \in DOMAIN wire' /\ wire'[i - 1] = wire[(i - 1) + 1] /\ (i - 1) + 1 = i
        BY <1>4, <4>2
      <4>4. wire'[i - 1] = G!Load
        BY <4>1, <4>3
      <4> QED BY <4>3, <4>4 DEF Filled, G!Load
    <3>3. ASSUME Filled' PROVE Filled
      <4>1. PICK i \in DOMAIN wire' : wire'[i] = G!Load
        BY <3>3 DEF Filled, G!Load
      <4>2. i + 1 \in DOMAIN wire /\ wire'[i] = wire[i + 1]
        BY <1>4
      <4> QED BY <4>1, <4>2 DEF Filled
    <3> QED BY <3>2, <3>3
  <2>3. ASSUME ~Filled' PROVE Replays(db', wire', shown')
    <3>1. Replays(db, wire, shown)
      BY <1>1, <2>2, <2>3 DEF Harmless
    <3>2. PICK f \in SUBSET G!Row : Follows(s, db, f) /\ Replays(f, wire', shown)
      BY <1>2, <1>3, <3>1, ReplaysLess
    <3>3. db' = f
      BY <1>2, <1>4, <2>1, <3>2, ExecutedAsMeant
    <3> QED BY <2>1, <3>2, <3>3
  <2> HIDE DEF s
  <2>4. /\ waiting # None => isSave /\ waiting = fresh
        /\ fresh # None /\ waiting = None => Filled
    BY <1>1 DEF Harmless
  <2>5. fresh' = fresh /\ waiting' = waiting /\ isSave' = isSave
    BY <1>3, <2>1
  <2>6. /\ waiting' # None => isSave' /\ waiting' = fresh'
        /\ fresh' # None /\ waiting' = None => Filled'
    BY <2>2, <2>4, <2>5
  <2> QED BY <1>5, <2>3, <2>6, Zenon DEF Harmless
<1> QED BY <1>6, <1>7

\* The user does something, or a page is asked for: statements sent lead on to
\* the rows then shown.
LEMMA GridActs ==
  ASSUME GridInv, G!Next, ~G!Execute, harm = {}, harm' = {}
  PROVE  Harmless'
<1>1. Harmless /\ db \subseteq G!Row /\ shown \subseteq G!Row /\ G!TypeOK
  BY DEF GridInv, G!TypeOK
<1>2. /\ waiting # None => isSave /\ waiting = fresh
      /\ fresh # None /\ waiting = None => Filled
      /\ LoadsLast
      /\ ~Filled => Replays(db, wire, shown)
  BY <1>1 DEF Harmless
<1>a. ASSUME wire' = wire PROVE (Filled <=> Filled') /\ (LoadsLast <=> LoadsLast')
  BY <1>a DEF Filled, LoadsLast, G!Load
<1>b. ASSUME wire' = wire, db' = db, shown' = shown,
             waiting' # None => isSave' /\ waiting' = fresh',
             fresh' # None /\ waiting' = None => Filled
      PROVE  Harmless'
  BY <1>2, <1>a, <1>b DEF Harmless
<1>c. \A b, h : ~b => G!Marked(b, h) = harm
  BY DEF G!Marked
<1>d. \A b, h : b => G!Marked(b, h) # {}
  BY DEF G!Marked
<1>e. G!Overtaken = {} => ~Filled
  BY DEF G!Overtaken, Filled
<1>3. ASSUME NEW r \in shown, G!Select(r) PROVE Harmless'
  BY <1>2, <1>b, <1>3 DEF G!Select
<1>4. ASSUME NEW refresh \in BOOLEAN, G!Page(refresh) PROVE Harmless'
  <2>1. waiting = None
    BY <1>d, <1>4 DEF G!Page
  <2>2. LoadsLast' /\ Filled' /\ UNCHANGED <<waiting, fresh>>
    BY <1>1, <1>2, <1>4, SentLoad DEF G!Page
  <2> QED BY <2>1, <2>2 DEF Harmless
<1>5. ASSUME NEW r \in G!Entered(key), G!Add(r) PROVE Harmless'
  <2>1. /\ wire' = wire /\ db' = db /\ shown' = shown
        /\ waiting' = fresh' /\ isSave'
    BY <1>5 DEF G!Add, G!Wait
  <2> QED BY <1>b, <2>1
<1>6. ASSUME NEW r \in shown, G!Paste(r) PROVE Harmless'
  <2>1. selected = {r}
    BY <1>6 DEF G!Paste
  <2>2. /\ wire' = wire /\ db' = db /\ shown' = shown
        /\ waiting' = fresh' /\ isSave'
    BY <1>6, <2>1 DEF G!Paste, G!Wait
  <2> QED BY <1>b, <2>2
<1>7. ASSUME NEW r \in shown, NEW double \in BOOLEAN, G!Change(r, double) PROVE Harmless'
  <2> DEFINE new == [r EXCEPT !.v = @ + 1]
             s == [what |-> "update", row |-> new, old |-> old']
  <2>1. /\ shown' = (shown \ {r}) \cup {new} /\ UNCHANGED <<db, fresh, isSave>>
        /\ r \in G!Row /\ r.v < MaxRow
    BY <1>1, <1>7 DEF G!Change
  <2>2. ~isSave
    BY <1>7 DEF G!Change
  <2>3. /\ G!Sent(s) /\ waiting' = waiting
        /\ harm' = G!Marked(old' = None \/ (old' # None /\ ~G!SameKey(old', r)), "keyed")
                     \cup G!Overtaken
    BY <1>7, <2>2 DEF G!Change
  <2>4. old' # None /\ G!SameKey(old', r) /\ ~Filled
    BY <1>d, <1>e, <2>3
  <2>5. new \in G!Row /\ new # r /\ new.a = r.a /\ new.b = r.b
    BY <2>1, BoundsAreNumbers DEF G!Row
  <2>6. old' \in G!Row \cup {None}
    BY <1>1, <1>7 DEF G!Change, G!TypeOK
  <2> HIDE DEF new
  <2>7. s \in G!Statement /\ s.what # "load"
    BY <2>5, <2>6 DEF G!Statement
  <2>8. Follows(s, shown, shown')
    BY <2>1, <2>4, <2>5 DEF Follows, G!SameKey
  <2>9. LoadsLast' /\ Replays(db', wire', shown')
    <3> HIDE DEF s
    <3>1. shown' \in SUBSET G!Row
      BY <1>1, <2>1, <2>5
    <3> QED BY <1>1, <1>2, <2>1, <2>3, <2>4, <2>7, <2>8, <3>1, SentChange
  <2>10. waiting' = None /\ fresh' = None
    BY <1>2, <2>1, <2>2, <2>3, <2>4
  <2> QED BY <2>9, <2>10 DEF Harmless
<1>8. CASE G!Save
  <2>1. /\ waiting' = None /\ fresh' = None /\ db' = db
        /\ shown' = IF fresh = None THEN shown ELSE shown \cup {fresh}
    BY <1>8 DEF G!Save
  <2>2. CASE waiting = None
    <3>1. wire' = wire /\ (Filled <=> Filled') /\ (LoadsLast <=> LoadsLast')
      BY <1>8, <1>a, <2>2 DEF G!Save
    <3>2. ~Filled => shown' = shown
      BY <1>2, <2>1, <2>2
    <3> QED BY <1>2, <2>1, <3>1, <3>2 DEF Harmless
  <2>3. CASE waiting # None
    <3> DEFINE s == [what |-> "insert", row |-> waiting]
    <3>1. G!Sent(s) /\ harm' = harm \cup G!Overtaken
      BY <1>8, <2>3 DEF G!Save
    <3>2. ~Filled
      BY <1>e, <3>1
    <3>3. waiting \in G!Row /\ shown' = shown \cup {waiting}
      BY <1>1, <1>2, <2>1, <2>3 DEF G!TypeOK
    <3>4. s \in G!Statement /\ s.what # "load" /\ Follows(s, shown, shown')
      BY <3>3 DEF G!Statement, Follows
    <3>5. shown' \in SUBSET G!Row
      BY <1>1, <3>3
    <3> HIDE DEF s
    <3>6. LoadsLast' /\ Replays(db', wire', shown')
      BY <1>1, <1>2, <2>1, <3>1, <3>2, <3>4, <3>5, SentChange
    <3> QED BY <2>1, <3>6 DEF Harmless
  <2> QED BY <2>2, <2>3
<1>9. CASE G!Discard
  <2>1. LoadsLast' /\ Filled' /\ waiting' = None
    BY <1>1, <1>2, <1>9, SentLoad DEF G!Discard, G!Discarded
  <2> QED BY <2>1 DEF Harmless
<1>10. CASE G!AskDelete
  BY <1>2, <1>b, <1>10 DEF G!AskDelete
<1>11. ASSUME NEW ok \in BOOLEAN, G!Answer(ok) PROVE Harmless'
  <2>1. CASE ~ok
    BY <1>2, <1>b, <1>11, <2>1 DEF G!Answer
  <2>2. CASE ok
    <3> DEFINE s == [what |-> "delete", rows |-> dialog.rows]
    <3>1. /\ G!Sent(s) /\ shown' = dialog.saw \ dialog.rows
          /\ harm' = G!Marked(dialog.saw # shown, "outdated") \cup G!Overtaken
          /\ UNCHANGED <<db, fresh, waiting, isSave>> /\ dialog # None
      BY <1>11, <2>2 DEF G!Answer
    <3>2. dialog.saw = shown /\ ~Filled
      BY <1>d, <1>e, <3>1
    <3>3. dialog.rows \subseteq shown /\ shown' = shown \ dialog.rows
      BY <3>1, <3>2 DEF GridInv
    <3>4. s \in G!Statement /\ s.what # "load" /\ Follows(s, shown, shown')
      BY <1>1, <3>3 DEF G!Statement, Follows
    <3>5. shown' \in SUBSET G!Row
      BY <1>1, <3>3
    <3> HIDE DEF s
    <3>6. LoadsLast' /\ Replays(db', wire', shown')
      BY <1>1, <1>2, <3>1, <3>2, <3>4, <3>5, SentChange
    <3>7. (waiting' # None => isSave' /\ waiting' = fresh') /\ (fresh' # None => waiting' # None)
      BY <1>2, <3>1, <3>2
    <3> QED BY <3>6, <3>7 DEF Harmless
  <2> QED BY <2>1, <2>2
<1> QED BY <1>3, <1>4, <1>5, <1>6, <1>7, <1>8, <1>9, <1>10, <1>11 DEF G!Next, G!Step

LEMMA GridInit == G!Init => GridInv
<1> SUFFICES ASSUME G!Init PROVE GridInv
  OBVIOUS
<1>1. G!TypeOK
  BY GridTypesInit
<1>2. /\ shown = db /\ fresh = None /\ selected = {} /\ waiting = None /\ dialog = None
      /\ wire = <<>> /\ lost = {}
      /\ IsFiniteSet(db) /\ KeysTell(db)
  BY CountsAlike DEF G!Init, KeysTell
<1>3. db \in SUBSET G!Row
  BY <1>1 DEF G!TypeOK
<1>4. Replays(db, wire, shown) /\ LoadsLast
  BY <1>2, <1>3, ReplaysNone DEF LoadsLast
<1> QED BY <1>1, <1>2, <1>4 DEF GridInv, Harmless, G!LostWereSelected, G!UnsavedIsOffered

\* Rows selected are rows shown, rows to be deleted were, and what waits can be
\* saved unless the page was turned.
LEMMA GridOffers ==
  ASSUME GridInv, [G!Next]_(G!vars)
  PROVE  /\ selected' \subseteq shown'
         /\ dialog' # None => dialog'.rows \subseteq dialog'.saw
         /\ G!UnsavedIsOffered'
<1>1. /\ selected \subseteq shown /\ (dialog # None => dialog.rows \subseteq dialog.saw)
      /\ waiting # None => isSave \/ "paged" \in harm
  BY DEF GridInv, G!UnsavedIsOffered
<1>2. harm \subseteq harm'
  BY GridHarmGrows
<1> USE DEF G!UnsavedIsOffered
<1>3. ASSUME NEW r \in shown, G!Select(r) PROVE selected' \subseteq shown' /\ dialog' = dialog /\ G!UnsavedIsOffered'
  BY <1>1, <1>3 DEF G!Select
<1>4. ASSUME NEW refresh \in BOOLEAN, G!Page(refresh) PROVE selected' \subseteq shown' /\ dialog' = dialog /\ G!UnsavedIsOffered'
  BY <1>1, <1>4 DEF G!Page, G!Marked
<1>5. ASSUME NEW r \in G!Entered(key), G!Add(r) PROVE selected' \subseteq shown' /\ dialog' = dialog /\ G!UnsavedIsOffered'
  BY <1>1, <1>5 DEF G!Add, G!Wait
<1>6. ASSUME NEW r \in shown, G!Paste(r) PROVE selected' \subseteq shown' /\ dialog' = dialog /\ G!UnsavedIsOffered'
  BY <1>1, <1>6 DEF G!Paste, G!Wait
<1>7. ASSUME NEW r \in shown, NEW double \in BOOLEAN, G!Change(r, double)
      PROVE  selected' \subseteq shown' /\ dialog' = dialog /\ G!UnsavedIsOffered'
  BY <1>1, <1>2, <1>7 DEF G!Change
<1>8. CASE G!Save
  BY <1>1, <1>8 DEF G!Save
<1>9. CASE G!Discard
  BY <1>1, <1>9 DEF G!Discard
<1>10. CASE G!AskDelete
  BY <1>1, <1>10 DEF G!AskDelete
<1>11. ASSUME NEW ok \in BOOLEAN, G!Answer(ok) PROVE selected' \subseteq shown' /\ dialog' = None /\ G!UnsavedIsOffered'
  BY <1>1, <1>2, <1>11 DEF G!Answer
<1>12. CASE G!Execute
  BY <1>1, <1>2, <1>12 DEF G!Execute
<1>13. CASE UNCHANGED G!vars
  BY <1>1, <1>13 DEF G!vars
<1> QED BY <1>1, <1>3, <1>4, <1>5, <1>6, <1>7, <1>8, <1>9, <1>10, <1>11, <1>12, <1>13
        DEF G!Next, G!Step

LEMMA GridStep == GridInv /\ [G!Next]_(G!vars) => GridInv'
<1> SUFFICES ASSUME GridInv, [G!Next]_(G!vars) PROVE GridInv'
  OBVIOUS
<1>1. G!TypeOK'
  BY GridTypesStep DEF GridInv
<1>2. KeysTell(db)' /\ IsFiniteSet(db)' /\ G!LostWereSelected'
  BY KeysStep
<1>3. /\ (selected \subseteq shown)' /\ G!UnsavedIsOffered'
      /\ (dialog # None => dialog.rows \subseteq dialog.saw)'
  BY GridOffers
<1>4. ASSUME harm' = {} PROVE Harmless'
  <2>1. harm = {}
    BY <1>4, GridHarmGrows
  <2>2. CASE G!Next /\ G!Execute
    BY <1>4, <2>1, <2>2, GridExecuted
  <2>3. CASE G!Next /\ ~G!Execute
    BY <1>4, <2>1, <2>3, GridActs
  <2>4. CASE UNCHANGED G!vars
    BY <2>1, <2>4 DEF G!vars, GridInv, Harmless, LoadsLast, Filled, G!Load
  <2> QED BY <2>2, <2>3, <2>4
<1> QED BY <1>1, <1>2, <1>3, <1>4, Zenon DEF GridInv

LEMMA GridHolds ==
  GridInv => G!TypeOK /\ G!GridIsStored /\ G!LostWereSelected /\ G!UnsavedIsOffered
<1> SUFFICES ASSUME GridInv, wire = <<>>, waiting = None, harm = {}
             PROVE  shown \cup ({fresh} \ {None}) = db
  BY DEF GridInv, G!GridIsStored
<1>1. Harmless /\ db \in SUBSET G!Row
  BY DEF GridInv, G!TypeOK
<1>2. ~Filled
  BY DEF Filled
<1>3. Replays(db, <<>>, shown) /\ fresh = None
  BY <1>1, <1>2 DEF Harmless
<1> QED BY <1>1, <1>3, ReplaysNone

LEMMA CodeHolds == CodeInv => C!TypeOK /\ C!PreviewIsText
  BY DEF CodeInv, C!PreviewIsText

-----------------------------------------------------------------------------
(***************************************************************************)
(* The panels of the designer.  First lists of rows: in each, a key is     *)
(* that of one row.                                                        *)
(***************************************************************************)
Rows == {s \in Seq(D!Row) : \A i, j \in DOMAIN s : s[i].key = s[j].key => i = j}

\* The rows of s are rows of t.
Within(s, t) ==
  D!KeysOf(s) \subseteq D!KeysOf(t) /\ \A k \in D!KeysOf(s) : D!RowOf(s, k) = D!RowOf(t, k)

LEMMA KeysAre == \A s : D!KeysOf(s) = {s[i].key : i \in DOMAIN s}
  BY DEF D!KeysOf, D!Range

LEMMA RowIs ==
  ASSUME NEW s \in Rows, NEW i \in DOMAIN s
  PROVE  /\ s[i] \in D!Row /\ s[i].key \in Keys /\ s[i].key \in D!KeysOf(s)
         /\ D!PlaceOf(s, s[i].key) = i /\ D!RowOf(s, s[i].key) = s[i]
<1>1. s \in Seq(D!Row) /\ \A j \in DOMAIN s : s[j].key = s[i].key => j = i
  BY DEF Rows
<1>2. s[i] \in D!Row /\ s[i].key \in Keys
  <2>1. s[i] \in D!Row
    BY <1>1
  <2> QED BY <2>1 DEF D!Row
<1>3. (CHOOSE j \in DOMAIN s : s[j].key = s[i].key) = i
  BY <1>1
<1> QED BY <1>2, <1>3, KeysAre DEF D!PlaceOf, D!RowOf

LEMMA KeyIs ==
  ASSUME NEW s \in Rows, NEW k \in D!KeysOf(s)
  PROVE  /\ D!PlaceOf(s, k) \in DOMAIN s /\ s[D!PlaceOf(s, k)].key = k /\ k \in Keys
         /\ D!RowOf(s, k) = s[D!PlaceOf(s, k)]
         /\ D!RowOf(s, k) \in D!Row /\ D!RowOf(s, k).key = k
<1>1. PICK i \in DOMAIN s : s[i].key = k
  BY KeysAre
<1> QED BY <1>1, RowIs

\* No rows, and the row that the database reports.
TheRow == [key |-> Reported, val |-> 0, attr |-> 0]

LEMMA NoRows == <<>> \in Rows /\ D!KeysOf(<<>>) = {}
  BY KeysAre DEF Rows

LEMMA TheRows ==
  /\ TheRow \in D!Row /\ <<TheRow>> \in Rows
  /\ D!KeysOf(<<TheRow>>) = {Reported} /\ D!RowOf(<<TheRow>>, Reported) = TheRow
<1>1. TheRow \in D!Row /\ TheRow.key = Reported
  BY KeysAreTimes, BoundsAreNumbers DEF TheRow, D!Row
<1> HIDE DEF TheRow
<1>2. <<TheRow>> \in Seq(D!Row) /\ DOMAIN <<TheRow>> = {1} /\ <<TheRow>>[1] = TheRow
  BY <1>1
<1> DEFINE s == <<TheRow>>
<1> HIDE DEF s
<1>3. s \in Rows
  BY <1>2 DEF Rows, s
<1>4. D!KeysOf(s) = {Reported} /\ D!RowOf(s, Reported) = TheRow
  <2>1. 1 \in DOMAIN s /\ s[1].key = Reported
    BY <1>1, <1>2 DEF s
  <2>2. D!RowOf(s, Reported) = s[1]
    BY <1>3, <2>1, RowIs
  <2>3. \A i \in DOMAIN s : i = 1
    BY <1>2 DEF s
  <2> QED BY <1>2, <2>1, <2>2, <2>3, KeysAre DEF s
<1> QED BY <1>1, <1>3, <1>4 DEF s

\* A row takes the place of that with its key.
LEMMA Replaced ==
  ASSUME NEW s \in Rows, NEW r \in D!Row
  PROVE  LET t == D!With(s, r) IN
         /\ t \in Rows /\ D!KeysOf(t) = D!KeysOf(s)
         /\ \A k \in D!KeysOf(s) : D!RowOf(t, k) = IF k = r.key THEN r ELSE D!RowOf(s, k)
<1> DEFINE t == D!With(s, r)
<1>1. /\ s \in Seq(D!Row) /\ DOMAIN s = 1..Len(s) /\ Len(s) \in Nat
      /\ \A i, j \in DOMAIN s : s[i].key = s[j].key => i = j
  BY DEF Rows
<1>2. /\ t = [i \in 1..Len(s) |-> IF s[i].key = r.key THEN r ELSE s[i]]
      /\ \A i \in DOMAIN s : s[i] \in D!Row
  BY <1>1 DEF D!With
<1> HIDE DEF t
<1>3. t \in Seq(D!Row) /\ DOMAIN t = DOMAIN s
  BY <1>1, <1>2
<1>4. \A i \in DOMAIN s : t[i] = (IF s[i].key = r.key THEN r ELSE s[i]) /\ t[i].key = s[i].key
  BY <1>1, <1>2
<1>5. t \in Rows
  BY <1>1, <1>3, <1>4 DEF Rows
<1>6. D!KeysOf(t) = D!KeysOf(s)
  BY <1>3, <1>4, KeysAre
<1>7. ASSUME NEW k \in D!KeysOf(s)
      PROVE  D!RowOf(t, k) = IF k = r.key THEN r ELSE D!RowOf(s, k)
  <2>1. PICK i \in DOMAIN s : s[i].key = k
    BY KeysAre
  <2> QED BY <1>3, <1>4, <1>5, <2>1, RowIs
<1> QED BY <1>5, <1>6, <1>7 DEF t

\* A row is put behind the others.
LEMMA Appended ==
  ASSUME NEW s \in Rows, NEW r \in D!Row, r.key \notin D!KeysOf(s)
  PROVE  LET t == Append(s, r) IN
         /\ t \in Rows /\ D!KeysOf(t) = D!KeysOf(s) \cup {r.key} /\ Within(s, t)
         /\ D!RowOf(t, r.key) = r
         /\ DOMAIN t = 1..(Len(s) + 1) /\ t[Len(s) + 1] = r
         /\ \A i \in 1..Len(s) : t[i] = s[i]
<1> DEFINE t == Append(s, r)
<1>1. s \in Seq(D!Row) /\ \A i, j \in DOMAIN s : s[i].key = s[j].key => i = j
  BY DEF Rows
<1>2. /\ t \in Seq(D!Row) /\ DOMAIN s = 1..Len(s) /\ DOMAIN t = 1..(Len(s) + 1)
      /\ t[Len(s) + 1] = r /\ Len(s) \in Nat /\ \A i \in 1..Len(s) : t[i] = s[i]
  BY <1>1
<1> HIDE DEF t
<1>3. \A i \in DOMAIN s : s[i].key # r.key
  BY KeysAre
<1>4. t \in Rows
  BY <1>1, <1>2, <1>3 DEF Rows
<1>5. D!KeysOf(t) = D!KeysOf(s) \cup {r.key}
  <2>1. ASSUME NEW x \in D!KeysOf(t) PROVE x \in D!KeysOf(s) \cup {r.key}
    BY <1>2, KeysAre
  <2>2. ASSUME NEW x \in D!KeysOf(s) \cup {r.key} PROVE x \in D!KeysOf(t)
    BY <1>2, KeysAre
  <2> QED BY <2>1, <2>2
<1>6. Within(s, t)
  <2>1. ASSUME NEW k \in D!KeysOf(s) PROVE D!RowOf(s, k) = D!RowOf(t, k)
    <3>1. PICK i \in DOMAIN s : s[i].key = k
      BY KeysAre
    <3> QED BY <1>2, <1>4, <3>1, RowIs
  <2> QED BY <1>5, <2>1 DEF Within
<1>7. D!RowOf(t, r.key) = r
  BY <1>2, <1>4, RowIs
<1> QED BY <1>2, <1>4, <1>5, <1>6, <1>7 DEF t

\* The row at a place is taken out.
LEMMA TakenOut ==
  ASSUME NEW s \in Rows, NEW p \in DOMAIN s
  PROVE  LET t == D!RemoveAt(s, p) IN
         /\ t \in Rows /\ D!KeysOf(t) = D!KeysOf(s) \ {s[p].key} /\ Within(t, s)
         /\ Len(t) = Len(s) - 1
         /\ \A j \in 1..(Len(s) - 1) : t[j] = IF j < p THEN s[j] ELSE s[j + 1]
<1> DEFINE a == SubSeq(s, 1, p - 1)
           b == SubSeq(s, p + 1, Len(s))
           t == D!RemoveAt(s, p)
<1>1. /\ s \in Seq(D!Row) /\ p \in 1..Len(s) /\ Len(s) \in Nat /\ DOMAIN s = 1..Len(s)
      /\ \A i, j \in DOMAIN s : s[i].key = s[j].key => i = j
  BY DEF Rows
<1>2. a \in Seq(D!Row) /\ Len(a) = p - 1 /\ \A j \in 1..(p - 1) : a[j] = s[j]
  BY <1>1
<1>3. b \in Seq(D!Row) /\ Len(b) = Len(s) - p /\ \A j \in 1..(Len(s) - p) : b[j] = s[p + j]
  <2>1. b \in Seq(D!Row)
    BY <1>1
  <2>2. Len(b) = Len(s) - p
    BY <1>1
  <2>3. \A j \in 1..(Len(s) - p) : b[j] = s[p + j]
    BY <1>1
  <2> QED BY <2>1, <2>2, <2>3
<1>4. t = a \o b
  BY DEF D!RemoveAt
<1> HIDE DEF a, b
<1> HIDE DEF t
<1>5. t \in Seq(D!Row) /\ Len(t) = Len(s) - 1 /\ DOMAIN t = 1..(Len(s) - 1)
  <2>1. t \in Seq(D!Row) /\ Len(t) = Len(a) + Len(b)
    BY <1>2, <1>3, <1>4, ConcatProperties
  <2> QED BY <2>1, <1>1, <1>2, <1>3
<1>6. ASSUME NEW j \in 1..(Len(s) - 1) PROVE t[j] = IF j < p THEN s[j] ELSE s[j + 1]
  <2>1. t[j] = IF j <= Len(a) THEN a[j] ELSE b[j - Len(a)]
    BY <1>1, <1>2, <1>3, <1>4, ConcatProperties
  <2>2. CASE j < p
    BY <2>1, <2>2, <1>1, <1>2
  <2>3. CASE ~(j < p)
    <3>1. j - (p - 1) \in 1..(Len(s) - p) /\ p + (j - (p - 1)) = j + 1
      BY <2>3, <1>1
    <3> QED BY <2>1, <2>3, <3>1, <1>1, <1>2, <1>3
  <2> QED BY <2>2, <2>3
<1>7. t \in Rows
  <2>1. ASSUME NEW i \in DOMAIN t, NEW j \in DOMAIN t, t[i].key = t[j].key PROVE i = j
    <3> DEFINE place(k) == IF k < p THEN k ELSE k + 1
    <3>1. i \in 1..(Len(s) - 1) /\ j \in 1..(Len(s) - 1)
      BY <1>5
    <3>2. place(i) \in DOMAIN s /\ place(j) \in DOMAIN s
      BY <3>1, <1>1
    <3>3. t[i] = s[place(i)] /\ t[j] = s[place(j)]
      BY <3>1, <1>6
    <3>4. place(i) = place(j)
      BY <1>1, <2>1, <3>2, <3>3
    <3> QED BY <1>1, <3>1, <3>4
  <2> QED BY <2>1, <1>5 DEF Rows
<1>8. ASSUME NEW x \in D!KeysOf(t)
      PROVE  x \in D!KeysOf(s) \ {s[p].key} /\ D!RowOf(t, x) = D!RowOf(s, x)
  <2>1. PICK j \in DOMAIN t : t[j].key = x /\ t[j] = D!RowOf(t, x)
    BY <1>7, KeyIs
  <2>2. PICK k \in DOMAIN s : k # p /\ s[k] = t[j]
    BY <1>1, <1>5, <1>6, <2>1
  <2> QED BY <1>1, <2>1, <2>2, RowIs
<1>9. ASSUME NEW x \in D!KeysOf(s) \ {s[p].key} PROVE x \in D!KeysOf(t)
  <2>1. PICK k \in DOMAIN s : s[k].key = x
    BY KeysAre
  <2>2. \E j \in DOMAIN t : t[j] = s[k]
    <3>1. CASE k < p
      BY <3>1, <1>1, <1>5, <1>6
    <3>2. CASE k > p
      <4>1. k - 1 \in 1..(Len(s) - 1) /\ t[k - 1] = s[k]
        BY <3>2, <1>1, <1>6
      <4> QED BY <4>1, <1>5
    <3> QED BY <1>1, <2>1, <3>1, <3>2
  <2> QED BY <2>1, <2>2, KeysAre
<1>10. D!KeysOf(t) = D!KeysOf(s) \ {s[p].key} /\ Within(t, s)
  BY <1>8, <1>9 DEF Within
<1> QED BY <1>5, <1>6, <1>7, <1>10 DEF t

LEMMA Removed ==
  ASSUME NEW s \in Rows, NEW k
  PROVE  LET t == D!Without(s, k) IN
         t \in Rows /\ D!KeysOf(t) = D!KeysOf(s) \ {k} /\ Within(t, s)
<1>1. CASE k \in D!KeysOf(s)
  <2>1. D!PlaceOf(s, k) \in DOMAIN s /\ s[D!PlaceOf(s, k)].key = k
    BY <1>1, KeyIs
  <2> QED BY <1>1, <2>1, TakenOut DEF D!Without
<1>2. CASE k \notin D!KeysOf(s)
  BY <1>2 DEF D!Without, Within
<1> QED BY <1>1, <1>2

\* Without the row put behind them, the rows are those of before.
LEMMA AppendedRemoved ==
  ASSUME NEW s \in Rows, NEW r \in D!Row, r.key \notin D!KeysOf(s)
  PROVE  D!Without(Append(s, r), r.key) = s
<1> DEFINE t == Append(s, r)
           u == D!RemoveAt(t, Len(s) + 1)
<1>1. /\ t \in Rows /\ r.key \in D!KeysOf(t) /\ DOMAIN t = 1..(Len(s) + 1)
      /\ t[Len(s) + 1] = r /\ \A i \in 1..Len(s) : t[i] = s[i]
  BY Appended
<1>2. s \in Seq(D!Row) /\ Len(s) \in Nat /\ Len(t) = Len(s) + 1
  BY DEF Rows
<1> HIDE DEF t
<1>3. Len(s) + 1 \in DOMAIN t
  BY <1>1, <1>2
<1>4. D!PlaceOf(t, r.key) = Len(s) + 1
  BY <1>1, <1>3, RowIs
<1>5. u \in Rows /\ Len(u) = Len(s) /\ \A i \in 1..Len(s) : u[i] = t[i]
  <2>1. /\ u \in Rows /\ Len(u) = Len(t) - 1
        /\ \A j \in 1..(Len(t) - 1) : u[j] = IF j < Len(s) + 1 THEN t[j] ELSE t[j + 1]
    BY <1>1, <1>3, TakenOut
  <2> QED BY <1>2, <2>1
<1> HIDE DEF u
<1>6. u \in Seq(D!Row)
  BY <1>5 DEF Rows
<1>7. u = s
  BY <1>1, <1>2, <1>5, <1>6, SeqEqual
<1> QED BY <1>1, <1>4, <1>7 DEF D!Without, t, u

\* The rows in the other order.
LEMMA Reversed ==
  ASSUME NEW s \in Rows
  PROVE  LET t == D!Reverse(s) IN
         t \in Rows /\ D!KeysOf(t) = D!KeysOf(s) /\ Within(s, t) /\ Within(t, s)
<1> DEFINE t == D!Reverse(s)
           to(i) == (Len(s) - i) + 1
<1>1. /\ s \in Seq(D!Row) /\ Len(s) \in Nat /\ DOMAIN s = 1..Len(s)
      /\ \A i, j \in DOMAIN s : s[i].key = s[j].key => i = j
      /\ \A i \in DOMAIN s : s[i] \in D!Row
  BY DEF Rows
<1>2. \A i \in DOMAIN s : to(i) \in DOMAIN s /\ to(to(i)) = i
  BY <1>1
<1>3. t = [i \in DOMAIN s |-> s[to(i)]]
  BY <1>1 DEF D!Reverse
<1> HIDE DEF t
<1>4. t \in Seq(D!Row) /\ DOMAIN t = DOMAIN s
  BY <1>1, <1>2, <1>3
<1>5. t \in Rows
  <2>1. ASSUME NEW i \in DOMAIN s, NEW j \in DOMAIN s, t[i].key = t[j].key PROVE i = j
    <3>1. to(i) = to(j)
      BY <1>1, <1>2, <1>3, <2>1
    <3> QED BY <1>2, <3>1
  <2> QED BY <1>4, <2>1 DEF Rows
<1>6. ASSUME NEW k \in D!KeysOf(s) PROVE k \in D!KeysOf(t) /\ D!RowOf(t, k) = D!RowOf(s, k)
  <2>1. PICK i \in DOMAIN s : s[i].key = k
    BY KeysAre
  <2>2. to(i) \in DOMAIN t /\ t[to(i)] = s[i]
    BY <1>2, <1>3, <1>4
  <2> QED BY <1>5, <2>1, <2>2, RowIs
<1>7. ASSUME NEW k \in D!KeysOf(t) PROVE k \in D!KeysOf(s)
  <2>1. PICK i \in DOMAIN t : t[i].key = k
    BY KeysAre
  <2>2. to(i) \in DOMAIN s /\ s[to(i)].key = k
    BY <1>2, <1>3, <1>4, <2>1
  <2> QED BY <2>2, KeysAre
<1> QED BY <1>5, <1>6, <1>7 DEF Within, t

-----------------------------------------------------------------------------
(***************************************************************************)
(* ListsInv: the rows of the designer are rows of the panel, and every key *)
(* in use was given.  PickedInv: the script edited is that of the row      *)
(* selected, if it is shown.  ShownInv and MeantInv are SentIsShown and    *)
(* EditsAreKept as a step needs them: they say which row is being added,   *)
(* and that the rows of the panel hold what the user entered.              *)
(***************************************************************************)
ListsInv ==
  /\ parent \in Rows /\ local \in Rows /\ Within(parent, local)
  /\ D!KeysOf(local) \subseteq used /\ Reported \in used
  /\ {editing, selected} \subseteq used \cup {None} /\ DOMAIN intent \subseteq used
  /\ base \in {None, <<TheRow>>}
  /\ base = None => Reported \notin D!KeysOf(local) /\ selected # Reported

PickedInv ==
  /\ panel.extra = "script" =>
       picked \in {selected, None} /\ (selected \in D!KeysOf(local) => picked = selected)
  /\ \A k \in DOMAIN intent : intent[k].attr = 0 => intent[k].before = 0

ShownInv ==
  harm \cap {"dragged", "abandoned"} = {} =>
    \/ parent = local
    \/ editing \in D!KeysOf(local) /\ parent = D!Without(local, editing)

\* Row r of panel p is as the user wishes, a script as it was one change ago.
IsMeant(p, r, w) ==
  r.val = w.val /\ r.attr = IF p.extra = "script" THEN w.before ELSE w.attr

MeantInv ==
  harm \cap {"refreshed", "strayed", "reselected"} = {} =>
    /\ DOMAIN intent \subseteq D!KeysOf(parent)
    /\ \A k \in D!KeysOf(local) : IsMeant(panel, D!RowOf(local, k), D!WishOf(k))
    /\ \A k \in D!KeysOf(local) :
         panel.extra = "script" /\ picked = k => text = D!WishOf(k).attr

DesignerInv ==
  /\ D!TypeOK /\ ListsInv /\ PickedInv /\ ShownInv /\ MeantInv
  /\ D!NotLocked /\ D!OptionsLagByOne

LEMMA DesignerInit == D!Init => DesignerInv
<1> SUFFICES ASSUME D!Init PROVE DesignerInv
  OBVIOUS
<1>1. /\ panel \in D!Panels
      /\ base = None /\ parent = <<>> /\ synced = FALSE /\ local = <<>>
      /\ editing = None /\ draft = 0 /\ selected = None /\ picked = None /\ text = 0
      /\ opts = [o \in Options |-> 0] /\ optsShown = opts
      /\ used = {Reported} /\ edits = 0 /\ intent = <<>> /\ lastOpt = None /\ harm = {}
  BY DEF D!Init
<1>2. DOMAIN intent = {}
  BY <1>1
<1>3. parent \in Rows /\ local \in Rows /\ D!KeysOf(parent) = {} /\ D!KeysOf(local) = {}
  BY <1>1, NoRows
<1>4. D!TypeOK
  <2>1. parent \in Seq(D!Row) /\ local \in Seq(D!Row)
    BY <1>1
  <2>2. {opts, optsShown} \subseteq [Options -> 0..MaxEdit]
    BY <1>1, BoundsAreNumbers
  <2>3. {draft, text, edits} \subseteq 0..MaxEdit
    BY <1>1, BoundsAreNumbers
  <2> QED BY <1>1, <1>2, <2>1, <2>2, <2>3, KeysAreTimes DEF D!TypeOK
<1>5. ListsInv
  BY <1>1, <1>2, <1>3, KeysAreTimes DEF ListsInv, Within
<1>6. PickedInv /\ ShownInv /\ D!NotLocked /\ D!OptionsLagByOne
  BY <1>1, <1>2, <1>3 DEF PickedInv, ShownInv, D!NotLocked, D!OptionsLagByOne
<1>7. MeantInv
  BY <1>1, <1>2, <1>3 DEF MeantInv
<1> QED BY <1>4, <1>5, <1>6, <1>7 DEF DesignerInv

LEMMA PanelIs ==
  ASSUME D!TypeOK
  PROVE  /\ panel.follows <=> panel.extra = "script"
         /\ panel.extra = "script" => panel.clears
         /\ panel.follows \in BOOLEAN
<1>1. panel \in D!Panels
  BY DEF D!TypeOK
<1>2. CASE panel = D!TriggerPanel
  <2>1. panel.follows = TRUE /\ panel.clears = TRUE /\ panel.extra = "script"
    BY <1>2 DEF D!TriggerPanel
  <2> QED BY <2>1
<1>3. CASE panel # D!TriggerPanel
  <2>1. panel.follows = FALSE /\ panel.extra # "script"
    BY <1>1, <1>3 DEF D!Panels, D!FieldPanel, D!IndexPanel, D!ForeignKeyPanel, D!OptionPanel
  <2> QED BY <2>1
<1> QED BY <1>2, <1>3

LEMMA WishIs ==
  ASSUME D!TypeOK, NEW k
  PROVE  D!WishOf(k) \in D!Wish /\ D!NoWish \in D!Wish
<1>1. D!NoWish \in D!Wish
  BY BoundsAreNumbers DEF D!NoWish, D!Wish
<1> QED BY <1>1 DEF D!WishOf, D!TypeOK

\* The user wishes something else for a row.
LEMMA Wished ==
  ASSUME NEW k, NEW w, intent' = D!Wanted(k, w)
  PROVE  /\ DOMAIN intent' = DOMAIN intent \cup {k}
         /\ \A x \in DOMAIN intent' : intent'[x] = IF x = k THEN w ELSE intent[x]
         /\ \A x : D!WishOf(x)' = IF x = k THEN w ELSE D!WishOf(x)
  BY DEF D!Wanted, D!WishOf

\* updateData with rows that have no new key.
LEMMA Updated ==
  ASSUME D!TypeOK, ListsInv, NEW rows \in Rows, D!KeysOf(rows) \subseteq D!KeysOf(local),
         D!Update(rows)
  PROVE  /\ parent' = rows /\ local' = rows /\ synced' = FALSE
         /\ parent' \in Seq(D!Row) /\ local' \in Seq(D!Row)
         /\ Within(parent', local') /\ D!KeysOf(local') \subseteq used
         /\ picked' \in Keys \cup {None}
         /\ panel.extra = "script" =>
              picked' = IF selected \in D!KeysOf(rows) THEN selected ELSE None
         /\ panel.extra # "script" => picked' = picked
<1>1. parent' = rows /\ local' = rows /\ synced' = FALSE /\ picked' = D!PickedIn(rows)
  BY DEF D!Update
<1>2. rows \in Seq(D!Row)
  BY DEF Rows
<1>3. Within(parent', local') /\ D!KeysOf(local') \subseteq used
  BY <1>1 DEF Within, ListsInv
<1>4. selected \in Keys \cup {None} /\ picked \in Keys \cup {None}
  BY DEF D!TypeOK
<1> QED BY <1>1, <1>2, <1>3, <1>4, PanelIs DEF D!PickedIn

\* The structure is taken (again).
LEMMA ResetIs ==
  ASSUME D!TypeOK, ListsInv, D!Reset(<<TheRow>>)
  PROVE  /\ parent' = <<TheRow>> /\ local' = <<TheRow>> /\ synced' = TRUE
         /\ parent' \in Seq(D!Row) /\ local' \in Seq(D!Row)
         /\ parent' \in Rows /\ local' \in Rows
         /\ D!KeysOf(local') = {Reported} /\ D!RowOf(local', Reported) = TheRow
         /\ picked' \in Keys \cup {None}
         /\ panel.extra = "script" =>
              picked' = IF selected = Reported THEN selected ELSE None
         /\ DOMAIN intent' = {Reported} /\ intent'[Reported] = D!NoWish
         /\ \A k : D!WishOf(k)' = D!NoWish
         /\ harm \subseteq harm' /\ harm' \subseteq D!Harms
         /\ \/ "refreshed" \in harm'
            \/ /\ {local, parent} = {IF base = None THEN <<>> ELSE <<TheRow>>}
               /\ \A k \in DOMAIN intent : intent[k] = D!NoWish
<1>1. /\ parent' = <<TheRow>> /\ local' = <<TheRow>> /\ synced' = TRUE
      /\ picked' = D!PickedIn(<<TheRow>>) /\ intent' = D!Wishes(<<TheRow>>)
  BY DEF D!Reset
<1>2. /\ <<TheRow>> \in Rows /\ <<TheRow>> \in Seq(D!Row)
      /\ D!KeysOf(<<TheRow>>) = {Reported} /\ D!RowOf(<<TheRow>>, Reported) = TheRow
  BY TheRows
<1>3. intent' = [k \in {Reported} |-> D!NoWish]
  BY <1>1, <1>2 DEF D!Wishes
<1>4. \A k : D!WishOf(k)' = D!NoWish
  BY <1>3 DEF D!WishOf, D!NoWish
<1>5. picked' = IF panel.follows THEN IF selected = Reported THEN selected ELSE None ELSE picked
  BY <1>1, <1>2 DEF D!PickedIn
<1>6. selected \in Keys \cup {None} /\ picked \in Keys \cup {None} /\ harm \subseteq D!Harms
  BY DEF D!TypeOK
<1>7. /\ harm \subseteq harm' /\ harm' \subseteq D!Harms
      /\ \/ "refreshed" \in harm'
         \/ /\ {local, parent} = {IF base = None THEN <<>> ELSE <<TheRow>>}
            /\ \A k \in DOMAIN intent : intent[k] = D!NoWish
  BY <1>6 DEF D!Reset, D!Harms
<1> QED BY <1>1, <1>2, <1>3, <1>4, <1>5, <1>6, <1>7, PanelIs

LEMMA RereadIs ==
  ASSUME D!TypeOK, ListsInv, NEW k, k = None \/ k \in D!KeysOf(local), D!Reread(k)
  PROVE  /\ text' \in 0..MaxEdit /\ harm \subseteq harm' /\ harm' \subseteq D!Harms
         /\ harm' = harm \/ "reselected" \in harm'
<1>1. harm \subseteq D!Harms /\ "reselected" \in D!Harms
  BY DEF D!TypeOK, D!Harms
<1>2. harm \subseteq harm' /\ harm' \subseteq D!Harms /\ (harm' = harm \/ "reselected" \in harm')
  BY <1>1 DEF D!Reread
<1>3. k # None => D!RowOf(local, k) \in D!Row
  BY KeyIs DEF ListsInv
<1>4. text' \in 0..MaxEdit
  BY <1>3, BoundsAreNumbers DEF D!Reread, D!Row
<1> QED BY <1>2, <1>4

\* The row that save writes, and those that attributes and scripts write.
LEMMA WrittenIs ==
  ASSUME D!TypeOK, ListsInv, NEW k \in D!KeysOf(local), NEW n \in 0..MaxEdit
  PROVE  /\ [D!RowOf(local, k) EXCEPT !.val = n] \in D!Row
         /\ [D!RowOf(local, k) EXCEPT !.attr = n] \in D!Row
         /\ [D!RowOf(local, k) EXCEPT !.val = n].key = k
         /\ [D!RowOf(local, k) EXCEPT !.attr = n].key = k
         /\ k \in Keys /\ k \in used
<1>1. D!RowOf(local, k) \in D!Row /\ D!RowOf(local, k).key = k /\ k \in Keys /\ k \in used
  BY KeyIs DEF ListsInv
<1> QED BY <1>1 DEF D!Row

LEMMA DesignerTypes == D!TypeOK /\ ListsInv /\ [D!Next]_(D!vars) => D!TypeOK'
<1> SUFFICES ASSUME D!TypeOK, ListsInv, [D!Next]_(D!vars) PROVE D!TypeOK'
  OBVIOUS
<1>a. /\ panel \in D!Panels /\ base \in {None} \cup Seq(D!Row) /\ synced \in BOOLEAN
      /\ editing \in Keys \cup {None} /\ selected \in Keys \cup {None}
      /\ picked \in Keys \cup {None}
      /\ lastOpt \in Options \cup {None} /\ harm \subseteq D!Harms
  BY DEF D!TypeOK
<1>b. parent \in Seq(D!Row) /\ local \in Seq(D!Row)
  BY DEF D!TypeOK
<1>c. draft \in 0..MaxEdit /\ text \in 0..MaxEdit /\ edits \in 0..MaxEdit
  BY DEF D!TypeOK
<1>d. opts \in [Options -> 0..MaxEdit] /\ optsShown \in [Options -> 0..MaxEdit]
  BY DEF D!TypeOK
<1>e. /\ used \subseteq Keys /\ DOMAIN intent \subseteq Keys
      /\ \A x \in DOMAIN intent : intent[x] \in D!Wish
  BY DEF D!TypeOK
<1>f. edits < MaxEdit => edits + 1 \in 0..MaxEdit
  BY <1>c, BoundsAreNumbers
<1>w. ASSUME NEW k \in Keys, NEW w \in D!Wish, intent' = D!Wanted(k, w)
      PROVE  DOMAIN intent' \subseteq Keys /\ \A x \in DOMAIN intent' : intent'[x] \in D!Wish
  <2>1. /\ DOMAIN intent' = DOMAIN intent \cup {k}
        /\ \A x \in DOMAIN intent' : intent'[x] = IF x = k THEN w ELSE intent[x]
    BY <1>w, Wished
  <2>2. ASSUME NEW x \in DOMAIN intent' PROVE intent'[x] \in D!Wish
    BY <1>e, <2>1
  <2> QED BY <1>e, <2>1, <2>2
<1>n. ASSUME NEW k, NEW n \in 0..MaxEdit
      PROVE  /\ [D!WishOf(k) EXCEPT !.val = n] \in D!Wish
             /\ [D!WishOf(k) EXCEPT !.attr = n, !.before = D!WishOf(k).attr] \in D!Wish
  BY <1>n, WishIs DEF D!Wish
<1>1. CASE D!Structure(<<TheRow>>) \/ D!Refresh
  <2>1. D!Reset(<<TheRow>>) /\ base' \in {<<TheRow>>}
    BY <1>1 DEF D!Structure, D!Refresh, ListsInv
  <2>2. /\ UNCHANGED <<panel, used, editing, draft, selected, text, edits>>
        /\ UNCHANGED <<opts, optsShown, lastOpt>>
    BY <1>1 DEF D!Structure, D!Refresh, D!optVars
  <2>3. base' \in Seq(D!Row)
    BY <2>1, ResetIs
  <2>4. /\ parent' \in Seq(D!Row) /\ local' \in Seq(D!Row) /\ synced' \in BOOLEAN
        /\ picked' \in Keys \cup {None} /\ harm' \subseteq D!Harms
    BY <2>1, ResetIs
  <2>5. DOMAIN intent' \subseteq Keys /\ \A k \in DOMAIN intent' : intent'[k] \in D!Wish
    BY <2>1, ResetIs, WishIs, KeysAreTimes
  <2> QED BY <1>a, <1>c, <1>d, <1>e, <2>2, <2>3, <2>4, <2>5 DEF D!TypeOK
<1>2. ASSUME NEW k \in Keys, D!Add(k) PROVE D!TypeOK'
  <2> DEFINE r == [key |-> k, val |-> 0, attr |-> 0]
  <2>1. /\ used' = used \cup {k} /\ local' = Append(local, r) /\ editing' = k /\ draft' = 0
        /\ selected' \in {selected, k} /\ picked' \in {picked, k} /\ text' \in {text, 0}
        /\ UNCHANGED <<panel, base, parent, synced, intent, edits, harm>>
        /\ UNCHANGED <<opts, optsShown, lastOpt>>
    BY <1>2 DEF D!Add, D!optVars
  <2>2. r \in D!Row /\ 0 \in 0..MaxEdit
    BY BoundsAreNumbers DEF D!Row
  <2>3. local' \in Seq(D!Row)
    BY <1>b, <2>1, <2>2
  <2> HIDE DEF r
  <2> QED BY <1>a, <1>b, <1>c, <1>d, <1>e, <2>1, <2>2, <2>3 DEF D!TypeOK
<1>3. ASSUME NEW k \in Keys, D!Edit(k) PROVE D!TypeOK'
  <2>1. /\ editing' = k /\ draft' = D!RowOf(local, k).val /\ k \in D!KeysOf(local)
        /\ UNCHANGED <<panel, base, used, parent, synced, local, selected, picked, text,
                       intent, edits, harm>>
        /\ UNCHANGED <<opts, optsShown, lastOpt>>
    BY <1>3 DEF D!Edit, D!optVars
  <2>2. draft' \in 0..MaxEdit
    <3>1. D!RowOf(local, k) \in D!Row
      BY <2>1, KeyIs DEF ListsInv
    <3> QED BY <2>1, <3>1 DEF D!Row
  <2> QED BY <1>a, <1>b, <1>c, <1>d, <1>e, <2>1, <2>2 DEF D!TypeOK
<1>4. CASE D!Type
  <2>1. /\ edits < MaxEdit /\ edits' = edits + 1 /\ draft' = edits'
        /\ UNCHANGED <<panel, base, used, parent, synced, local, editing, selected, picked, text,
                       intent, harm>>
        /\ UNCHANGED <<opts, optsShown, lastOpt>>
    BY <1>4 DEF D!Type, D!optVars
  <2> QED BY <1>a, <1>b, <1>c, <1>d, <1>e, <1>f, <2>1 DEF D!TypeOK
<1>5. CASE D!Save
  <2>1. /\ editing \in D!KeysOf(local) /\ D!Update(D!With(local, D!Saved(editing)))
        /\ editing' = None
        /\ intent' = D!Wanted(editing, [D!WishOf(editing) EXCEPT !.val = draft])
        /\ UNCHANGED <<panel, base, used, draft, selected, text, edits, harm>>
        /\ UNCHANGED <<opts, optsShown, lastOpt>>
    BY <1>5 DEF D!Save, D!optVars
  <2>2. D!Saved(editing) \in D!Row /\ editing \in Keys
    BY <1>c, <2>1, WrittenIs DEF D!Saved
  <2>3. /\ parent' \in Seq(D!Row) /\ local' \in Seq(D!Row) /\ synced' \in BOOLEAN
        /\ picked' \in Keys \cup {None}
    BY <2>1, <2>2, Replaced, Updated DEF ListsInv
  <2>4. DOMAIN intent' \subseteq Keys /\ \A x \in DOMAIN intent' : intent'[x] \in D!Wish
    BY <1>c, <1>n, <1>w, <2>1, <2>2
  <2> QED BY <1>a, <1>c, <1>d, <1>e, <2>1, <2>3, <2>4 DEF D!TypeOK
<1>6. CASE D!Cancel
  <2>1. /\ editing' = None /\ harm' \subseteq harm \cup {"abandoned"}
        /\ UNCHANGED <<panel, base, used, parent, synced, local, draft, selected, picked, text,
                       intent, edits>>
        /\ UNCHANGED <<opts, optsShown, lastOpt>>
    BY <1>6 DEF D!Cancel, D!optVars
  <2>2. "abandoned" \in D!Harms
    BY DEF D!Harms
  <2> QED BY <1>a, <1>b, <1>c, <1>d, <1>e, <2>1, <2>2 DEF D!TypeOK
<1>7. ASSUME NEW k \in Keys, D!Delete(k) PROVE D!TypeOK'
  <2>1. /\ D!Update(D!Without(local, k)) /\ harm' \subseteq harm \cup {"locked"}
        /\ intent' = [x \in DOMAIN intent \ {k} |-> intent[x]]
        /\ UNCHANGED <<panel, base, used, editing, draft, selected, text, edits>>
        /\ UNCHANGED <<opts, optsShown, lastOpt>>
    BY <1>7 DEF D!Delete, D!optVars
  <2>2. "locked" \in D!Harms
    BY DEF D!Harms
  <2>3. /\ parent' \in Seq(D!Row) /\ local' \in Seq(D!Row) /\ synced' \in BOOLEAN
        /\ picked' \in Keys \cup {None}
    BY <2>1, Removed, Updated DEF ListsInv
  <2>4. DOMAIN intent' \subseteq Keys /\ \A x \in DOMAIN intent' : intent'[x] \in D!Wish
    BY <1>e, <2>1
  <2> QED BY <1>a, <1>c, <1>d, <1>e, <2>1, <2>2, <2>3, <2>4 DEF D!TypeOK
<1>8. CASE D!Drag
  <2>1. /\ local' = D!Reverse(local) /\ harm' = harm \cup {"dragged"}
        /\ UNCHANGED <<panel, base, used, parent, synced, editing, draft, selected, picked, text,
                       intent, edits>>
        /\ UNCHANGED <<opts, optsShown, lastOpt>>
    BY <1>8 DEF D!Drag, D!optVars
  <2>2. local' \in Seq(D!Row)
    BY <2>1, Reversed DEF ListsInv, Rows
  <2>3. "dragged" \in D!Harms
    BY DEF D!Harms
  <2> QED BY <1>a, <1>b, <1>c, <1>d, <1>e, <2>1, <2>2, <2>3 DEF D!TypeOK
<1>9. ASSUME NEW k \in Keys, D!Click(k) \/ D!Tick(k) PROVE D!TypeOK'
  <2>1. /\ k \in D!KeysOf(local) /\ selected' \in {None, k} /\ D!Reread(selected')
        /\ picked' \in {picked, selected', None, k}
        /\ UNCHANGED <<panel, base, used, parent, synced, local, editing, draft, intent, edits>>
        /\ UNCHANGED <<opts, optsShown, lastOpt>>
    BY <1>9 DEF D!Click, D!Tick, D!optVars
  <2>2. text' \in 0..MaxEdit /\ harm' \subseteq D!Harms
    BY <2>1, RereadIs
  <2> QED BY <1>a, <1>b, <1>c, <1>d, <1>e, <2>1, <2>2 DEF D!TypeOK
<1>10. CASE D!Attribute
  <2>1. /\ selected \in D!KeysOf(local) /\ edits < MaxEdit /\ edits' = edits + 1
        /\ IF picked \in D!KeysOf(local)
           THEN D!Update(D!With(local, [D!RowOf(local, picked) EXCEPT !.attr = edits']))
           ELSE UNCHANGED <<parent, synced, local, picked>>
        /\ intent' = D!Noted(selected, edits') /\ harm' \subseteq harm \cup {"strayed"}
        /\ UNCHANGED <<panel, base, used, editing, draft, selected, text>>
        /\ UNCHANGED <<opts, optsShown, lastOpt>>
    BY <1>10 DEF D!Attribute, D!optVars
  <2>2. edits' \in 0..MaxEdit
    BY <1>f, <2>1
  <2>3. /\ parent' \in Seq(D!Row) /\ local' \in Seq(D!Row) /\ synced' \in BOOLEAN
        /\ picked' \in Keys \cup {None}
    <3>1. CASE picked \in D!KeysOf(local)
      <4>1. [D!RowOf(local, picked) EXCEPT !.attr = edits'] \in D!Row
        BY <2>2, <3>1, WrittenIs
      <4> QED BY <2>1, <3>1, <4>1, Replaced, Updated DEF ListsInv
    <3>2. CASE picked \notin D!KeysOf(local)
      BY <1>a, <1>b, <2>1, <3>2
    <3> QED BY <3>1, <3>2
  <2>4. DOMAIN intent' \subseteq Keys /\ \A x \in DOMAIN intent' : intent'[x] \in D!Wish
    <3>1. selected \in Keys
      BY <2>1, KeyIs DEF ListsInv
    <3> QED BY <1>n, <1>w, <2>1, <2>2, <3>1 DEF D!Noted
  <2>5. "strayed" \in D!Harms
    BY DEF D!Harms
  <2> QED BY <1>a, <1>c, <1>d, <1>e, <2>1, <2>2, <2>3, <2>4, <2>5 DEF D!TypeOK
<1>11. CASE D!Script
  <2>1. /\ picked \in D!KeysOf(local) /\ edits < MaxEdit /\ edits' = edits + 1 /\ text' = edits'
        /\ D!Update(D!With(local, [D!RowOf(local, picked) EXCEPT !.attr = text]))
        /\ intent' = D!Noted(picked, edits')
        /\ UNCHANGED <<panel, base, used, editing, draft, selected, harm>>
        /\ UNCHANGED <<opts, optsShown, lastOpt>>
    BY <1>11 DEF D!Script, D!optVars
  <2>2. edits' \in 0..MaxEdit
    BY <1>f, <2>1
  <2>3. /\ parent' \in Seq(D!Row) /\ local' \in Seq(D!Row) /\ synced' \in BOOLEAN
        /\ picked' \in Keys \cup {None}
    <3>1. [D!RowOf(local, picked) EXCEPT !.attr = text] \in D!Row
      BY <1>c, <2>1, WrittenIs
    <3> QED BY <2>1, <3>1, Replaced, Updated DEF ListsInv
  <2>4. DOMAIN intent' \subseteq Keys /\ \A x \in DOMAIN intent' : intent'[x] \in D!Wish
    <3>1. picked \in Keys
      BY <2>1, KeyIs DEF ListsInv
    <3> QED BY <1>n, <1>w, <2>1, <2>2, <3>1 DEF D!Noted
  <2> QED BY <1>a, <1>c, <1>d, <1>e, <2>1, <2>2, <2>3, <2>4 DEF D!TypeOK
<1>12. ASSUME NEW o \in Options, D!Choose(o) PROVE D!TypeOK'
  <2>1. /\ edits < MaxEdit /\ edits' = edits + 1 /\ lastOpt' = o /\ opts' = optsShown
        /\ optsShown' \in {[optsShown EXCEPT ![o] = edits'], optsShown}
        /\ UNCHANGED <<panel, base, harm>>
        /\ UNCHANGED <<parent, synced, local, editing, draft, selected, picked, text, used, intent>>
    BY <1>12 DEF D!Choose, D!rowVars, D!Handed
  <2>2. optsShown' \in [Options -> 0..MaxEdit]
    BY <1>d, <1>f, <2>1
  <2> QED BY <1>a, <1>b, <1>c, <1>d, <1>e, <1>f, <2>1, <2>2 DEF D!TypeOK
<1>13. CASE UNCHANGED D!vars
  BY <1>13 DEF D!vars, D!rowVars, D!optVars, D!TypeOK
<1> QED BY <1>1, <1>2, <1>3, <1>4, <1>5, <1>6, <1>7, <1>8, <1>9, <1>10, <1>11, <1>12, <1>13
        DEF D!Next, D!Step, TheRow

\* One key more is given only to a row that is added.
LEMMA ListsStep == D!TypeOK /\ ListsInv /\ [D!Next]_(D!vars) => ListsInv'
<1> SUFFICES ASSUME D!TypeOK, ListsInv, [D!Next]_(D!vars) PROVE ListsInv'
  OBVIOUS
<1>a. /\ parent \in Rows /\ local \in Rows /\ Within(parent, local)
      /\ D!KeysOf(local) \subseteq used /\ Reported \in used
      /\ editing \in used \cup {None} /\ selected \in used \cup {None}
      /\ DOMAIN intent \subseteq used /\ base \in {None, <<TheRow>>}
      /\ base = None => Reported \notin D!KeysOf(local) /\ selected # Reported
  BY DEF ListsInv
<1>b. None \notin Keys
  BY KeysAreTimes
<1>1. CASE D!Structure(<<TheRow>>) \/ D!Refresh
  <2>1. D!Reset(<<TheRow>>) /\ base' = <<TheRow>> /\ UNCHANGED <<used, editing, selected>>
    BY <1>1 DEF D!Structure, D!Refresh, ListsInv
  <2>2. base' # None
    BY <2>1, KeysAreTimes DEF TheRow
  <2>3. /\ parent' \in Rows /\ local' \in Rows /\ parent' = local'
        /\ D!KeysOf(local') = {Reported} /\ DOMAIN intent' = {Reported}
    BY <2>1, ResetIs
  <2> QED BY <1>a, <2>1, <2>2, <2>3 DEF ListsInv, Within
<1>2. ASSUME NEW k \in Keys, D!Add(k) PROVE ListsInv'
  <2> DEFINE r == [key |-> k, val |-> 0, attr |-> 0]
  <2>1. /\ used' = used \cup {k} /\ k \notin used /\ local' = Append(local, r) /\ editing' = k
        /\ selected' \in {selected, k}
        /\ UNCHANGED <<base, parent, intent>>
    BY <1>2 DEF D!Add
  <2>2. r \in D!Row /\ r.key = k /\ r.key \notin D!KeysOf(local)
    BY <1>a, <2>1, BoundsAreNumbers DEF D!Row
  <2> HIDE DEF r
  <2>3. /\ local' \in Rows /\ D!KeysOf(local') = D!KeysOf(local) \cup {k}
        /\ Within(local, local')
    BY <1>a, <2>1, <2>2, Appended
  <2>4. Within(parent, local')
    BY <1>a, <2>3 DEF Within
  <2> QED BY <1>a, <2>1, <2>3, <2>4 DEF ListsInv
<1>3. ASSUME NEW k \in Keys, D!Edit(k) PROVE ListsInv'
  <2>1. /\ k \in D!KeysOf(local) /\ editing' = k
        /\ UNCHANGED <<base, used, parent, local, selected, intent>>
    BY <1>3 DEF D!Edit
  <2> QED BY <1>a, <2>1 DEF ListsInv
<1>4. CASE D!Type
  BY <1>a, <1>4 DEF D!Type, ListsInv
<1>5. ASSUME NEW rows \in Rows, D!KeysOf(rows) \subseteq D!KeysOf(local), D!Update(rows),
             UNCHANGED <<base, used, selected>>, editing' \in {editing, None},
             DOMAIN intent' \subseteq used
      PROVE  ListsInv'
  BY <1>a, <1>5, Updated DEF ListsInv
<1>6. CASE D!Save
  <2>1. /\ editing \in D!KeysOf(local) /\ D!Update(D!With(local, D!Saved(editing)))
        /\ editing' = None
        /\ intent' = D!Wanted(editing, [D!WishOf(editing) EXCEPT !.val = draft])
        /\ UNCHANGED <<base, used, selected>>
    BY <1>6 DEF D!Save
  <2>2. D!Saved(editing) \in D!Row
    BY <2>1, WrittenIs DEF D!Saved, D!TypeOK
  <2>3. D!With(local, D!Saved(editing)) \in Rows
        /\ D!KeysOf(D!With(local, D!Saved(editing))) = D!KeysOf(local)
    BY <1>a, <2>2, Replaced
  <2>4. DOMAIN intent' = DOMAIN intent \cup {editing}
    BY <2>1, Wished
  <2>5. DOMAIN intent' \subseteq used
    BY <1>a, <2>1, <2>4
  <2> QED BY <1>5, <2>1, <2>3, <2>5
<1>7. CASE D!Cancel
  BY <1>a, <1>7 DEF D!Cancel, ListsInv
<1>8. ASSUME NEW k \in Keys, D!Delete(k) PROVE ListsInv'
  <2>1. /\ D!Update(D!Without(local, k))
        /\ intent' = [x \in DOMAIN intent \ {k} |-> intent[x]]
        /\ UNCHANGED <<base, used, selected, editing>>
    BY <1>8 DEF D!Delete
  <2>2. D!Without(local, k) \in Rows /\ D!KeysOf(D!Without(local, k)) \subseteq D!KeysOf(local)
    BY <1>a, Removed
  <2> QED BY <1>a, <1>5, <2>1, <2>2
<1>9. CASE D!Drag
  <2>1. local' = D!Reverse(local) /\ UNCHANGED <<base, used, parent, selected, editing, intent>>
    BY <1>9 DEF D!Drag
  <2>2. local' \in Rows /\ D!KeysOf(local') = D!KeysOf(local) /\ Within(local, local')
    BY <1>a, <2>1, Reversed
  <2>3. Within(parent, local')
    BY <1>a, <2>2 DEF Within
  <2> QED BY <1>a, <2>1, <2>2, <2>3 DEF ListsInv
<1>10. ASSUME NEW k \in Keys, D!Click(k) \/ D!Tick(k) PROVE ListsInv'
  <2>1. /\ k \in D!KeysOf(local) /\ selected' \in {None, k}
        /\ UNCHANGED <<base, used, parent, local, editing, intent>>
    BY <1>10 DEF D!Click, D!Tick
  <2>2. base = None => selected' # Reported
    BY <1>a, <1>b, <2>1, KeysAreTimes
  <2> QED BY <1>a, <2>1, <2>2 DEF ListsInv
<1>11. CASE D!Attribute
  <2>1. /\ selected \in D!KeysOf(local) /\ edits < MaxEdit /\ edits' = edits + 1
        /\ IF picked \in D!KeysOf(local)
           THEN D!Update(D!With(local, [D!RowOf(local, picked) EXCEPT !.attr = edits']))
           ELSE UNCHANGED <<parent, local>>
        /\ intent' = D!Noted(selected, edits')
        /\ UNCHANGED <<base, used, editing, selected>>
    BY <1>11 DEF D!Attribute
  <2>2. edits' \in 0..MaxEdit
    <3>1. edits \in 0..MaxEdit
      BY DEF D!TypeOK
    <3> QED BY <2>1, <3>1, BoundsAreNumbers
  <2>3. DOMAIN intent' \subseteq used
    <3>1. selected \in used
      BY <1>a, <2>1
    <3>2. DOMAIN intent' = DOMAIN intent \cup {selected}
      BY <2>1, Wished DEF D!Noted
    <3> QED BY <1>a, <3>1, <3>2
  <2>4. CASE picked \in D!KeysOf(local)
    <3> DEFINE r == [D!RowOf(local, picked) EXCEPT !.attr = edits']
    <3>1. r \in D!Row
      BY <2>2, <2>4, WrittenIs
    <3> HIDE DEF r
    <3>2. D!With(local, r) \in Rows /\ D!KeysOf(D!With(local, r)) = D!KeysOf(local)
      BY <1>a, <3>1, Replaced
    <3> QED BY <1>5, <2>1, <2>3, <2>4, <3>2 DEF r
  <2>5. CASE picked \notin D!KeysOf(local)
    BY <1>a, <2>1, <2>3, <2>5 DEF ListsInv
  <2> QED BY <2>4, <2>5
<1>12. CASE D!Script
  <2> DEFINE r == [D!RowOf(local, picked) EXCEPT !.attr = text]
  <2>1. /\ picked \in D!KeysOf(local) /\ D!Update(D!With(local, r))
        /\ intent' = D!Noted(picked, edits')
        /\ UNCHANGED <<base, used, editing, selected>>
    BY <1>12 DEF D!Script
  <2>2. r \in D!Row
    BY <2>1, WrittenIs DEF D!TypeOK
  <2> HIDE DEF r
  <2>3. D!With(local, r) \in Rows /\ D!KeysOf(D!With(local, r)) = D!KeysOf(local)
    BY <1>a, <2>2, Replaced
  <2>4. DOMAIN intent' = DOMAIN intent \cup {picked}
    BY <2>1, Wished DEF D!Noted
  <2>5. DOMAIN intent' \subseteq used
    BY <1>a, <2>1, <2>4
  <2> QED BY <1>5, <2>1, <2>3, <2>5
<1>13. ASSUME NEW o \in Options, D!Choose(o) PROVE ListsInv'
  BY <1>a, <1>13 DEF D!Choose, D!rowVars, ListsInv
<1>14. CASE UNCHANGED D!vars
  BY <1>a, <1>14 DEF D!vars, D!rowVars, ListsInv
<1> QED BY <1>1, <1>2, <1>3, <1>4, <1>6, <1>7, <1>8, <1>9, <1>10, <1>11, <1>12, <1>13, <1>14
        DEF D!Next, D!Step, TheRow

LEMMA DesignerHarmGrows == [D!Next]_(D!vars) => harm \subseteq harm'
  BY DEF D!Next, D!Step, D!Structure, D!Refresh, D!Reset, D!Add, D!Edit, D!Type, D!Save,
         D!Cancel, D!Delete, D!Drag, D!Click, D!Tick, D!Reread, D!Attribute, D!Script, D!Choose,
         D!vars

\* The script that is edited is that of the row selected.
LEMMA PickedStep == D!TypeOK /\ ListsInv /\ PickedInv /\ [D!Next]_(D!vars) => PickedInv'
<1> SUFFICES ASSUME D!TypeOK, ListsInv, PickedInv, [D!Next]_(D!vars) PROVE PickedInv'
  OBVIOUS
<1>a. /\ panel.extra = "script" =>
           picked \in {selected, None} /\ (selected \in D!KeysOf(local) => picked = selected)
      /\ \A x \in DOMAIN intent : intent[x].attr = 0 => intent[x].before = 0
  BY DEF PickedInv
<1>b. local \in Rows /\ D!KeysOf(local) \subseteq used /\ None \notin D!KeysOf(local)
  BY KeyIs, KeysAreTimes DEF ListsInv
<1>c. panel' = panel
  BY DEF D!Next, D!Step, D!Structure, D!Refresh, D!Add, D!Edit, D!Type, D!Save,
         D!Cancel, D!Delete, D!Drag, D!Click, D!Tick, D!Attribute, D!Script, D!Choose, D!vars
<1>1. CASE D!Structure(<<TheRow>>) \/ D!Refresh
  <2>1. D!Reset(<<TheRow>>) /\ selected' = selected
    BY <1>1 DEF D!Structure, D!Refresh, ListsInv
  <2>2. /\ D!KeysOf(local') = {Reported}
        /\ panel.extra = "script" => picked' = IF selected = Reported THEN selected ELSE None
        /\ DOMAIN intent' = {Reported} /\ intent'[Reported] = D!NoWish
    BY <2>1, ResetIs
  <2> QED BY <1>c, <2>1, <2>2 DEF PickedInv, D!NoWish
<1>2. ASSUME NEW k \in Keys, D!Add(k) PROVE PickedInv'
  <2> DEFINE r == [key |-> k, val |-> 0, attr |-> 0]
  <2>1. /\ k \notin used /\ local' = Append(local, r) /\ intent' = intent
        /\ IF panel.extra = "none" \/ selected = k THEN UNCHANGED <<selected, picked>>
           ELSE selected' = k /\ picked' = k
    BY <1>2 DEF D!Add
  <2>2. selected # k
    BY <2>1, <1>2, KeysAreTimes DEF ListsInv
  <2> QED BY <1>a, <1>c, <2>1, <2>2 DEF PickedInv
<1>3. ASSUME D!KeysOf(local') \subseteq D!KeysOf(local), intent' = intent,
             UNCHANGED <<selected, picked>>
      PROVE  PickedInv'
  BY <1>a, <1>c, <1>3 DEF PickedInv
<1>4. CASE D!Type \/ D!Cancel \/ (\E k \in Keys : D!Edit(k))
  BY <1>3, <1>4 DEF D!Type, D!Cancel, D!Edit
<1>5. ASSUME NEW rows \in Rows, D!KeysOf(rows) \subseteq D!KeysOf(local), D!Update(rows),
             selected' = selected,
             \A x \in DOMAIN intent' : intent'[x].attr = 0 => intent'[x].before = 0
      PROVE  PickedInv'
  <2>1. /\ local' = rows
        /\ panel.extra = "script" =>
             picked' = IF selected \in D!KeysOf(rows) THEN selected ELSE None
    BY <1>5, Updated
  <2>2. panel'.extra = "script" =>
          /\ picked' \in {selected', None}
          /\ selected' \in D!KeysOf(local') => picked' = selected'
    BY <1>c, <1>5, <2>1
  <2> QED BY <1>5, <2>2 DEF PickedInv
<1>w. ASSUME NEW k, NEW w, intent' = D!Wanted(k, w), w.attr = 0 => w.before = 0
      PROVE  \A x \in DOMAIN intent' : intent'[x].attr = 0 => intent'[x].before = 0
  <2>1. /\ DOMAIN intent' = DOMAIN intent \cup {k}
        /\ \A x \in DOMAIN intent' : intent'[x] = IF x = k THEN w ELSE intent[x]
    BY <1>w, Wished
  <2>2. ASSUME NEW x \in DOMAIN intent' PROVE intent'[x].attr = 0 => intent'[x].before = 0
    <3>1. CASE x = k
      BY <1>w, <2>1, <3>1
    <3>2. CASE x # k
      BY <1>a, <2>1, <3>2
    <3> QED BY <3>1, <3>2
  <2> QED BY <2>2
<1>n. ASSUME NEW k, intent' = D!Noted(k, edits'), edits' = edits + 1
      PROVE  \A x \in DOMAIN intent' : intent'[x].attr = 0 => intent'[x].before = 0
  <2> DEFINE w == [D!WishOf(k) EXCEPT !.attr = edits', !.before = D!WishOf(k).attr]
  <2>1. w.attr = edits' /\ edits' # 0
    BY <1>n, WishIs DEF D!TypeOK, D!Wish
  <2>2. intent' = D!Wanted(k, w)
    BY <1>n DEF D!Noted
  <2> HIDE DEF w
  <2> QED BY <1>w, <2>1, <2>2
<1>6. CASE D!Save
  <2> DEFINE w == [D!WishOf(editing) EXCEPT !.val = draft]
  <2>1. /\ editing \in D!KeysOf(local) /\ D!Update(D!With(local, D!Saved(editing)))
        /\ intent' = D!Wanted(editing, w) /\ selected' = selected
    BY <1>6 DEF D!Save
  <2>2. D!Saved(editing) \in D!Row
    BY <2>1, WrittenIs DEF D!Saved, D!TypeOK
  <2>3. D!With(local, D!Saved(editing)) \in Rows
        /\ D!KeysOf(D!With(local, D!Saved(editing))) = D!KeysOf(local)
    BY <1>b, <2>2, Replaced
  <2>4. w.attr = 0 => w.before = 0
    <3>1. w.attr = D!WishOf(editing).attr /\ w.before = D!WishOf(editing).before
      BY WishIs DEF D!Wish
    <3>2. D!WishOf(editing).attr = 0 => D!WishOf(editing).before = 0
      BY <1>a DEF D!WishOf, D!NoWish
    <3> QED BY <3>1, <3>2
  <2> HIDE DEF w
  <2> QED BY <1>5, <1>w, <2>1, <2>3, <2>4
<1>7. ASSUME NEW k \in Keys, D!Delete(k) PROVE PickedInv'
  <2>1. /\ D!Update(D!Without(local, k)) /\ selected' = selected
        /\ intent' = [x \in DOMAIN intent \ {k} |-> intent[x]]
    BY <1>7 DEF D!Delete
  <2>2. D!Without(local, k) \in Rows /\ D!KeysOf(D!Without(local, k)) \subseteq D!KeysOf(local)
    BY <1>b, Removed
  <2> QED BY <1>a, <1>5, <2>1, <2>2
<1>8. CASE D!Drag
  <2>1. local' = D!Reverse(local) /\ UNCHANGED <<selected, picked, intent>>
    BY <1>8 DEF D!Drag
  <2>2. D!KeysOf(local') = D!KeysOf(local)
    BY <1>b, <2>1, Reversed
  <2> QED BY <1>3, <2>1, <2>2
<1>9. ASSUME NEW k \in Keys, D!Click(k) PROVE PickedInv'
  BY <1>a, <1>c, <1>9 DEF D!Click, PickedInv
<1>10. ASSUME NEW k \in Keys, D!Tick(k) PROVE PickedInv'
  <2>1. /\ selected' \in {None, k} /\ UNCHANGED <<local, intent>>
        /\ picked' = IF selected' = None THEN IF panel.clears THEN None ELSE picked
                     ELSE IF panel.follows THEN k ELSE picked
    BY <1>10 DEF D!Tick
  <2>2. panel.extra = "script" => picked' = selected'
    BY <2>1, PanelIs
  <2> QED BY <1>a, <1>c, <2>1, <2>2 DEF PickedInv
<1>11. CASE D!Attribute
  <2>1. /\ edits < MaxEdit /\ edits' = edits + 1 /\ panel.extra = "attribute"
        /\ intent' = D!Noted(selected, edits')
    BY <1>11 DEF D!Attribute
  <2> QED BY <1>c, <1>n, <2>1 DEF PickedInv
<1>12. CASE D!Script
  <2> DEFINE r == [D!RowOf(local, picked) EXCEPT !.attr = text]
  <2>1. /\ picked \in D!KeysOf(local) /\ D!Update(D!With(local, r)) /\ edits' = edits + 1
        /\ intent' = D!Noted(picked, edits') /\ selected' = selected
    BY <1>12 DEF D!Script
  <2>2. r \in D!Row
    BY <2>1, WrittenIs DEF D!TypeOK
  <2> HIDE DEF r
  <2>3. D!With(local, r) \in Rows /\ D!KeysOf(D!With(local, r)) = D!KeysOf(local)
    BY <1>b, <2>2, Replaced
  <2> QED BY <1>5, <1>n, <2>1, <2>3
<1>13. ASSUME NEW o \in Options, D!Choose(o) PROVE PickedInv'
  BY <1>3, <1>13 DEF D!Choose, D!rowVars
<1>14. CASE UNCHANGED D!vars
  BY <1>3, <1>14 DEF D!vars, D!rowVars
<1> QED BY <1>1, <1>2, <1>4, <1>6, <1>7, <1>8, <1>9, <1>10, <1>11, <1>12, <1>13, <1>14
        DEF D!Next, D!Step, TheRow

LEMMA PanelStays == [D!Next]_(D!vars) => panel' = panel
  BY DEF D!Next, D!Step, D!Structure, D!Refresh, D!Add, D!Edit, D!Type, D!Save,
         D!Cancel, D!Delete, D!Drag, D!Click, D!Tick, D!Attribute, D!Script, D!Choose, D!vars

LEMMA ShownStep == D!TypeOK /\ ListsInv /\ ShownInv /\ [D!Next]_(D!vars) => ShownInv'
<1> SUFFICES ASSUME D!TypeOK, ListsInv, ShownInv, [D!Next]_(D!vars),
                    harm' \cap {"dragged", "abandoned"} = {}
             PROVE  \/ parent' = local'
                    \/ editing' \in D!KeysOf(local') /\ parent' = D!Without(local', editing')
  BY DEF ShownInv
<1>a. \/ parent = local
      \/ editing \in D!KeysOf(local) /\ parent = D!Without(local, editing)
  BY DesignerHarmGrows DEF ShownInv
<1>b. local \in Rows /\ D!KeysOf(local) \subseteq used /\ None \notin D!KeysOf(local)
  BY KeyIs, KeysAreTimes DEF ListsInv
<1>1. CASE UNCHANGED <<parent, local, editing>>
  BY <1>a, <1>1
<1>2. CASE D!Structure(<<TheRow>>) \/ D!Refresh
  BY <1>2 DEF D!Structure, D!Refresh, D!Reset
<1>3. ASSUME NEW k \in Keys, D!Add(k)
      PROVE  parent' = local' \/ (editing' \in D!KeysOf(local') /\ parent' = D!Without(local', editing'))
  <2> DEFINE r == [key |-> k, val |-> 0, attr |-> 0]
  <2>1. /\ editing = None \/ local = <<>>
        /\ k \notin used /\ local' = Append(local, r) /\ editing' = k /\ parent' = parent
    BY <1>3 DEF D!Add
  <2>2. r \in D!Row /\ r.key = k /\ k \notin D!KeysOf(local)
    BY <1>b, <2>1, BoundsAreNumbers DEF D!Row
  <2> HIDE DEF r
  <2>3. parent = local
    BY <1>a, <1>b, <2>1, NoRows
  <2>4. k \in D!KeysOf(local') /\ D!Without(local', k) = local
    BY <1>b, <2>1, <2>2, Appended, AppendedRemoved
  <2> QED BY <2>1, <2>3, <2>4
<1>4. ASSUME NEW k \in Keys, D!Edit(k) PROVE parent' = local'
  BY <1>a, <1>b, <1>4 DEF D!Edit
<1>5. CASE D!Save \/ D!Script \/ (\E k \in Keys : D!Delete(k))
  BY <1>5 DEF D!Save, D!Script, D!Delete, D!Update
<1>6. CASE D!Cancel
  <2>1. editing \in D!KeysOf(parent) /\ UNCHANGED <<parent, local>>
    BY <1>6 DEF D!Cancel
  <2>2. parent # D!Without(local, editing)
    BY <1>b, <2>1, Removed
  <2> QED BY <1>a, <2>1, <2>2
<1>7. CASE D!Drag
  BY <1>7 DEF D!Drag
<1>8. CASE D!Attribute
  BY <1>1, <1>8 DEF D!Attribute, D!Update
<1>9. CASE D!Type \/ (\E k \in Keys : D!Click(k) \/ D!Tick(k))
  BY <1>1, <1>9 DEF D!Type, D!Click, D!Tick
<1>10. ASSUME NEW o \in Options, D!Choose(o) PROVE UNCHANGED <<parent, local, editing>>
  BY <1>10 DEF D!Choose, D!rowVars
<1>11. CASE UNCHANGED D!vars
  BY <1>1, <1>11 DEF D!vars, D!rowVars
<1> QED BY <1>1, <1>2, <1>3, <1>4, <1>5, <1>6, <1>7, <1>8, <1>9, <1>10, <1>11
        DEF D!Next, D!Step, TheRow

\* A row that is edited is shown, or deleted, or the structure was taken again.
LEMMA LockedStep == D!TypeOK /\ ListsInv /\ D!NotLocked /\ [D!Next]_(D!vars) => D!NotLocked'
<1> SUFFICES ASSUME D!TypeOK, ListsInv, D!NotLocked, [D!Next]_(D!vars),
                    editing' # None, harm' \cap {"locked", "refreshed"} = {}
             PROVE  editing' \in D!KeysOf(local')
  BY DEF D!NotLocked
<1>a. editing # None => editing \in D!KeysOf(local)
  BY DesignerHarmGrows DEF D!NotLocked
<1>b. local \in Rows
  BY DEF ListsInv
<1>1. CASE D!Structure(<<TheRow>>) \/ D!Refresh
  <2>1. D!Reset(<<TheRow>>) /\ editing' = editing
    BY <1>1 DEF D!Structure, D!Refresh, ListsInv
  <2>2. {local, parent} = {IF base = None THEN <<>> ELSE <<TheRow>>} /\ local' = <<TheRow>>
    BY <2>1, ResetIs
  <2> QED BY <1>a, <2>1, <2>2, NoRows
<1>2. ASSUME NEW k \in Keys, D!Add(k) PROVE editing' \in D!KeysOf(local')
  <2> DEFINE r == [key |-> k, val |-> 0, attr |-> 0]
  <2>1. k \notin used /\ local' = Append(local, r) /\ editing' = k
    BY <1>2 DEF D!Add
  <2>2. r \in D!Row /\ r.key = k /\ k \notin D!KeysOf(local)
    BY <2>1, BoundsAreNumbers DEF D!Row, ListsInv
  <2> HIDE DEF r
  <2> QED BY <1>b, <2>1, <2>2, Appended
<1>3. ASSUME NEW k \in Keys, D!Edit(k) PROVE editing' \in D!KeysOf(local')
  BY <1>3 DEF D!Edit
<1>4. CASE D!Save \/ D!Cancel
  BY <1>4 DEF D!Save, D!Cancel
<1>5. ASSUME NEW k \in Keys, D!Delete(k) PROVE editing' \in D!KeysOf(local')
  <2>1. /\ editing' = editing /\ local' = D!Without(local, k) /\ editing \in {None, k}
        /\ harm' = IF editing = k THEN harm \cup {"locked"} ELSE harm
    BY <1>5 DEF D!Delete, D!Update
  <2> QED BY <2>1
<1>6. CASE D!Drag
  <2>1. local' = D!Reverse(local) /\ editing' = editing
    BY <1>6 DEF D!Drag
  <2>2. D!KeysOf(local') = D!KeysOf(local)
    BY <1>b, <2>1, Reversed
  <2> QED BY <1>a, <2>1, <2>2
<1>7. CASE UNCHANGED <<local, editing>>
  BY <1>a, <1>7
<1>8. CASE D!Attribute
  <2>1. /\ edits < MaxEdit /\ edits' = edits + 1 /\ editing' = editing
        /\ IF picked \in D!KeysOf(local)
           THEN D!Update(D!With(local, [D!RowOf(local, picked) EXCEPT !.attr = edits']))
           ELSE local' = local
    BY <1>8 DEF D!Attribute
  <2>2. edits' \in 0..MaxEdit
    <3>1. edits \in 0..MaxEdit
      BY DEF D!TypeOK
    <3> QED BY <2>1, <3>1, BoundsAreNumbers
  <2>3. CASE picked \in D!KeysOf(local)
    <3> DEFINE r == [D!RowOf(local, picked) EXCEPT !.attr = edits']
    <3>1. r \in D!Row
      BY <2>2, <2>3, WrittenIs
    <3>2. local' = D!With(local, r)
      BY <2>1, <2>3 DEF D!Update
    <3> HIDE DEF r
    <3>3. D!KeysOf(local') = D!KeysOf(local)
      BY <1>b, <3>1, <3>2, Replaced
    <3> QED BY <1>a, <2>1, <3>3
  <2> QED BY <1>7, <2>1, <2>3
<1>9. CASE D!Script
  <2> DEFINE r == [D!RowOf(local, picked) EXCEPT !.attr = text]
  <2>1. picked \in D!KeysOf(local) /\ local' = D!With(local, r) /\ editing' = editing
    BY <1>9 DEF D!Script, D!Update
  <2>2. r \in D!Row
    BY <2>1, WrittenIs DEF D!TypeOK
  <2> HIDE DEF r
  <2>3. D!KeysOf(local') = D!KeysOf(local)
    BY <1>b, <2>1, <2>2, Replaced
  <2> QED BY <1>a, <2>1, <2>3
<1>10. CASE D!Type \/ (\E k \in Keys : D!Click(k) \/ D!Tick(k))
  BY <1>7, <1>10 DEF D!Type, D!Click, D!Tick
<1>11. ASSUME NEW o \in Options, D!Choose(o) PROVE UNCHANGED <<local, editing>>
  BY <1>11 DEF D!Choose, D!rowVars
<1>12. CASE UNCHANGED D!vars
  BY <1>7, <1>12 DEF D!vars, D!rowVars
<1> QED BY <1>1, <1>2, <1>3, <1>4, <1>5, <1>6, <1>7, <1>8, <1>9, <1>10, <1>11, <1>12
        DEF D!Next, D!Step, TheRow

\* The designer is handed the options that the panel shows.
LEMMA OptionsStep == D!TypeOK /\ D!OptionsLagByOne /\ [D!Next]_(D!vars) => D!OptionsLagByOne'
<1> SUFFICES ASSUME D!TypeOK, D!OptionsLagByOne, [D!Next]_(D!vars) PROVE D!OptionsLagByOne'
  OBVIOUS
<1>1. ASSUME NEW o \in Options, D!Choose(o) PROVE D!OptionsLagByOne'
  <2>1. /\ opts' = optsShown /\ lastOpt' = o
        /\ optsShown' \in {[optsShown EXCEPT ![o] = edits'], optsShown}
    BY <1>1 DEF D!Choose, D!Handed
  <2>2. optsShown \in [Options -> 0..MaxEdit]
    BY DEF D!TypeOK
  <2> QED BY <2>1, <2>2 DEF D!OptionsLagByOne
<1>2. ASSUME UNCHANGED D!optVars PROVE D!OptionsLagByOne'
  BY <1>2 DEF D!optVars, D!OptionsLagByOne
<1>3. D!Next => UNCHANGED D!optVars \/ \E o \in Options : D!Choose(o)
  BY DEF D!Next, D!Step, D!Structure, D!Refresh, D!Add, D!Edit, D!Type, D!Save,
         D!Cancel, D!Delete, D!Drag, D!Click, D!Tick, D!Attribute, D!Script
<1> QED BY <1>1, <1>2, <1>3 DEF D!vars

\* A row is written as the user now wishes it.
LEMMA WrittenAsMeant ==
  ASSUME D!TypeOK, ListsInv, panel' = panel,
         DOMAIN intent \subseteq D!KeysOf(parent),
         \A x \in D!KeysOf(local) : IsMeant(panel, D!RowOf(local, x), D!WishOf(x)),
         NEW k \in D!KeysOf(local), NEW r \in D!Row, r.key = k, NEW w, IsMeant(panel, r, w),
         D!Update(D!With(local, r)), intent' = D!Wanted(k, w)
  PROVE  /\ D!KeysOf(local') = D!KeysOf(local)
         /\ DOMAIN intent' \subseteq D!KeysOf(parent')
         /\ \A x \in D!KeysOf(local') : IsMeant(panel', D!RowOf(local', x), D!WishOf(x)')
<1> DEFINE rows == D!With(local, r)
<1>1. /\ local \in Rows /\ rows \in Rows /\ D!KeysOf(rows) = D!KeysOf(local)
      /\ \A x \in D!KeysOf(local) : D!RowOf(rows, x) = IF x = k THEN r ELSE D!RowOf(local, x)
  BY Replaced DEF ListsInv
<1>2. parent' = rows /\ local' = rows
  BY DEF D!Update
<1>3. D!KeysOf(parent) \subseteq D!KeysOf(local)
  BY DEF ListsInv, Within
<1>4. /\ DOMAIN intent' = DOMAIN intent \cup {k}
      /\ \A x : D!WishOf(x)' = IF x = k THEN w ELSE D!WishOf(x)
  BY Wished
<1> HIDE DEF rows
<1>5. ASSUME NEW x \in D!KeysOf(local)
      PROVE  IsMeant(panel', D!RowOf(local', x), D!WishOf(x)')
  <2>1. CASE x = k
    <3>1. D!RowOf(local', x) = r /\ D!WishOf(x)' = w
      BY <1>1, <1>2, <1>4, <2>1
    <3> QED BY <3>1
  <2>2. CASE x # k
    <3>1. D!RowOf(local', x) = D!RowOf(local, x) /\ D!WishOf(x)' = D!WishOf(x)
      BY <1>1, <1>2, <1>4, <2>2
    <3> QED BY <3>1
  <2> QED BY <2>1, <2>2
<1> QED BY <1>1, <1>2, <1>3, <1>4, <1>5

LEMMA MeantStep ==
  D!TypeOK /\ ListsInv /\ PickedInv /\ MeantInv /\ [D!Next]_(D!vars) => MeantInv'
<1> DEFINE Meant ==
      /\ DOMAIN intent \subseteq D!KeysOf(parent)
      /\ \A k \in D!KeysOf(local) : IsMeant(panel, D!RowOf(local, k), D!WishOf(k))
      /\ \A k \in D!KeysOf(local) :
           panel.extra = "script" /\ picked = k => text = D!WishOf(k).attr
<1> SUFFICES ASSUME D!TypeOK, ListsInv, PickedInv, MeantInv, [D!Next]_(D!vars),
                    harm' \cap {"refreshed", "strayed", "reselected"} = {}
             PROVE  Meant'
  BY DEF MeantInv
<1>a. /\ DOMAIN intent \subseteq D!KeysOf(parent)
      /\ \A k \in D!KeysOf(local) : IsMeant(panel, D!RowOf(local, k), D!WishOf(k))
      /\ \A k \in D!KeysOf(local) :
           panel.extra = "script" /\ picked = k => text = D!WishOf(k).attr
  BY DesignerHarmGrows DEF MeantInv
<1>b. /\ local \in Rows /\ D!KeysOf(local) \subseteq used /\ None \notin D!KeysOf(local)
      /\ Within(parent, local) /\ DOMAIN intent \subseteq used
      /\ D!KeysOf(parent) \subseteq D!KeysOf(local)
  BY KeyIs, KeysAreTimes DEF ListsInv, Within
<1>c. /\ panel.extra = "script" =>
           picked \in {selected, None} /\ (selected \in D!KeysOf(local) => picked = selected)
      /\ \A k : D!WishOf(k).attr = 0 => D!WishOf(k).before = 0
  BY DEF PickedInv, D!WishOf, D!NoWish
<1>d. panel' = panel
  BY PanelStays
<1>e. ASSUME intent' = intent PROVE \A k : D!WishOf(k)' = D!WishOf(k)
  BY <1>e DEF D!WishOf
<1>1. CASE UNCHANGED <<parent, local, picked, text, intent>>
  BY <1>a, <1>d, <1>e, <1>1
<1>2. CASE D!Structure(<<TheRow>>) \/ D!Refresh
  <2>1. D!Reset(<<TheRow>>) /\ selected' = selected /\ text' = text
    BY <1>2 DEF D!Structure, D!Refresh, ListsInv
  <2>2. /\ parent' = local' /\ D!KeysOf(local') = {Reported}
        /\ D!RowOf(local', Reported) = TheRow
        /\ panel.extra = "script" => picked' = IF selected = Reported THEN selected ELSE None
        /\ DOMAIN intent' = {Reported} /\ \A k : D!WishOf(k)' = D!NoWish
        /\ {local, parent} = {IF base = None THEN <<>> ELSE <<TheRow>>}
        /\ \A k \in DOMAIN intent : intent[k] = D!NoWish
    BY <2>1, ResetIs
  <2>3. IsMeant(panel', TheRow, D!NoWish)
    BY DEF IsMeant, TheRow, D!NoWish
  <2>4. ASSUME panel.extra = "script", picked' = Reported PROVE text = 0
    <3>1. selected = Reported
      BY <2>2, <2>4, KeysAreTimes
    <3>2. local = <<TheRow>>
      BY <2>2, <3>1 DEF ListsInv
    <3>3. selected \in D!KeysOf(local)
      BY <3>1, <3>2, TheRows
    <3>4. text = D!WishOf(selected).attr
      BY <1>a, <1>c, <2>4, <3>3
    <3>5. D!WishOf(selected) = D!NoWish
      BY <2>2 DEF D!WishOf
    <3> QED BY <3>4, <3>5 DEF D!NoWish
  <2>5. ASSUME panel.extra = "script", picked' = Reported PROVE text' = D!NoWish.attr
    BY <2>1, <2>4, <2>5 DEF D!NoWish
  <2>6. D!RowOf(local', Reported) = TheRow /\ D!WishOf(Reported)' = D!NoWish
    BY <2>2
  <2> QED BY <1>d, <2>2, <2>3, <2>5, <2>6
<1>3. ASSUME NEW k \in Keys, D!Add(k) PROVE Meant'
  <2> DEFINE r == [key |-> k, val |-> 0, attr |-> 0]
  <2>1. /\ k \notin used /\ local' = Append(local, r) /\ UNCHANGED <<parent, intent>>
        /\ IF panel.extra = "none" \/ selected = k THEN UNCHANGED <<selected, picked, text>>
           ELSE selected' = k /\ picked' = k /\ text' = 0
    BY <1>3 DEF D!Add
  <2>2. selected # k
    BY <2>1, <1>3, KeysAreTimes DEF ListsInv
  <2>3. r \in D!Row /\ r.key = k /\ k \notin D!KeysOf(local)
    BY <1>b, <2>1, BoundsAreNumbers DEF D!Row
  <2>4. D!WishOf(k) = D!NoWish
    BY <1>b, <2>1 DEF D!WishOf
  <2>5. IsMeant(panel, r, D!NoWish)
    BY DEF IsMeant, D!NoWish
  <2> HIDE DEF r
  <2>6. /\ D!KeysOf(local') = D!KeysOf(local) \cup {k} /\ D!RowOf(local', k) = r
        /\ \A x \in D!KeysOf(local) : D!RowOf(local', x) = D!RowOf(local, x)
    BY <1>b, <2>1, <2>3, Appended DEF Within
  <2>7. ASSUME NEW x \in D!KeysOf(local')
        PROVE  IsMeant(panel', D!RowOf(local', x), D!WishOf(x)')
    <3>1. CASE x = k
      <4>1. D!RowOf(local', x) = r /\ D!WishOf(x)' = D!NoWish
        BY <1>e, <2>1, <2>4, <2>6, <3>1
      <4> QED BY <1>d, <2>5, <4>1
    <3>2. CASE x # k
      <4>1. x \in D!KeysOf(local)
        BY <2>6, <3>2
      <4>2. D!RowOf(local', x) = D!RowOf(local, x) /\ D!WishOf(x)' = D!WishOf(x)
        BY <1>e, <2>1, <2>6, <4>1
      <4> QED BY <1>a, <1>d, <4>1, <4>2
    <3> QED BY <3>1, <3>2
  <2>8. ASSUME NEW x \in D!KeysOf(local'), panel'.extra = "script", picked' = x
        PROVE  text' = D!WishOf(x)'.attr
    <3>1. picked' = k /\ text' = 0
      BY <1>d, <2>1, <2>2, <2>8
    <3>2. D!WishOf(x)' = D!NoWish
      BY <1>e, <2>1, <2>4, <2>8, <3>1
    <3> QED BY <3>1, <3>2 DEF D!NoWish
  <2> QED BY <1>a, <2>1, <2>7, <2>8
<1>4. CASE D!Save
  <2> DEFINE k == editing
             r == D!Saved(k)
             w == [D!WishOf(k) EXCEPT !.val = draft]
  <2>1. /\ k \in D!KeysOf(local) /\ D!Update(D!With(local, r))
        /\ intent' = D!Wanted(k, w) /\ UNCHANGED <<selected, text>>
    BY <1>4 DEF D!Save
  <2>2. r \in D!Row /\ r.key = k
    BY <2>1, WrittenIs DEF D!Saved, D!TypeOK
  <2>3. /\ r.val = draft /\ r.attr = D!RowOf(local, k).attr
        /\ w.val = draft /\ w.attr = D!WishOf(k).attr /\ w.before = D!WishOf(k).before
    <3>1. D!RowOf(local, k) \in D!Row /\ D!WishOf(k) \in D!Wish
      BY <1>b, <2>1, KeyIs, WishIs
    <3> QED BY <3>1 DEF D!Saved, D!Row, D!Wish
  <2> HIDE DEF k, r, w
  <2>4. IsMeant(panel, r, w)
    BY <1>a, <2>1, <2>3 DEF IsMeant
  <2>5. /\ D!KeysOf(local') = D!KeysOf(local)
        /\ DOMAIN intent' \subseteq D!KeysOf(parent')
        /\ \A x \in D!KeysOf(local') : IsMeant(panel', D!RowOf(local', x), D!WishOf(x)')
    BY <1>a, <1>d, <2>1, <2>2, <2>4, WrittenAsMeant
  <2>6. panel.extra = "script" =>
          picked' = IF selected \in D!KeysOf(local) THEN selected ELSE None
    BY <1>b, <2>1, <2>2, Replaced, Updated
  <2>7. \A x : D!WishOf(x)' = IF x = k THEN w ELSE D!WishOf(x)
    BY <2>1, Wished
  <2>8. ASSUME NEW x \in D!KeysOf(local'), panel'.extra = "script", picked' = x
        PROVE  text' = D!WishOf(x)'.attr
    <3>1. picked = x /\ x \in D!KeysOf(local)
      BY <1>b, <1>c, <1>d, <2>5, <2>6, <2>8
    <3>2. D!WishOf(x)'.attr = D!WishOf(x).attr
      BY <2>3, <2>7
    <3> QED BY <1>a, <1>d, <2>1, <2>8, <3>1, <3>2
  <2> QED BY <2>5, <2>8
<1>5. ASSUME NEW k \in Keys, D!Delete(k) PROVE Meant'
  <2>1. /\ D!Update(D!Without(local, k)) /\ text' = text
        /\ intent' = [x \in DOMAIN intent \ {k} |-> intent[x]]
    BY <1>5 DEF D!Delete
  <2>2. /\ D!Without(local, k) \in Rows /\ D!KeysOf(D!Without(local, k)) = D!KeysOf(local) \ {k}
        /\ Within(D!Without(local, k), local)
    BY <1>b, Removed
  <2>3. /\ parent' = D!Without(local, k) /\ local' = D!Without(local, k)
        /\ panel.extra = "script" =>
             picked' = IF selected \in D!KeysOf(local') THEN selected ELSE None
    BY <2>1, <2>2, Updated
  <2>4. \A x : x # k => D!WishOf(x)' = D!WishOf(x)
    BY <2>1 DEF D!WishOf
  <2>5. DOMAIN intent' \subseteq D!KeysOf(parent')
    BY <1>a, <1>b, <2>1, <2>2, <2>3
  <2>6. ASSUME NEW x \in D!KeysOf(local')
        PROVE  IsMeant(panel', D!RowOf(local', x), D!WishOf(x)')
    <3>1. x \in D!KeysOf(local) /\ x # k /\ D!RowOf(local', x) = D!RowOf(local, x)
      BY <2>2, <2>3 DEF Within
    <3>2. D!WishOf(x)' = D!WishOf(x)
      BY <2>4, <3>1
    <3> QED BY <1>a, <1>d, <3>1, <3>2
  <2>7. ASSUME NEW x \in D!KeysOf(local'), panel'.extra = "script", picked' = x
        PROVE  text' = D!WishOf(x)'.attr
    <3>1. x \in D!KeysOf(local) /\ x # k
      BY <2>2, <2>3
    <3>2. picked = x
      BY <1>b, <1>c, <1>d, <2>3, <2>7, <3>1
    <3> QED BY <1>a, <1>d, <2>1, <2>4, <2>7, <3>1, <3>2
  <2> QED BY <2>5, <2>6, <2>7
<1>6. CASE D!Drag
  <2>1. local' = D!Reverse(local) /\ UNCHANGED <<parent, picked, text, intent>>
    BY <1>6 DEF D!Drag
  <2>2. /\ D!KeysOf(local') = D!KeysOf(local)
        /\ \A x \in D!KeysOf(local) : D!RowOf(local', x) = D!RowOf(local, x)
    BY <1>b, <2>1, Reversed DEF Within
  <2> QED BY <1>a, <1>d, <1>e, <2>1, <2>2
<1>7. ASSUME NEW k \in Keys, D!Click(k) \/ D!Tick(k) PROVE Meant'
  <2>1. /\ k \in D!KeysOf(local) /\ selected' \in {None, k} /\ D!Reread(selected')
        /\ UNCHANGED <<parent, local, intent>>
    BY <1>7 DEF D!Click, D!Tick
  <2>2. panel.extra = "script" => picked' = selected'
    BY <1>7, PanelIs DEF D!Click, D!Tick
  <2>3. ASSUME NEW x \in D!KeysOf(local'), panel'.extra = "script", picked' = x
        PROVE  text' = D!WishOf(x)'.attr
    <3>1. x \in D!KeysOf(local) /\ selected' = x /\ x # None
      BY <1>b, <1>d, <2>1, <2>2, <2>3
    <3>2. /\ text' = D!RowOf(local, x).attr
          /\ D!WishOf(x).attr \in {0, D!RowOf(local, x).attr}
      BY <1>d, <2>1, <2>3, <3>1 DEF D!Reread
    <3>3. D!RowOf(local, x).attr = D!WishOf(x).before
      BY <1>a, <1>d, <2>3, <3>1 DEF IsMeant
    <3>4. text' = D!WishOf(x).attr
      BY <1>c, <3>2, <3>3
    <3> QED BY <1>e, <2>1, <3>4
  <2> QED BY <1>a, <1>d, <1>e, <2>1, <2>3
<1>8. CASE D!Attribute
  <2> DEFINE k == selected
             r == [D!RowOf(local, k) EXCEPT !.attr = edits']
             w == [D!WishOf(k) EXCEPT !.attr = edits', !.before = D!WishOf(k).attr]
  <2>1. /\ edits < MaxEdit /\ edits' = edits + 1 /\ panel.extra = "attribute"
        /\ k \in D!KeysOf(local) /\ intent' = D!Wanted(k, w)
    BY <1>8 DEF D!Attribute, D!Noted
  <2>2. picked = selected
    BY <1>8 DEF D!Attribute
  <2>3. D!Update(D!With(local, r))
    BY <1>8, <2>1, <2>2 DEF D!Attribute
  <2>4. edits' \in 0..MaxEdit
    <3>1. edits \in 0..MaxEdit
      BY DEF D!TypeOK
    <3> QED BY <2>1, <3>1, BoundsAreNumbers
  <2>5. r \in D!Row /\ r.key = k
    BY <2>1, <2>4, WrittenIs
  <2>6. /\ r.attr = edits' /\ r.val = D!RowOf(local, k).val
        /\ w.attr = edits' /\ w.val = D!WishOf(k).val
    <3>1. D!RowOf(local, k) \in D!Row /\ D!WishOf(k) \in D!Wish
      BY <1>b, <2>1, KeyIs, WishIs
    <3> QED BY <3>1 DEF D!Row, D!Wish
  <2> HIDE DEF k, r, w
  <2>7. IsMeant(panel, r, w)
    BY <1>a, <2>1, <2>6 DEF IsMeant
  <2>8. /\ DOMAIN intent' \subseteq D!KeysOf(parent')
        /\ \A x \in D!KeysOf(local') : IsMeant(panel', D!RowOf(local', x), D!WishOf(x)')
    BY <1>a, <1>d, <2>1, <2>3, <2>5, <2>7, WrittenAsMeant
  <2> QED BY <1>d, <2>1, <2>8
<1>9. CASE D!Script
  <2> DEFINE k == picked
             r == [D!RowOf(local, k) EXCEPT !.attr = text]
             w == [D!WishOf(k) EXCEPT !.attr = edits', !.before = D!WishOf(k).attr]
  <2>1. /\ panel.extra = "script" /\ text' = edits' /\ D!Update(D!With(local, r))
        /\ k \in D!KeysOf(local) /\ intent' = D!Wanted(k, w) /\ selected' = selected
    BY <1>9 DEF D!Script, D!Noted
  <2>2. r \in D!Row /\ r.key = k
    BY <2>1, WrittenIs DEF D!TypeOK
  <2>3. /\ r.attr = text /\ r.val = D!RowOf(local, k).val
        /\ w.attr = edits' /\ w.val = D!WishOf(k).val /\ w.before = D!WishOf(k).attr
    <3>1. D!RowOf(local, k) \in D!Row /\ D!WishOf(k) \in D!Wish
      BY <1>b, <2>1, KeyIs, WishIs
    <3> QED BY <3>1 DEF D!Row, D!Wish
  <2>4. text = D!WishOf(k).attr
    BY <1>a, <2>1
  <2>5. picked = selected
    BY <1>b, <1>c, <2>1
  <2> HIDE DEF r, w
  <2>6. IsMeant(panel, r, w)
    BY <1>a, <2>1, <2>3, <2>4 DEF IsMeant
  <2>7. /\ D!KeysOf(local') = D!KeysOf(local)
        /\ DOMAIN intent' \subseteq D!KeysOf(parent')
        /\ \A x \in D!KeysOf(local') : IsMeant(panel', D!RowOf(local', x), D!WishOf(x)')
    BY <1>a, <1>d, <2>1, <2>2, <2>6, WrittenAsMeant
  <2>8. picked' = selected
    BY <1>b, <2>1, <2>2, <2>5, Replaced, Updated
  <2>9. \A x : D!WishOf(x)' = IF x = k THEN w ELSE D!WishOf(x)
    BY <2>1, Wished
  <2>10. ASSUME NEW x \in D!KeysOf(local'), picked' = x PROVE text' = D!WishOf(x)'.attr
    BY <2>1, <2>3, <2>5, <2>8, <2>9, <2>10
  <2> QED BY <2>7, <2>10
<1>10. CASE D!Type \/ D!Cancel \/ (\E k \in Keys : D!Edit(k))
  BY <1>1, <1>10 DEF D!Type, D!Cancel, D!Edit
<1>11. ASSUME NEW o \in Options, D!Choose(o) PROVE UNCHANGED <<parent, local, picked, text, intent>>
  BY <1>11 DEF D!Choose, D!rowVars
<1>12. CASE UNCHANGED D!vars
  BY <1>1, <1>12 DEF D!vars, D!rowVars
<1> HIDE DEF Meant
<1> QED BY <1>1, <1>2, <1>3, <1>4, <1>5, <1>6, <1>7, <1>8, <1>9, <1>10, <1>11, <1>12
        DEF D!Next, D!Step, TheRow

LEMMA DesignerStep == DesignerInv /\ [D!Next]_(D!vars) => DesignerInv'
<1> SUFFICES ASSUME DesignerInv, [D!Next]_(D!vars) PROVE DesignerInv'
  OBVIOUS
<1>1. D!TypeOK' /\ ListsInv'
  BY DesignerTypes, ListsStep DEF DesignerInv
<1>2. PickedInv' /\ ShownInv' /\ MeantInv'
  BY PickedStep, ShownStep, MeantStep DEF DesignerInv
<1>3. D!NotLocked' /\ D!OptionsLagByOne'
  BY LockedStep, OptionsStep DEF DesignerInv
<1> QED BY <1>1, <1>2, <1>3 DEF DesignerInv

LEMMA DesignerHolds ==
  DesignerInv =>
    D!TypeOK /\ D!SentIsShown /\ D!OptionsLagByOne /\ D!EditsAreKept /\ D!NotLocked
<1> SUFFICES ASSUME DesignerInv PROVE D!SentIsShown /\ D!EditsAreKept
  BY DEF DesignerInv
<1>1. D!SentIsShown
  BY DEF DesignerInv, ShownInv, D!SentIsShown
<1>2. D!EditsAreKept
  <2> SUFFICES ASSUME harm \cap {"refreshed", "strayed", "reselected"} = {},
                      NEW k \in DOMAIN intent
               PROVE  /\ k \in D!KeysOf(parent)
                      /\ D!RowOf(parent, k).val = intent[k].val
                      /\ D!RowOf(parent, k).attr =
                           IF panel.extra = "script" THEN intent[k].before ELSE intent[k].attr
    BY DEF D!EditsAreKept
  <2>1. /\ DOMAIN intent \subseteq D!KeysOf(parent)
        /\ \A x \in D!KeysOf(local) : IsMeant(panel, D!RowOf(local, x), D!WishOf(x))
    BY DEF DesignerInv, MeantInv
  <2>2. k \in D!KeysOf(parent) /\ k \in D!KeysOf(local) /\ D!RowOf(parent, k) = D!RowOf(local, k)
    BY <2>1 DEF DesignerInv, ListsInv, Within
  <2>3. D!WishOf(k) = intent[k]
    BY DEF D!WishOf
  <2> QED BY <2>1, <2>2, <2>3 DEF IsMeant
<1> QED BY <1>1, <1>2

-----------------------------------------------------------------------------
(***************************************************************************)
(* A behaviour is about one part; the variables of the others stay unset.  *)
(***************************************************************************)
PartsInv ==
  \/ DesignerInv /\ NoSql /\ NoGrid /\ NoCode
  \/ SqlInv /\ NoDesigner /\ NoGrid /\ NoCode
  \/ GridInv /\ NoDesigner /\ NoSql /\ NoCode
  \/ CodeInv /\ NoDesigner /\ NoSql /\ NoGrid

partVars == <<designerOnly, designerOrGrid, sent, sqlOnly, gridOnly, codeOnly>>

LEMMA PartsInit == InitOfAny => PartsInv
  BY DesignerInit, SqlInit, GridInit, CodeInit DEF InitOfAny, PartsInv

LEMMA PartsStep == PartsInv /\ [NextOfAny]_partVars => PartsInv'
<1> SUFFICES ASSUME PartsInv, [NextOfAny]_partVars PROVE PartsInv'
  OBVIOUS
<1>a. ASSUME UNCHANGED designerOnly, NoDesigner PROVE NoDesigner'
  BY <1>a DEF designerOnly, NoDesigner
<1>b. ASSUME UNCHANGED sqlOnly, NoSql PROVE NoSql'
  BY <1>b DEF sqlOnly, NoSql
<1>c. ASSUME UNCHANGED gridOnly, NoGrid PROVE NoGrid'
  BY <1>c DEF gridOnly, NoGrid
<1>d. ASSUME UNCHANGED codeOnly, NoCode PROVE NoCode'
  BY <1>d DEF codeOnly, NoCode
<1>e. NoDesigner => panel = None
  BY DEF NoDesigner
<1>f. NoSql => table = None
  BY DEF NoSql
<1>g. NoGrid => key = None
  BY DEF NoGrid
<1>h. NoCode => kind = None
  BY DEF NoCode
<1>1. CASE DesignerInv /\ NoSql /\ NoGrid /\ NoCode
  <2>1. [D!Next]_(D!vars) /\ UNCHANGED <<sqlOnly, gridOnly, codeOnly>>
    BY <1>1, <1>f, <1>g, <1>h DEF NextOfAny, partVars, designerOnly, designerOrGrid, D!vars,
       D!rowVars, D!optVars
  <2> QED BY <1>1, <1>b, <1>c, <1>d, <2>1, DesignerStep DEF PartsInv
<1>2. CASE SqlInv /\ NoDesigner /\ NoGrid /\ NoCode
  <2>1. [Next]_vars /\ UNCHANGED <<designerOnly, gridOnly, codeOnly>>
    BY <1>2, <1>e, <1>g, <1>h DEF NextOfAny, partVars, sqlOnly, vars
  <2> QED BY <1>2, <1>a, <1>c, <1>d, <2>1, SqlStep DEF PartsInv
<1>3. CASE GridInv /\ NoDesigner /\ NoSql /\ NoCode
  <2>1. [G!Next]_(G!vars) /\ UNCHANGED <<designerOnly, sqlOnly, codeOnly>>
    BY <1>3, <1>e, <1>f, <1>h DEF NextOfAny, partVars, gridOnly, designerOrGrid, G!vars
  <2> QED BY <1>3, <1>a, <1>b, <1>d, <2>1, GridStep DEF PartsInv
<1>4. CASE CodeInv /\ NoDesigner /\ NoSql /\ NoGrid
  <2>1. [C!Next]_(C!panelVars) /\ UNCHANGED <<designerOnly, sqlOnly, gridOnly>>
    BY <1>4, <1>e, <1>f, <1>g DEF NextOfAny, partVars, codeOnly, C!panelVars
  <2> QED BY <1>4, <1>a, <1>b, <1>c, <2>1, CodeStep DEF PartsInv
<1> QED BY <1>1, <1>2, <1>3, <1>4 DEF PartsInv

LEMMA PartsHold ==
  PartsInv => TypesOK /\ SentIsShown /\ EditsAreKept /\ ReadIsTable /\ RowsAreKept /\ PreviewIsText
<1> SUFFICES ASSUME PartsInv
             PROVE  TypesOK /\ SentIsShown /\ EditsAreKept /\ ReadIsTable /\ RowsAreKept
                    /\ PreviewIsText
  OBVIOUS
<1> USE DEF TypesOK, SentIsShown, EditsAreKept, RowsAreKept, PreviewIsText
<1>a. NoSql => ReadIsTable
  BY DEF NoSql, ReadIsTable
<1>b. NoDesigner => panel = None
  BY DEF NoDesigner
<1>c. NoSql => table = None
  BY DEF NoSql
<1>d. NoGrid => key = None
  BY DEF NoGrid
<1>e. NoCode => kind = None
  BY DEF NoCode
<1>1. CASE DesignerInv /\ NoSql /\ NoGrid /\ NoCode
  BY <1>1, <1>a, <1>c, <1>d, <1>e, DesignerHolds
<1>2. CASE SqlInv /\ NoDesigner /\ NoGrid /\ NoCode
  <2>1. TypeOK
    BY <1>2 DEF SqlInv
  <2> QED BY <1>2, <1>b, <1>d, <1>e, <2>1, ReadIs
<1>3. CASE GridInv /\ NoDesigner /\ NoSql /\ NoCode
  BY <1>3, <1>a, <1>b, <1>c, <1>e, GridHolds
<1>4. CASE CodeInv /\ NoDesigner /\ NoSql /\ NoGrid
  BY <1>4, <1>a, <1>b, <1>c, <1>d, CodeHolds
<1> QED BY <1>1, <1>2, <1>3, <1>4 DEF PartsInv

LEMMA PartsAlways == SpecOfAny => []PartsInv
<1>1. InitOfAny => PartsInv
  BY PartsInit
<1>2. PartsInv /\ [NextOfAny]_partVars => PartsInv'
  BY PartsStep
<1> QED BY <1>1, <1>2, PTL DEF SpecOfAny, partVars

\* The state of a panel, a statement or a grid is what its component builds: in
\* particular every list of rows, every statement sent and every preview.
THEOREM PartTypes == SpecOfAny => []TypesOK
<1>1. PartsInv => TypesOK
  BY PartsHold
<1> QED BY <1>1, PartsAlways, PTL

\* The statement the designer sends is about the rows and options it shows: it
\* lacks the row that is being added (add, save and cancel of the panels) and the
\* option chosen last (OptionPanel), unless rows were dragged or the addition of
\* one was given up.
THEOREM DesignSentIsShown == SpecOfAny => []SentIsShown
<1>1. PartsInv => SentIsShown
  BY PartsHold
<1> QED BY <1>1, PartsAlways, PTL

\* What is saved for a row of the designer (save, handleInputChange, the script
\* of a trigger) stays in the rows it sends, and no panel is locked by a row that
\* is edited, until the structure of the tab is taken again or a row deleted
\* while it is edited.
THEOREM DesignIsKept == SpecOfAny => []EditsAreKept
<1>1. PartsInv => EditsAreKept
  BY PartsHold
<1> QED BY <1>1, PartsAlways, PTL

\* parseCreateTableSql reads the indexes of a table as they are exactly when
\* there is one, of one column.
THEOREM IndexReadIsTable == SpecOfAny => []ReadIsTable
<1>1. PartsInv => ReadIsTable
  BY PartsHold
<1> QED BY <1>1, PartsAlways, PTL

\* Once the server has executed what deleteRow, insertRow and updateRow wrote and
\* no row waits to be saved, the grid shows the rows of the database, unless one
\* of the mishaps named happened; no row is deleted that was not selected, and a
\* row that waits can be saved.
THEOREM GridRowsAreKept == SpecOfAny => []RowsAreKept
<1>1. PartsInv => RowsAreKept
  BY PartsHold
<1> QED BY <1>1, PartsAlways, PTL

\* The preview of a view, function or procedure is of the text the editor shows,
\* save for a function whose template was deleted as a whole.
THEOREM PreviewIsOfText == SpecOfAny => []PreviewIsText
<1>1. PartsInv => PreviewIsText
  BY PartsHold
<1> QED BY <1>1, PartsAlways, PTL
=============================================================================
