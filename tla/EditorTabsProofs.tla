--------------------------- MODULE EditorTabsProofs ---------------------------
(***************************************************************************)
(* What holds of the tabs of the SQL editor, for any number of tabs, runs  *)
(* and edits and any number of mishaps.  The lists that requests and the   *)
(* dialog carry are like the list of tabs itself (ListsInv); the rest      *)
(* follows each tab through them.                                          *)
(***************************************************************************)
EXTENDS EditorTabs, SequenceTheorems, WellFoundedInduction, TLAPS

-----------------------------------------------------------------------------
\* Lists of tabs in which an identifier stands for one tab.
Lists == {s \in Seq(Obj) : \A i, j \in DOMAIN s : s[i].id = s[j].id => i = j}

\* The tab an identifier stands for.
LEMMA ListedIs ==
  ASSUME NEW s \in Lists, NEW i \in DOMAIN s
  PROVE  s[i] \in Obj /\ s[i].id \in IdsOf(s) /\ ObjOf(s, s[i].id) = s[i]
<1>1. s \in Seq(Obj) /\ \A j \in DOMAIN s : s[j].id = s[i].id => j = i
  BY DEF Lists
<1>2. \E j \in DOMAIN s : s[j].id = s[i].id
  OBVIOUS
<1>3. (CHOOSE j \in DOMAIN s : s[j].id = s[i].id) = i
  BY <1>1, <1>2
<1>4. QED  BY <1>1, <1>3 DEF IdsOf, ObjOf

LEMMA ObjIs ==
  ASSUME NEW s \in Lists, NEW id \in IdsOf(s)
  PROVE  /\ ObjOf(s, id) \in Obj /\ ObjOf(s, id).id = id
         /\ \E i \in DOMAIN s : s[i].id = id /\ s[i] = ObjOf(s, id)
<1>1. PICK i \in DOMAIN s : s[i].id = id
  BY DEF IdsOf
<1>2. QED  BY <1>1, ListedIs

\* Push: a tab is put behind a list that does not have its identifier.
LEMMA Appended ==
  ASSUME NEW s \in Lists, NEW o \in Obj, o.id \notin IdsOf(s)
  PROVE  LET t == Append(s, o) IN
         /\ t \in Lists /\ IdsOf(t) = IdsOf(s) \cup {o.id}
         /\ ObjOf(t, o.id) = o
         /\ \A id \in IdsOf(s) : ObjOf(t, id) = ObjOf(s, id)
<1> DEFINE t == Append(s, o)
<1>1. s \in Seq(Obj) /\ \A i, j \in DOMAIN s : s[i].id = s[j].id => i = j
  BY DEF Lists
<1>2. /\ t \in Seq(Obj) /\ DOMAIN s = 1..Len(s) /\ DOMAIN t = 1..(Len(s) + 1)
      /\ t[Len(s) + 1] = o /\ Len(s) \in Nat
      /\ \A i \in 1..Len(s) : t[i] = s[i]
  BY <1>1
<1> HIDE DEF t
<1>3. \A i \in DOMAIN s : s[i].id # o.id
  BY DEF IdsOf
<1>4. t \in Lists
  BY <1>1, <1>2, <1>3 DEF Lists
<1>5. IdsOf(t) = IdsOf(s) \cup {o.id}
  <2>1. ASSUME NEW x \in IdsOf(t)  PROVE x \in IdsOf(s) \cup {o.id}
    BY <1>2 DEF IdsOf
  <2>2. ASSUME NEW x \in IdsOf(s) \cup {o.id}  PROVE x \in IdsOf(t)
    BY <1>2 DEF IdsOf
  <2>3. QED  BY <2>1, <2>2
<1>6. ObjOf(t, o.id) = o
  BY <1>2, <1>4, ListedIs
<1>7. ASSUME NEW id \in IdsOf(s)  PROVE ObjOf(t, id) = ObjOf(s, id)
  <2>1. PICK i \in DOMAIN s : s[i].id = id /\ s[i] = ObjOf(s, id)
    BY ObjIs
  <2>2. QED  BY <2>1, <1>2, <1>4, ListedIs
<1>8. QED  BY <1>4, <1>5, <1>6, <1>7 DEF t

\* RemoveTab: the tab at a place is taken out.
LEMMA Removed ==
  ASSUME NEW s \in Lists, NEW p \in DOMAIN s
  PROVE  LET t == RemoveAt(s, p) IN
         /\ t \in Lists /\ IdsOf(t) = IdsOf(s) \ {s[p].id}
         /\ \A id \in IdsOf(t) : ObjOf(t, id) = ObjOf(s, id)
         /\ DOMAIN t = 1..(Len(s) - 1) /\ (p > 1 => t[p - 1] = s[p - 1])
<1> DEFINE a == SubSeq(s, 1, p - 1)
           b == SubSeq(s, p + 1, Len(s))
           t == RemoveAt(s, p)
<1>1. /\ s \in Seq(Obj) /\ p \in 1..Len(s) /\ Len(s) \in Nat /\ DOMAIN s = 1..Len(s)
      /\ \A i, j \in DOMAIN s : s[i].id = s[j].id => i = j
  BY DEF Lists
<1>2. a \in Seq(Obj) /\ Len(a) = p - 1 /\ \A j \in 1..(p - 1) : a[j] = s[j]
  BY <1>1
<1>3. b \in Seq(Obj) /\ Len(b) = Len(s) - p /\ \A j \in 1..(Len(s) - p) : b[j] = s[p + j]
  <2>1. b \in Seq(Obj)  BY <1>1
  <2>2. Len(b) = Len(s) - p  BY <1>1
  <2>3. \A j \in 1..(Len(s) - p) : b[j] = s[p + j]  BY <1>1
  <2>4. QED  BY <2>1, <2>2, <2>3
<1>4. t = a \o b
  BY DEF RemoveAt
<1> HIDE DEF a, b
<1> HIDE DEF t
<1>5. t \in Seq(Obj) /\ Len(t) = Len(s) - 1 /\ DOMAIN t = 1..(Len(s) - 1)
  <2>1. t \in Seq(Obj) /\ Len(t) = Len(a) + Len(b)
    BY <1>2, <1>3, <1>4, ConcatProperties
  <2>2. QED  BY <2>1, <1>1, <1>2, <1>3
<1>6. ASSUME NEW j \in 1..(Len(s) - 1)  PROVE t[j] = IF j < p THEN s[j] ELSE s[j + 1]
  <2>1. t[j] = IF j <= Len(a) THEN a[j] ELSE b[j - Len(a)]
    BY <1>1, <1>2, <1>3, <1>4, ConcatProperties
  <2>2. CASE j < p
    BY <2>1, <2>2, <1>1, <1>2
  <2>3. CASE ~(j < p)
    <3>1. j - (p - 1) \in 1..(Len(s) - p) /\ p + (j - (p - 1)) = j + 1
      BY <2>3, <1>1
    <3>2. QED  BY <2>1, <2>3, <3>1, <1>1, <1>2, <1>3
  <2>4. QED  BY <2>2, <2>3
<1>7. t \in Lists
  <2>1. ASSUME NEW i \in DOMAIN t, NEW j \in DOMAIN t, t[i].id = t[j].id
        PROVE  i = j
    <3> DEFINE place(k) == IF k < p THEN k ELSE k + 1
    <3>1. i \in 1..(Len(s) - 1) /\ j \in 1..(Len(s) - 1)
      BY <1>5
    <3>2. place(i) \in DOMAIN s /\ place(j) \in DOMAIN s
      BY <3>1, <1>1
    <3>3. t[i] = s[place(i)] /\ t[j] = s[place(j)]
      BY <3>1, <1>6
    <3>4. place(i) = place(j)
      BY <1>1, <2>1, <3>2, <3>3
    <3>5. QED  BY <1>1, <3>1, <3>4
  <2>2. QED  BY <2>1, <1>5 DEF Lists
<1>8. ASSUME NEW x \in IdsOf(t)  PROVE x \in IdsOf(s) \ {s[p].id} /\ ObjOf(t, x) = ObjOf(s, x)
  <2>1. PICK j \in DOMAIN t : t[j].id = x /\ t[j] = ObjOf(t, x)
    BY <1>7, ObjIs
  <2>2. PICK k \in DOMAIN s : k # p /\ s[k] = t[j]
    BY <1>1, <1>5, <1>6, <2>1
  <2>3. QED  BY <1>1, <2>1, <2>2, ListedIs
<1>9. ASSUME NEW x \in IdsOf(s) \ {s[p].id}  PROVE x \in IdsOf(t)
  <2>1. PICK k \in DOMAIN s : s[k].id = x
    BY DEF IdsOf
  <2>2. \E j \in DOMAIN t : t[j] = s[k]
    <3>1. CASE k < p
      BY <3>1, <1>1, <1>5, <1>6
    <3>2. CASE k > p
      <4>1. k - 1 \in 1..(Len(s) - 1) /\ t[k - 1] = s[k]
        BY <3>2, <1>1, <1>6
      <4>2. QED  BY <4>1, <1>5
    <3>3. QED  BY <1>1, <2>1, <3>1, <3>2
  <2>3. QED  BY <2>1, <2>2 DEF IdsOf
<1>10. p > 1 => t[p - 1] = s[p - 1]
  BY <1>1, <1>6
<1>11. QED  BY <1>5, <1>7, <1>8, <1>9, <1>10 DEF t

\* Drag: two neighbours change places.
LEMMA Dragged ==
  ASSUME NEW s \in Lists, NEW p \in DOMAIN s, p + 1 \in DOMAIN s
  PROVE  LET t == [s EXCEPT ![p] = s[p + 1], ![p + 1] = s[p]] IN
         /\ t \in Lists /\ IdsOf(t) = IdsOf(s)
         /\ \A id \in IdsOf(s) : ObjOf(t, id) = ObjOf(s, id)
<1> DEFINE t == [s EXCEPT ![p] = s[p + 1], ![p + 1] = s[p]]
           from(k) == IF k = p THEN p + 1 ELSE IF k = p + 1 THEN p ELSE k
<1>1. /\ s \in Seq(Obj) /\ p \in 1..Len(s) /\ p + 1 \in 1..Len(s) /\ Len(s) \in Nat
      /\ DOMAIN s = 1..Len(s) /\ \A i, j \in DOMAIN s : s[i].id = s[j].id => i = j
  BY DEF Lists
<1>2. DOMAIN t = DOMAIN s /\ \A k \in DOMAIN s : t[k] = s[from(k)]
  BY <1>1
<1>3. \A k \in DOMAIN s : from(k) \in DOMAIN s /\ from(from(k)) = k
  BY <1>1
<1>4. t \in Seq(Obj)
  <2>1. \A k \in DOMAIN s : s[k] \in Obj
    BY <1>1
  <2>2. \A k \in 1..Len(s) : t[k] \in Obj
    BY <1>1, <1>2, <1>3, <2>1
  <2>3. t = [k \in 1..Len(s) |-> t[k]]
    BY <1>1
  <2> HIDE DEF t
  <2>4. QED  BY <1>1, <2>2, <2>3
<1> HIDE DEF t, from
<1>5. t \in Lists
  BY <1>1, <1>2, <1>3, <1>4 DEF Lists
<1>6. IdsOf(t) = IdsOf(s)
  <2>1. ASSUME NEW x \in IdsOf(t)  PROVE x \in IdsOf(s)
    BY <1>2, <1>3 DEF IdsOf
  <2>2. ASSUME NEW x \in IdsOf(s)  PROVE x \in IdsOf(t)
    <3>1. PICK k \in DOMAIN s : s[k].id = x
      BY DEF IdsOf
    <3>2. from(k) \in DOMAIN t /\ t[from(k)] = s[k]
      BY <1>2, <1>3
    <3>3. QED  BY <3>1, <3>2 DEF IdsOf
  <2>3. QED  BY <2>1, <2>2
<1>7. ASSUME NEW id \in IdsOf(s)  PROVE ObjOf(t, id) = ObjOf(s, id)
  <2>1. PICK k \in DOMAIN s : s[k].id = id /\ s[k] = ObjOf(s, id)
    BY ObjIs
  <2>2. from(k) \in DOMAIN t /\ t[from(k)] = s[k]
    BY <1>2, <1>3
  <2>3. QED  BY <1>5, <2>1, <2>2, ListedIs
<1>8. QED  BY <1>5, <1>6, <1>7 DEF t

\* CopyActive: a tab takes the place of the one with its identifier.
LEMMA Copied ==
  ASSUME NEW s \in Lists, NEW o \in Obj, o.id \in IdsOf(s)
  PROVE  LET t == [i \in DOMAIN s |-> IF s[i].id = o.id THEN o ELSE s[i]] IN
         /\ t \in Lists /\ IdsOf(t) = IdsOf(s)
         /\ \A id \in IdsOf(s) : ObjOf(t, id) = IF id = o.id THEN o ELSE ObjOf(s, id)
<1> DEFINE t == [i \in DOMAIN s |-> IF s[i].id = o.id THEN o ELSE s[i]]
<1>1. /\ s \in Seq(Obj) /\ Len(s) \in Nat /\ DOMAIN s = 1..Len(s)
      /\ \A i, j \in DOMAIN s : s[i].id = s[j].id => i = j
  BY DEF Lists
<1>2. DOMAIN t = DOMAIN s /\ \A k \in DOMAIN s : t[k].id = s[k].id
  BY <1>1
<1>3. t \in Seq(Obj)
  BY <1>1
<1>4. t \in Lists
  BY <1>1, <1>2, <1>3 DEF Lists
<1>5. IdsOf(t) = IdsOf(s)
  <2>1. IdsOf(t) = {t[k].id : k \in DOMAIN s}
    BY <1>2 DEF IdsOf
  <2>2. \A x : x \in {t[k].id : k \in DOMAIN s} <=> x \in {s[k].id : k \in DOMAIN s}
    BY <1>2
  <2>3. QED  BY <2>1, <2>2 DEF IdsOf
<1>6. ASSUME NEW id \in IdsOf(s)
      PROVE  ObjOf(t, id) = IF id = o.id THEN o ELSE ObjOf(s, id)
  <2>1. PICK k \in DOMAIN s : s[k].id = id /\ s[k] = ObjOf(s, id)
    BY ObjIs
  <2>2. ObjOf(t, t[k].id) = t[k]
    BY <1>2, <1>4, ListedIs
  <2>3. t[k] = IF id = o.id THEN o ELSE ObjOf(s, id)
    BY <2>1
  <2>4. QED  BY <1>2, <2>1, <2>2, <2>3
<1>7. QED  BY <1>4, <1>5, <1>6

\* RemoveTab, whichever list and tab the closure saw.
LEMMA RemoveIs ==
  ASSUME NEW id \in Ids, NEW s \in Lists, NEW a \in Ids, RemoveTab(id, s, a)
  PROVE  /\ tabs' \in Lists /\ IdsOf(tabs') = IdsOf(s) \ {id} /\ active' \in Ids
         /\ \A x \in IdsOf(tabs') : ObjOf(tabs', x) = ObjOf(s, x)
         /\ a \in IdsOf(s) /\ tabs' # <<>> => active' \in IdsOf(tabs')
<1> DEFINE pos == CHOOSE i \in DOMAIN s : s[i].id = id
           known == id \in IdsOf(s)
           left == IF known THEN RemoveAt(s, pos) ELSE s
<1>1. /\ tabs' = left
      /\ active' = IF left = <<>> \/ a # id THEN a
                   ELSE IF known /\ pos > 1 THEN left[pos - 1].id ELSE left[1].id
  BY DEF RemoveTab
<1>2. known => pos \in DOMAIN s /\ s[pos].id = id
  BY DEF IdsOf
<1>3. /\ left \in Lists /\ IdsOf(left) = IdsOf(s) \ {id}
      /\ \A x \in IdsOf(left) : ObjOf(left, x) = ObjOf(s, x)
      /\ known => DOMAIN left = 1..(Len(s) - 1)
  BY <1>2, Removed
<1>4. s \in Seq(Obj) /\ DOMAIN s = 1..Len(s) /\ Len(s) \in Nat
  BY DEF Lists
<1> HIDE DEF left, pos
<1>5. left # <<>> => 1 \in DOMAIN left
  BY <1>3 DEF Lists
<1>6. known /\ left # <<>> /\ pos > 1 => pos - 1 \in DOMAIN left
  BY <1>2, <1>3, <1>4
<1>7. \A i \in DOMAIN left : left[i].id \in IdsOf(left) /\ left[i].id \in Ids
  BY <1>3, ListedIs DEF Obj
<1>8. active' \in Ids
  BY <1>1, <1>5, <1>6, <1>7
<1>9. a \in IdsOf(s) /\ left # <<>> => active' \in IdsOf(left)
  BY <1>1, <1>3, <1>5, <1>6, <1>7
<1>10. QED  BY <1>1, <1>3, <1>8, <1>9

-----------------------------------------------------------------------------
(***************************************************************************)
(* Types, and which identifiers lists can hold: those given out, or those  *)
(* of tables.                                                              *)
(***************************************************************************)
StateOK ==
  /\ tabs \in Lists /\ IdsOf(tabs) \subseteq used \cup Tables /\ active \in Ids
  /\ text \in [Obj -> 0..MaxEdit] /\ sel \in [Obj -> 0..MaxEdit]
  /\ arr \in [Obj -> 1..MaxArr] /\ list \in [1..MaxArr -> Seq(Item)]
  /\ gen \in 1..MaxGen /\ arrays \in 1..MaxArr
ListsInv ==
  /\ used \subseteq Ids /\ First \in used
  /\ \A s \in adds : s \in Lists /\ IdsOf(s) \subseteq used \cup Tables
  /\ dialog = NoDialog \/ /\ dialog \in Dialog /\ dialog.tabs \in Lists
                          /\ IdsOf(dialog.tabs) \subseteq used \cup Tables
                          /\ dialog.id \in IdsOf(dialog.tabs)
NetOK == asked \in BOOLEAN /\ pending \subseteq Req /\ wire \in Seq(Req)
CountOK ==
  /\ runs \in 0..MaxRun /\ edits \in 0..MaxEdit /\ crashed \in BOOLEAN
  /\ wrote \in [Ids -> 0..MaxEdit] /\ lastRun \in [Ids -> 0..MaxRun]
  /\ opened \subseteq Ids /\ harm \subseteq Harms
\* Text that is still typed is that of an editor on the page, and an editor shows
\* the active tab; the object an editor was put on the page with was of its tab.
ScreenOK ==
  /\ typing \in [tab : Ids, sql : 0..MaxEdit] /\ hurried \in BOOLEAN
  /\ mounted \in [IdsOf(tabs) -> Obj] /\ \A id \in IdsOf(tabs) : mounted[id].id = id
  /\ typing # Settled => /\ {typing.tab, active} \subseteq IdsOf(tabs)
                         /\ TypeOf(active) = "editor"

TabsInv == StateOK /\ ListsInv /\ NetOK /\ CountOK /\ ScreenOK

LEMMA InvGivesTypes == TabsInv => TypeOK /\ OneTabPerId
BY DEF TabsInv, StateOK, ListsInv, NetOK, CountOK, ScreenOK, TypeOK, OneTabPerId, Lists,
       OpenIds

\* The bounds, one by one.
LEMMA Bounds ==
  /\ MaxGen \in Nat \ {0} /\ MaxArr \in Nat \ {0} /\ MaxStmt \in Nat \ {0}
  /\ MaxRun \in Nat /\ MaxEdit \in Nat /\ MaxHarm \in Nat
BY BoundsOK

LEMMA OneIsList == ASSUME NEW o \in Obj PROVE <<o>> \in Lists /\ IdsOf(<<o>>) = {o.id}
BY DEF Lists, IdsOf

LEMMA EmptyIsList == <<>> \in Lists /\ IdsOf(<<>>) = {}
BY DEF Lists, IdsOf

LEMMA InitTabs == Init => TabsInv
<1> SUFFICES ASSUME Init PROVE TabsInv
  OBVIOUS
<1> DEFINE o == [id |-> First, gen |-> 1]
<1>1. o \in Obj /\ o.id = First /\ First \in Ids
  BY Bounds DEF Obj, Ids
<1>2. tabs = <<o>> /\ mounted = [x \in {First} |-> o]
  BY DEF Init
<1> HIDE DEF o
<1>3. tabs \in Lists /\ IdsOf(tabs) = {First}
  BY <1>1, <1>2, OneIsList
<1>4. StateOK
  <2>1. <<>> \in Seq(Item)
    OBVIOUS
  <2>2. QED  BY <1>1, <1>3, <2>1, Bounds DEF Init, StateOK
<1>5. ListsInv /\ NetOK
  BY <1>1 DEF Init, ListsInv, NetOK
<1>6. CountOK
  <2>1. /\ runs = 0 /\ edits = 0 /\ crashed = FALSE /\ harm = {} /\ opened = {First}
        /\ wrote = [x \in Ids |-> 0] /\ lastRun = [x \in Ids |-> 0]
    BY DEF Init
  <2>2. 0 \in 0..MaxRun /\ 0 \in 0..MaxEdit
    BY Bounds
  <2>3. QED  BY <1>1, <2>1, <2>2 DEF CountOK
<1>7. ScreenOK
  <2>1. typing = Settled /\ hurried = FALSE
    BY DEF Init
  <2>2. Settled \in [tab : Ids, sql : 0..MaxEdit]
    BY <1>1, Bounds DEF Settled
  <2>3. QED  BY <1>1, <1>2, <1>3, <2>1, <2>2 DEF ScreenOK
<1>8. QED  BY <1>4, <1>5, <1>6, <1>7 DEF TabsInv

\* Push, as a whole: o is the new tab.
LEMMA PushIs ==
  ASSUME StateOK, NEW s \in Lists, NEW id \in Ids, id \notin IdsOf(s), Push(s, id)
  PROVE  /\ gen' \in 1..MaxGen /\ arrays' = arrays + 1 /\ arrays' \in 1..MaxArr
         /\ list' = list /\ active' = id /\ wrote' = [wrote EXCEPT ![id] = 0]
         /\ \E o \in Obj :
              /\ o.id = id /\ ObjOf(tabs', id) = o
              /\ tabs' \in Lists /\ IdsOf(tabs') = IdsOf(s) \cup {id} /\ tabs' # <<>>
              /\ \A x \in IdsOf(s) : ObjOf(tabs', x) = ObjOf(s, x)
              /\ text' = [text EXCEPT ![o] = 0] /\ sel' = [sel EXCEPT ![o] = 0]
              /\ arr' = [arr EXCEPT ![o] = arrays + 1]
<1> DEFINE o == [id |-> id, gen |-> gen + 1]
<1>1. /\ gen < MaxGen /\ arrays < MaxArr /\ gen' = gen + 1 /\ arrays' = arrays + 1
      /\ list' = list /\ active' = id /\ wrote' = [wrote EXCEPT ![id] = 0]
      /\ tabs' = Append(s, o) /\ text' = [text EXCEPT ![o] = 0]
      /\ sel' = [sel EXCEPT ![o] = 0] /\ arr' = [arr EXCEPT ![o] = arrays + 1]
  BY DEF Push
<1>2. gen + 1 \in 1..MaxGen /\ arrays + 1 \in 1..MaxArr
  BY <1>1, Bounds DEF StateOK
<1>3. o \in Obj /\ o.id = id
  BY <1>2 DEF Obj
<1> HIDE DEF o
<1>4. /\ tabs' \in Lists /\ IdsOf(tabs') = IdsOf(s) \cup {id} /\ ObjOf(tabs', id) = o
      /\ \A x \in IdsOf(s) : ObjOf(tabs', x) = ObjOf(s, x)
  BY <1>1, <1>3, Appended
<1>5. tabs' # <<>>
  BY <1>4, EmptyIsList
<1>6. QED  BY <1>1, <1>2, <1>3, <1>4, <1>5

LEMMA PushTypes ==
  ASSUME StateOK, NEW s \in Lists, NEW id \in Ids, id \notin IdsOf(s), Push(s, id),
         IdsOf(s) \cup {id} \subseteq used' \cup Tables, CountOK
  PROVE  StateOK' /\ wrote' \in [Ids -> 0..MaxEdit]
<1>1. PICK o \in Obj :
        /\ tabs' \in Lists /\ IdsOf(tabs') = IdsOf(s) \cup {id}
        /\ text' = [text EXCEPT ![o] = 0] /\ sel' = [sel EXCEPT ![o] = 0]
        /\ arr' = [arr EXCEPT ![o] = arrays + 1]
  BY PushIs
<1>2. /\ gen' \in 1..MaxGen /\ arrays' = arrays + 1 /\ arrays' \in 1..MaxArr
      /\ list' = list /\ active' = id /\ wrote' = [wrote EXCEPT ![id] = 0]
  BY PushIs
<1>3. 0 \in 0..MaxEdit
  BY Bounds
<1>4. /\ text' \in [Obj -> 0..MaxEdit] /\ sel' \in [Obj -> 0..MaxEdit]
      /\ arr' \in [Obj -> 1..MaxArr] /\ list' \in [1..MaxArr -> Seq(Item)]
  BY <1>1, <1>2, <1>3 DEF StateOK
<1>5. QED  BY <1>1, <1>2, <1>3, <1>4 DEF StateOK, CountOK

\* CopyActive, as a whole: o is the copy.
LEMMA CopyIs ==
  ASSUME StateOK, active \in IdsOf(tabs), CopyActive
  PROVE  /\ gen' \in 1..MaxGen /\ active' = active /\ list' = list /\ arrays' = arrays
         /\ \E o \in Obj :
              /\ o.id = active
              /\ tabs' \in Lists /\ IdsOf(tabs') = IdsOf(tabs)
              /\ \A x \in IdsOf(tabs) : ObjOf(tabs', x) = IF x = active THEN o ELSE ObjOf(tabs, x)
              /\ text' = [text EXCEPT ![o] = text[ObjOf(tabs, active)]]
              /\ sel' = [sel EXCEPT ![o] = sel[ObjOf(tabs, active)]]
              /\ arr' = [arr EXCEPT ![o] = arr[ObjOf(tabs, active)]]
<1> DEFINE o == [id |-> active, gen |-> gen + 1]
<1>1. /\ gen < MaxGen /\ gen' = gen + 1 /\ active' = active /\ list' = list /\ arrays' = arrays
      /\ tabs' = [i \in DOMAIN tabs |-> IF tabs[i].id = active THEN o ELSE tabs[i]]
      /\ text' = [text EXCEPT ![o] = text[ObjOf(tabs, active)]]
      /\ sel' = [sel EXCEPT ![o] = sel[ObjOf(tabs, active)]]
      /\ arr' = [arr EXCEPT ![o] = arr[ObjOf(tabs, active)]]
  BY DEF CopyActive, Active
<1>2. gen + 1 \in 1..MaxGen
  BY <1>1, Bounds DEF StateOK
<1>3. o \in Obj /\ o.id = active
  BY <1>2 DEF Obj, StateOK
<1> HIDE DEF o
<1>4. /\ tabs' \in Lists /\ IdsOf(tabs') = IdsOf(tabs)
      /\ \A x \in IdsOf(tabs) : ObjOf(tabs', x) = IF x = active THEN o ELSE ObjOf(tabs, x)
  <2>1. tabs' = [i \in DOMAIN tabs |-> IF tabs[i].id = o.id THEN o ELSE tabs[i]]
    BY <1>1, <1>3
  <2>2. tabs \in Lists /\ o.id \in IdsOf(tabs)
    BY <1>3 DEF StateOK
  <2>3. QED  BY <1>3, <2>1, <2>2, Copied
<1>5. QED  BY <1>1, <1>2, <1>3, <1>4

LEMMA CopyTypes ==
  ASSUME StateOK, active \in IdsOf(tabs), CopyActive, used' = used
  PROVE  StateOK'
<1>1. PICK o \in Obj :
        /\ tabs' \in Lists /\ IdsOf(tabs') = IdsOf(tabs)
        /\ text' = [text EXCEPT ![o] = text[ObjOf(tabs, active)]]
        /\ sel' = [sel EXCEPT ![o] = sel[ObjOf(tabs, active)]]
        /\ arr' = [arr EXCEPT ![o] = arr[ObjOf(tabs, active)]]
  BY CopyIs
<1>2. gen' \in 1..MaxGen /\ active' = active /\ list' = list /\ arrays' = arrays
  BY CopyIs
<1>3. ObjOf(tabs, active) \in Obj
  BY ObjIs DEF StateOK
<1>4. /\ text' \in [Obj -> 0..MaxEdit] /\ sel' \in [Obj -> 0..MaxEdit]
      /\ arr' \in [Obj -> 1..MaxArr] /\ list' \in [1..MaxArr -> Seq(Item)]
  BY <1>1, <1>2, <1>3 DEF StateOK
<1>5. QED  BY <1>1, <1>2, <1>4 DEF StateOK

\* What the user does with the tabs.
LEMMA DeedTypes ==
  ASSUME TabsInv, Deed
  PROVE  StateOK' /\ ListsInv' /\ NetOK' /\ CountOK'
<1> USE DEF TabsInv
<1>0. First \in Ids /\ Fresh \subseteq Ids /\ Tables \subseteq Ids /\ Fresh \cap Tables = {}
  BY IdsDistinct DEF Ids
<1>1. ASSUME NEW f \in Fresh, FirstId(f)  PROVE StateOK' /\ ListsInv' /\ NetOK' /\ CountOK'
  <2>1. f \notin used /\ used' = used \cup {f} /\ Push(<<>>, f)
    BY <1>1 DEF FirstId
  <2>2. StateOK' /\ wrote' \in [Ids -> 0..MaxEdit]
    BY <1>0, <2>1, EmptyIsList, PushTypes
  <2>3. ListsInv'
    BY <1>0, <1>1, <2>1 DEF FirstId, ListsInv
  <2>4. NetOK' /\ CountOK'
    BY <1>0, <1>1, <2>2 DEF FirstId, NetOK, CountOK, count, Harms
  <2>5. QED  BY <2>2, <2>3, <2>4
<1>2. ASSUME AddTab  PROVE StateOK' /\ ListsInv' /\ NetOK' /\ CountOK'
  BY <1>2 DEF AddTab, StateOK, ListsInv, NetOK, CountOK, state, count, hist
<1>3. ASSUME NEW s \in adds, NEW f \in Fresh, GotId(s, f)
      PROVE  StateOK' /\ ListsInv' /\ NetOK' /\ CountOK'
  <2>1. f \notin used /\ used' = used \cup {f} /\ Push(s, f)
    BY <1>3 DEF GotId
  <2>2. s \in Lists /\ f \notin IdsOf(s) /\ IdsOf(s) \cup {f} \subseteq used' \cup Tables
    BY <1>0, <2>1 DEF ListsInv
  <2>3. StateOK' /\ wrote' \in [Ids -> 0..MaxEdit]
    BY <1>0, <2>1, <2>2, PushTypes
  <2>4. ListsInv'
    BY <1>0, <1>3, <2>1 DEF GotId, ListsInv
  <2>5. NetOK' /\ CountOK'
    BY <1>0, <1>3, <2>3 DEF GotId, NetOK, CountOK, count, Harms
  <2>6. QED  BY <2>3, <2>4, <2>5
<1>4. ASSUME NEW k \in Tables, OpenTable(k)
      PROVE  StateOK' /\ ListsInv' /\ NetOK' /\ CountOK'
  <2>1. UNCHANGED net /\ UNCHANGED <<count, lastRun, harm>> /\ opened' = opened \cup {k}
    BY <1>4 DEF OpenTable
  <2>2. StateOK' /\ wrote' \in [Ids -> 0..MaxEdit]
    <3>1. CASE k \in OpenIds
      BY <1>0, <1>4, <2>1, <3>1 DEF OpenTable, StateOK, CountOK, net
    <3>2. CASE k \notin OpenIds
      <4>1. Push(tabs, k)
        BY <1>4, <3>2 DEF OpenTable
      <4>2. tabs \in Lists /\ k \notin IdsOf(tabs) /\ IdsOf(tabs) \cup {k} \subseteq used' \cup Tables
        BY <2>1, <3>2 DEF StateOK, OpenIds, net
      <4>3. QED  BY <1>0, <4>1, <4>2, PushTypes
    <3>3. QED  BY <3>1, <3>2
  <2>3. ListsInv' /\ NetOK'
    BY <2>1 DEF ListsInv, NetOK, net
  <2>4. CountOK'
    BY <1>0, <2>1, <2>2 DEF CountOK, count
  <2>5. QED  BY <2>2, <2>3, <2>4
<1>5. ASSUME NEW id \in Ids, Switch(id)  PROVE StateOK' /\ ListsInv' /\ NetOK' /\ CountOK'
  BY <1>5 DEF Switch, StateOK, ListsInv, NetOK, CountOK, net, count, hist
<1>6. ASSUME NEW id \in Ids, CloseTab(id)  PROVE StateOK' /\ ListsInv' /\ NetOK' /\ CountOK'
  <2>1. UNCHANGED <<text, sel, arr, list, gen, arrays, asked, adds, pending, wire, used, count>>
    BY <1>6 DEF CloseTab
  <2>2. CASE text[ObjOf(tabs, id)] # 0
    <3>1. /\ UNCHANGED <<tabs, active, hist>> /\ id \in IdsOf(tabs)
          /\ dialog' = [what |-> "close", id |-> id, tabs |-> tabs, active |-> active]
      BY <1>6, <2>2 DEF CloseTab, OpenIds
    <3>2. dialog' \in Dialog /\ dialog'.tabs = tabs /\ dialog'.id = id
      BY <3>1 DEF Dialog, StateOK, Lists
    <3>3. StateOK' /\ NetOK' /\ CountOK'
      BY <2>1, <3>1 DEF StateOK, NetOK, CountOK, hist, count
    <3>4. ListsInv'
      BY <2>1, <3>1, <3>2 DEF StateOK, ListsInv
    <3>5. QED  BY <3>3, <3>4
  <2>3. CASE text[ObjOf(tabs, id)] = 0
    <3>1. RemoveTab(id, tabs, active) /\ UNCHANGED <<dialog, wrote, lastRun>>
          /\ opened' \subseteq opened /\ harm' \subseteq harm \cup {"orphaned"}
      BY <1>6, <2>3 DEF CloseTab
    <3>2. tabs' \in Lists /\ IdsOf(tabs') \subseteq IdsOf(tabs) /\ active' \in Ids
      BY <3>1, RemoveIs DEF StateOK
    <3>3. StateOK' /\ ListsInv' /\ NetOK'
      BY <2>1, <3>1, <3>2 DEF StateOK, ListsInv, NetOK
    <3>4. CountOK'
      BY <2>1, <3>1 DEF CountOK, count, Harms
    <3>5. QED  BY <3>3, <3>4
  <2>4. QED  BY <2>2, <2>3
<1>7. ASSUME NEW i \in 1..MaxGen, Drag(i)  PROVE StateOK' /\ ListsInv' /\ NetOK' /\ CountOK'
  <2>1. tabs' \in Lists /\ IdsOf(tabs') = IdsOf(tabs)
    BY <1>7, Dragged DEF Drag, StateOK
  <2>2. QED  BY <1>7, <2>1 DEF Drag, StateOK, ListsInv, NetOK, CountOK, net, count, hist
<1>8. ASSUME MenuClose \/ AskReset  PROVE StateOK' /\ ListsInv' /\ NetOK' /\ CountOK'
  <2>1. /\ UNCHANGED <<state, asked, adds, pending, wire, used, count, hist>>
        /\ active \in IdsOf(tabs)
        /\ \E what \in {"close", "reset"} :
             dialog' = [what |-> what, id |-> active, tabs |-> tabs, active |-> active]
    BY <1>8 DEF MenuClose, AskReset, OnTab, OpenIds
  <2>2. dialog' \in Dialog /\ dialog'.tabs = tabs /\ dialog'.id = active
    BY <2>1 DEF Dialog, StateOK, Lists
  <2>3. StateOK' /\ NetOK' /\ CountOK'
    BY <2>1 DEF StateOK, NetOK, CountOK, state, hist, count
  <2>4. ListsInv'
    BY <2>1, <2>2 DEF StateOK, ListsInv, state
  <2>5. QED  BY <2>3, <2>4
<1>9. ASSUME NEW yes \in BOOLEAN, Answer(yes)  PROVE StateOK' /\ ListsInv' /\ NetOK' /\ CountOK'
  <2>1. /\ dialog # NoDialog /\ dialog' = NoDialog
        /\ UNCHANGED <<sel, arr, list, gen, arrays, asked, adds, pending, wire, used,
                       count, lastRun>>
    BY <1>9 DEF Answer
  <2>2. /\ dialog.tabs \in Lists /\ IdsOf(dialog.tabs) \subseteq used \cup Tables
        /\ dialog.id \in Ids /\ dialog.active \in Ids /\ dialog.id \in IdsOf(dialog.tabs)
    BY <2>1 DEF ListsInv, Dialog
  <2>3. /\ tabs' \in Lists /\ IdsOf(tabs') \subseteq IdsOf(dialog.tabs) /\ active' \in Ids
        /\ text' \in [Obj -> 0..MaxEdit] /\ wrote' \in [Ids -> 0..MaxEdit] /\ opened' \subseteq opened
    <3>1. CASE dialog.what = "close"
      <4>1. RemoveTab(dialog.id, dialog.tabs, dialog.active) /\ text' = text /\ wrote' = wrote
            /\ opened' \subseteq opened
        BY <1>9, <3>1 DEF Answer
      <4>2. tabs' \in Lists /\ IdsOf(tabs') \subseteq IdsOf(dialog.tabs) /\ active' \in Ids
        BY <2>2, <4>1, RemoveIs
      <4>3. QED  BY <4>1, <4>2 DEF StateOK, CountOK
    <3>2. CASE dialog.what # "close"
      <4>1. /\ tabs' = dialog.tabs /\ active' = active /\ opened' = opened
            /\ text' = [text EXCEPT ![ObjOf(dialog.tabs, dialog.id)] = 0]
            /\ wrote' = IF yes THEN [wrote EXCEPT ![dialog.id] = 0] ELSE wrote
        BY <1>9, <3>2 DEF Answer
      <4>2. 0 \in 0..MaxEdit
        BY Bounds
      <4>3. text' \in [Obj -> 0..MaxEdit] /\ wrote' \in [Ids -> 0..MaxEdit]
        BY <4>1, <4>2 DEF StateOK, CountOK
      <4>4. QED  BY <2>2, <4>1, <4>3 DEF StateOK
    <3>3. QED  BY <3>1, <3>2
  <2>4. StateOK' /\ ListsInv' /\ NetOK'
    BY <2>1, <2>2, <2>3 DEF StateOK, ListsInv, NetOK
  <2>5. harm' \subseteq Harms
    BY <1>9 DEF Answer, CountOK, Harms
  <2>6. CountOK'
    BY <2>1, <2>3, <2>5 DEF CountOK, count
  <2>7. QED  BY <2>4, <2>6
<1>10. ASSUME Select  PROVE StateOK' /\ ListsInv' /\ NetOK' /\ CountOK'
  <2>1. /\ UNCHANGED <<tabs, active, text, arr, list, gen, arrays, net, count, hist>>
        /\ active \in IdsOf(tabs) /\ sel' = [sel EXCEPT ![mounted[active]] = Shown(active)]
    BY <1>10 DEF Select, OnTab, OpenIds
  <2>2. Shown(active) \in 0..MaxEdit
    BY <2>1, ObjIs DEF StateOK, ScreenOK, Shown
  <2>3. sel' \in [Obj -> 0..MaxEdit]
    BY <2>1, <2>2 DEF StateOK
  <2>4. QED  BY <2>1, <2>3 DEF StateOK, ListsInv, NetOK, CountOK, net, count, hist
<1>11. ASSUME Format \/ PickDatabase  PROVE StateOK' /\ ListsInv' /\ NetOK' /\ CountOK'
  <2>1. active \in IdsOf(tabs) /\ CopyActive /\ UNCHANGED <<net, count, hist>>
    BY <1>11 DEF Format, PickDatabase, OnTab, OpenIds
  <2>2. StateOK'
    BY <2>1, CopyTypes DEF net
  <2>3. QED  BY <2>1, <2>2 DEF ListsInv, NetOK, CountOK, net, count, hist
<1>12. ASSUME NEW k \in 1..MaxStmt, RunQuery(k)
       PROVE  StateOK' /\ ListsInv' /\ NetOK' /\ CountOK'
  <2> DEFINE stmt(n) == [tab |-> active, page |-> FALSE, n |-> n, run |-> runs + 1,
                         sql |-> What, shown |-> Shown(active)]
  <2>1. /\ active \in IdsOf(tabs) /\ FreshResults /\ runs + k <= MaxRun /\ runs' = runs + k
        /\ wire' = Append(wire, stmt(1)) /\ pending' = pending \cup {stmt(n) : n \in 2..k}
        /\ lastRun' = [lastRun EXCEPT ![active] = runs + 1]
        /\ harm' \subseteq harm \cup {"rerun"}
        /\ UNCHANGED <<tabs, active, text, sel, list, gen, asked, adds, dialog, used,
                       edits, crashed, wrote, opened>>
    BY <1>12 DEF RunQuery, OnTab, OpenIds
  <2>2. ObjOf(tabs, active) \in Obj
    BY <2>1, ObjIs DEF StateOK
  <2>3. What \in 0..MaxEdit /\ Shown(active) \in 0..MaxEdit
    BY <2>2 DEF StateOK, ScreenOK, What, Shown, Active
  <2>4. runs + 1 \in 0..MaxRun /\ runs' \in 0..MaxRun
    BY <2>1, Bounds DEF CountOK
  <2>5. ASSUME NEW n \in 1..MaxStmt  PROVE stmt(n) \in Req
    BY <2>3, <2>4 DEF Req, StateOK
  <2>6. 1 \in 1..MaxStmt /\ 2..k \subseteq 1..MaxStmt
    BY Bounds
  <2>7. NetOK'
    <3>1. wire' \in Seq(Req)
      <4>1. stmt(1) \in Req
        BY <2>5, <2>6
      <4> HIDE DEF stmt
      <4>2. QED  BY <2>1, <4>1 DEF NetOK
    <3>2. pending' \subseteq Req
      <4>1. \A n \in 2..k : stmt(n) \in Req
        BY <2>5, <2>6
      <4> HIDE DEF stmt
      <4>2. QED  BY <2>1, <4>1 DEF NetOK
    <3>3. QED  BY <2>1, <3>1, <3>2 DEF NetOK
  <2>8. StateOK'
    <3>1. /\ arrays' = arrays + 1 /\ arrays < MaxArr
          /\ arr' = [arr EXCEPT ![ObjOf(tabs, active)] = arrays + 1]
      BY <2>1 DEF FreshResults, Active
    <3>2. arrays' \in 1..MaxArr
      BY <3>1, Bounds DEF StateOK
    <3>3. arr' \in [Obj -> 1..MaxArr]
      BY <2>2, <3>1, <3>2 DEF StateOK
    <3>4. QED  BY <2>1, <3>2, <3>3 DEF StateOK
  <2>9. ListsInv'
    BY <2>1 DEF ListsInv
  <2>10. CountOK'
    BY <2>1, <2>4 DEF CountOK, Harms
  <2>11. QED  BY <2>7, <2>8, <2>9, <2>10
<1>13. ASSUME NEW turned \in BOOLEAN, Ask(turned)
       PROVE  StateOK' /\ ListsInv' /\ NetOK' /\ CountOK'
  <2> DEFINE r == [tab |-> active, page |-> turned /\ TypeOf(active) = "editor", n |-> 1,
                   run |-> runs + 1, sql |-> text[Active], shown |-> text[Active]]
  <2>1. /\ active \in IdsOf(tabs) /\ runs < MaxRun /\ runs' = runs + 1
        /\ wire' = Append(wire, r)
        /\ lastRun' = IF TypeOf(active) = "editor" THEN lastRun
                      ELSE [lastRun EXCEPT ![active] = runs + 1]
        /\ harm' \subseteq harm \cup {"rerun", "paged"}
        /\ UNCHANGED <<state, asked, adds, dialog, pending, used, edits, crashed,
                       wrote, opened>>
    BY <1>13 DEF Ask, OnTab, OpenIds
  <2>2. text[Active] \in 0..MaxEdit
    BY <2>1, ObjIs DEF StateOK, Active
  <2>3. runs + 1 \in 0..MaxRun
    BY <2>1, Bounds DEF CountOK
  <2>4. r \in Req
    <3>1. (turned /\ TypeOf(active) = "editor") \in BOOLEAN /\ 1 \in 1..MaxStmt
      BY Bounds
    <3>2. QED  BY <2>2, <2>3, <3>1 DEF Req, StateOK
  <2> HIDE DEF r
  <2>5. NetOK'
    BY <2>1, <2>4 DEF NetOK
  <2>6. StateOK' /\ ListsInv'
    BY <2>1 DEF StateOK, ListsInv, state
  <2>7. CountOK'
    BY <2>1, <2>3 DEF CountOK, Harms
  <2>8. QED  BY <2>5, <2>6, <2>7
<1>14. QED
  BY <1>1, <1>2, <1>3, <1>4, <1>5, <1>6, <1>7, <1>8, <1>9, <1>10, <1>11, <1>12, <1>13 DEF Deed
LEMMA SettledType == Settled \in [tab : Ids, sql : 0..MaxEdit]
BY Bounds DEF Settled, Ids

\* The editors follow.
LEMMA FollowedTypes ==
  ASSUME TabsInv, tabs' \in Lists, Followed
  PROVE  ScreenOK'
<1>1. ASSUME NEW id \in IdsOf(tabs')  PROVE mounted'[id] \in Obj /\ mounted'[id].id = id
  BY <1>1, ObjIs DEF Followed, TabsInv, ScreenOK, OpenIds
<1>2. mounted' \in [IdsOf(tabs') -> Obj]
  <2>1. mounted' = [id \in IdsOf(tabs') |-> mounted'[id]]
    BY DEF Followed
  <2>2. QED  BY <1>1, <2>1
<1>3. /\ typing' \in {typing, Settled}
      /\ typing' # Settled => /\ {typing'.tab, active'} \subseteq IdsOf(tabs')
                              /\ TypeOf(active') = "editor"
  BY DEF Followed
<1>4. typing' \in [tab : Ids, sql : 0..MaxEdit] /\ hurried' \in BOOLEAN
  BY <1>3, SettledType DEF Followed, TabsInv, ScreenOK
<1>5. QED  BY <1>1, <1>2, <1>3, <1>4 DEF ScreenOK

\* Typing, and the end of the 300 ms.
LEMMA TypingTypes ==
  ASSUME TabsInv, TypeText \/ TypeFilter \/ Settle
  PROVE  TabsInv'
<1> USE DEF TabsInv
<1>1. ASSUME Edited
      PROVE  /\ UNCHANGED <<tabs, active, sel, arr, list, gen, arrays, net, crashed, mounted, hurried>>
             /\ active \in IdsOf(tabs) /\ edits' = edits + 1 /\ edits' \in 0..MaxEdit
             /\ ListsInv' /\ NetOK' /\ CountOK' /\ ObjOf(tabs, active) \in Obj
  <2>1. /\ UNCHANGED <<tabs, active, sel, arr, list, gen, arrays, net, runs, crashed,
                       lastRun, opened, mounted, hurried>>
        /\ active \in IdsOf(tabs) /\ edits < MaxEdit /\ edits' = edits + 1
        /\ wrote' = [wrote EXCEPT ![active] = edits + 1]
        /\ harm' \subseteq harm \cup {"outdated"}
    BY <1>1 DEF Edited, OnTab, OpenIds
  <2>2. edits' \in 0..MaxEdit
    BY <2>1, Bounds DEF CountOK
  <2>3. CountOK'
    BY <2>1, <2>2 DEF CountOK, Harms
  <2>4. QED  BY <2>1, <2>2, <2>3, ObjIs DEF StateOK, ListsInv, NetOK, net
<1>2. CASE TypeText
  <2>1. Edited /\ typing' = [tab |-> active, sql |-> edits'] /\ text' = text /\ TypeOf(active) = "editor"
    BY <1>2 DEF TypeText
  <2>2. typing' \in [tab : Ids, sql : 0..MaxEdit] /\ typing'.tab = active
    BY <1>1, <2>1 DEF StateOK
  <2>3. StateOK' /\ ListsInv' /\ NetOK' /\ CountOK'
    BY <1>1, <2>1 DEF StateOK, net
  <2>4. ScreenOK'
    BY <1>1, <2>1, <2>2 DEF ScreenOK
  <2>5. QED  BY <2>3, <2>4
<1>3. CASE TypeFilter
  <2>1. Edited /\ text' = [text EXCEPT ![ObjOf(tabs, active)] = edits'] /\ typing' = typing
    BY <1>3 DEF TypeFilter, Active
  <2>2. StateOK' /\ ListsInv' /\ NetOK' /\ CountOK'
    BY <1>1, <2>1 DEF StateOK, net
  <2>3. ScreenOK'
    BY <1>1, <2>1 DEF ScreenOK
  <2>4. QED  BY <2>2, <2>3
<1>4. CASE Settle
  <2>1. /\ typing' = Settled /\ text' = [text EXCEPT ![ObjOf(tabs, active)] = typing.sql]
        /\ UNCHANGED <<tabs, active, sel, arr, list, gen, arrays, net, count, hist,
                       mounted, hurried>>
    BY <1>4 DEF Settle, Active
  <2>2. typing.sql \in 0..MaxEdit
    BY DEF ScreenOK
  <2>3. StateOK' /\ ListsInv' /\ NetOK' /\ CountOK'
    BY <2>1, <2>2 DEF StateOK, ListsInv, NetOK, CountOK, net, count, hist
  <2>4. ScreenOK'
    BY <2>1, SettledType DEF ScreenOK
  <2>5. QED  BY <2>3, <2>4
<1>5. QED  BY <1>2, <1>3, <1>4

LEMMA Least ==
  ASSUME NEW T \in SUBSET Nat, T # {}
  PROVE  \E i \in T : \A j \in T : i <= j
<1> DEFINE R == OpToRel(<, Nat)
<1>1. \A i, j \in Nat : <<i, j>> \in R <=> i < j
  BY DEF OpToRel
<1>2. IsWellFoundedOn(R, Nat)
  BY NatLessThanWellFounded
<1> HIDE DEF R
<1>3. PICK i \in T : \A y \in T : ~(<<y, i>> \in R)
  BY <1>2, WFMin
<1>4. \A j \in T : ~(j < i) /\ i \in Nat /\ j \in Nat
  BY <1>1, <1>3
<1>5. \A j \in T : i <= j
  BY <1>4
<1>6. QED  BY <1>5

\* Merged: the result of a statement takes the place of its earlier one, or is put
\* behind the others.
LEMMA MergedIs ==
  ASSUME NEW s \in Seq(Item), NEW it \in Item
  PROVE  /\ Merged(s, it) \in Seq(Item)
         /\ \A j \in DOMAIN Merged(s, it) :
              Merged(s, it)[j] = it \/ (j \in DOMAIN s /\ Merged(s, it)[j] = s[j])
         /\ \E j \in DOMAIN Merged(s, it) : Merged(s, it)[j] = it
         /\ (\A j, k \in DOMAIN s : s[j].n = s[k].n => j = k)
              /\ ((\E j \in DOMAIN s : s[j].n = it.n) => it.ok)
            => \A j, k \in DOMAIN Merged(s, it) :
                 Merged(s, it)[j].n = Merged(s, it)[k].n => j = k
<1> DEFINE old == {i \in DOMAIN s : s[i].n = it.n}
           p == CHOOSE i \in old : \A j \in old : i <= j
           t == Merged(s, it)
<1>1. Len(s) \in Nat /\ DOMAIN s = 1..Len(s) /\ old \subseteq 1..Len(s)
  OBVIOUS
<1>2. CASE it.ok /\ old # {}
  <2>1. p \in old
    <3>1. old \subseteq Nat /\ old # {}
      BY <1>1, <1>2
    <3> HIDE DEF old
    <3>2. \E i \in old : \A j \in old : i <= j
      BY <3>1, Least
    <3>3. QED  BY <3>2
  <2>2. t = [s EXCEPT ![p] = it]
    BY <1>2 DEF Merged
  <2>3. p \in DOMAIN s /\ s[p].n = it.n
    BY <2>1
  <2> HIDE DEF p, old, t
  <2>4. t \in Seq(Item) /\ DOMAIN t = DOMAIN s /\ \A j \in DOMAIN s : t[j] = IF j = p THEN it ELSE s[j]
    BY <2>2, <2>3
  <2>5. \A j \in DOMAIN s : t[j].n = s[j].n
    BY <2>3, <2>4
  <2>6. QED  BY <2>3, <2>4, <2>5 DEF t
<1>3. CASE ~(it.ok /\ old # {})
  <2>1. t = Append(s, it)
    BY <1>3 DEF Merged
  <2> HIDE DEF t
  <2>2. /\ t \in Seq(Item) /\ DOMAIN t = 1..(Len(s) + 1) /\ t[Len(s) + 1] = it
        /\ \A j \in DOMAIN s : t[j] = s[j]
    BY <2>1, <1>1
  <2>3. ((\E j \in DOMAIN s : s[j].n = it.n) => it.ok) => \A j \in DOMAIN s : s[j].n # it.n
    BY <1>3
  <2>4. QED  BY <2>2, <2>3, <1>1 DEF t
<1>4. QED  BY <1>2, <1>3

\* An answer, when both its tab and the active one are there: what it does to the
\* arrays.  Without them it does nothing to them.
LEMMA ReplyIs ==
  ASSUME TabsInv, NEW ok \in BOOLEAN, Reply(ok)
  PROVE  /\ wire # <<>> /\ Head(wire) \in Req /\ wire' = Tail(wire) /\ wire' \in Seq(Req)
         /\ UNCHANGED <<tabs, active, text, sel, gen, asked, adds, dialog, pending, used,
                        runs, edits, wrote, lastRun, opened>>
         /\ crashed' = NoTab(Head(wire))
         /\ NoTab(Head(wire)) => UNCHANGED <<arr, list, arrays, harm>>
         /\ ~NoTab(Head(wire)) =>
              LET r == Head(wire)
                  it == [tab |-> r.tab, n |-> r.n, run |-> r.run, ok |-> ok]
                  a == arr[ObjOf(tabs, r.tab)]
              IN /\ r.tab \in IdsOf(tabs) /\ active \in IdsOf(tabs) /\ ~r.page
                 /\ it \in Item
                 /\ harm' = IF r.tab = active THEN harm ELSE harm \cup {"strayed"}
                 /\ \/ /\ TypeOf(r.tab) = "editor" /\ arrays' = arrays
                       /\ list' = [list EXCEPT ![a] = Merged(list[a], it)]
                       /\ arr' = [arr EXCEPT ![ObjOf(tabs, active)] = a]
                    \/ /\ TypeOf(r.tab) = "filter" /\ arrays' = arrays + 1
                       /\ arrays + 1 \in 1..MaxArr
                       /\ list' = [list EXCEPT ![arrays + 1] = <<it>>]
                       /\ arr' = [arr EXCEPT ![ObjOf(tabs, active)] = arrays + 1]
<1> DEFINE r == Head(wire)
           it == [tab |-> r.tab, n |-> r.n, run |-> r.run, ok |-> ok]
           asker == ObjOf(tabs, r.tab)
<1>1. wire # <<>> /\ wire' = Tail(wire) /\ r \in Req /\ wire' \in Seq(Req)
  BY DEF Reply, TabsInv, NetOK
<1>2. it \in Item
  BY <1>1 DEF Req, Item
<1>3. NoTab(r) <=> r.page \/ r.tab \notin IdsOf(tabs) \/ active \notin IdsOf(tabs)
  BY DEF NoTab, OpenIds
<1>4. CASE NoTab(r)
  <2>1. /\ crashed' = TRUE /\ UNCHANGED <<arr, list, arrays, harm>>
        /\ UNCHANGED <<tabs, active, text, sel, gen, asked, adds, dialog, pending, used,
                        runs, edits, wrote, lastRun, opened>>
    BY <1>4 DEF Reply
  <2>2. NoTab(r) \in BOOLEAN
    BY <1>1 DEF NoTab, Req
  <2>3. QED  BY <1>1, <1>4, <2>1, <2>2
<1>5. CASE ~NoTab(r)
  <2>1. /\ crashed' = FALSE
        /\ IF TypeOf(r.tab) = "editor"
           THEN /\ list' = [list EXCEPT ![arr[asker]] = Merged(@, it)]
                /\ arr' = [arr EXCEPT ![ObjOf(tabs, active)] = arr[asker]]
                /\ arrays' = arrays
           ELSE /\ arrays < MaxArr /\ arrays' = arrays + 1
                /\ list' = [list EXCEPT ![arrays + 1] = <<it>>]
                /\ arr' = [arr EXCEPT ![ObjOf(tabs, active)] = arrays + 1]
        /\ harm' = IF r.tab = active THEN harm ELSE harm \cup {"strayed"}
        /\ UNCHANGED <<tabs, active, text, sel, gen, asked, adds, dialog, pending, used,
                        runs, edits, wrote, lastRun, opened>>
    BY <1>5 DEF Reply, Active
  <2> HIDE DEF it, asker
  <2>2. arrays < MaxArr => arrays + 1 \in 1..MaxArr
    BY Bounds DEF TabsInv, StateOK
  <2>3. \/ /\ TypeOf(r.tab) = "editor" /\ arrays' = arrays
           /\ list' = [list EXCEPT ![arr[asker]] = Merged(list[arr[asker]], it)]
           /\ arr' = [arr EXCEPT ![ObjOf(tabs, active)] = arr[asker]]
        \/ /\ TypeOf(r.tab) = "filter" /\ arrays' = arrays + 1 /\ arrays + 1 \in 1..MaxArr
           /\ list' = [list EXCEPT ![arrays + 1] = <<it>>]
           /\ arr' = [arr EXCEPT ![ObjOf(tabs, active)] = arrays + 1]
    BY <2>1, <2>2 DEF TypeOf
  <2>4. r.tab \in IdsOf(tabs) /\ active \in IdsOf(tabs) /\ ~r.page
    BY <1>3, <1>5
  <2>5. crashed' = NoTab(r)
    BY <1>1, <1>5, <2>1 DEF NoTab, Req
  <2>6. QED  BY <1>1, <1>2, <1>5, <2>1, <2>3, <2>4, <2>5 DEF it, asker
<1>6. QED  BY <1>4, <1>5

\* What goes out and what comes back.
LEMMA StatementTypes ==
  ASSUME TabsInv, Statements, UNCHANGED screen
  PROVE  TabsInv'
<1> USE DEF TabsInv
<1>1. ASSUME tabs' = tabs, active' = active  PROVE ScreenOK'
  BY <1>1 DEF ScreenOK, screen
<1>2. ASSUME NEW r \in pending, Fire(r)  PROVE TabsInv'
  <2>1. /\ pending' = pending \ {r} /\ wire' = Append(wire, r) /\ r \in Req
        /\ UNCHANGED <<state, asked, adds, dialog, used, count, hist>>
    BY <1>2 DEF Fire, NetOK
  <2>2. NetOK'
    BY <2>1 DEF NetOK
  <2>3. QED  BY <1>1, <2>1, <2>2 DEF StateOK, ListsInv, CountOK, state, count, hist
<1>3. ASSUME Drop  PROVE TabsInv'
  <2>1. wire' = <<>> /\ UNCHANGED <<state, asked, adds, dialog, pending, used, count, hist>>
    BY <1>3 DEF Drop
  <2>2. NetOK'
    BY <2>1 DEF NetOK
  <2>3. QED  BY <1>1, <2>1, <2>2 DEF StateOK, ListsInv, CountOK, state, count, hist
<1>4. ASSUME NEW ok \in BOOLEAN, Reply(ok)  PROVE TabsInv'
  <2> DEFINE r == Head(wire)
             it == [tab |-> r.tab, n |-> r.n, run |-> r.run, ok |-> ok]
             a == arr[ObjOf(tabs, r.tab)]
  <2>1. /\ UNCHANGED <<tabs, active, text, sel, gen, asked, adds, dialog, pending, used,
                       runs, edits, wrote, lastRun, opened>>
        /\ wire' \in Seq(Req) /\ crashed' = NoTab(r) /\ r \in Req
    BY <1>4, ReplyIs
  <2>2. /\ arr' \in [Obj -> 1..MaxArr] /\ list' \in [1..MaxArr -> Seq(Item)]
        /\ arrays' \in 1..MaxArr /\ harm' \subseteq Harms
    <3>1. CASE NoTab(r)
      BY <1>4, <3>1, ReplyIs DEF StateOK, CountOK
    <3>2. CASE ~NoTab(r)
      <4>1. /\ r.tab \in IdsOf(tabs) /\ it \in Item
            /\ harm' = IF r.tab = active THEN harm ELSE harm \cup {"strayed"}
            /\ \/ /\ arrays' = arrays
                  /\ list' = [list EXCEPT ![a] = Merged(list[a], it)]
                  /\ arr' = [arr EXCEPT ![ObjOf(tabs, active)] = a]
               \/ /\ arrays' = arrays + 1 /\ arrays + 1 \in 1..MaxArr
                  /\ list' = [list EXCEPT ![arrays + 1] = <<it>>]
                  /\ arr' = [arr EXCEPT ![ObjOf(tabs, active)] = arrays + 1]
        BY <1>4, <3>2, ReplyIs
      <4> HIDE DEF it, r
      <4>2. a \in 1..MaxArr /\ list[a] \in Seq(Item)
        BY <4>1, ObjIs DEF StateOK
      <4> HIDE DEF a
      <4>3. Merged(list[a], it) \in Seq(Item) /\ <<it>> \in Seq(Item)
        BY <4>1, <4>2, MergedIs
      <4>4. harm' \subseteq Harms
        BY <4>1 DEF CountOK, Harms
      <4>5. arr' \in [Obj -> 1..MaxArr] /\ list' \in [1..MaxArr -> Seq(Item)] /\ arrays' \in 1..MaxArr
        BY <4>1, <4>2, <4>3 DEF StateOK
      <4>6. QED  BY <4>4, <4>5
    <3>3. QED  BY <3>1, <3>2
  <2>3. crashed' \in BOOLEAN
    BY <2>1 DEF NoTab, Req
  <2>4. StateOK' /\ ListsInv' /\ NetOK'
    BY <2>1, <2>2 DEF StateOK, ListsInv, NetOK
  <2>5. CountOK' /\ ScreenOK'
    BY <1>1, <2>1, <2>2, <2>3 DEF CountOK
  <2>6. QED  BY <2>4, <2>5
<1>5. QED  BY <1>2, <1>3, <1>4 DEF Statements

LEMMA NextTabs == TabsInv /\ [Next]_vars => TabsInv'
<1> SUFFICES ASSUME TabsInv, [Next]_vars PROVE TabsInv'
  OBVIOUS
<1>1. CASE Deed /\ Followed
  <2>1. StateOK' /\ ListsInv' /\ NetOK' /\ CountOK'
    BY <1>1, DeedTypes
  <2>2. ScreenOK'
    BY <1>1, <2>1, FollowedTypes DEF StateOK
  <2>3. QED  BY <2>1, <2>2 DEF TabsInv
<1>2. CASE TypeText \/ TypeFilter \/ Settle
  BY <1>2, TypingTypes
<1>3. CASE Statements /\ UNCHANGED screen
  BY <1>3, StatementTypes
<1>4. CASE UNCHANGED vars
  BY <1>4 DEF vars, state, net, count, hist, screen, TabsInv, StateOK, ListsInv, NetOK,
     CountOK, ScreenOK
<1>5. QED  BY <1>1, <1>2, <1>3, <1>4 DEF Next

\* The list of tabs, the requests under way and the screen are in order at any time.
THEOREM TabsInvariant == Spec => []TabsInv
<1>1. QED  BY InitTabs, NextTabs, PTL DEF Spec

\* Every variable of the page keeps its type (VisibilityProvider), and the list of
\* tabs never holds an identifier twice, whatever stale list is written back.
THEOREM TabTypes == Spec => []TypeOK
<1>1. QED  BY TabsInvariant, InvGivesTypes, PTL

-----------------------------------------------------------------------------
(***************************************************************************)
(* Mishaps are never forgotten, and the active tab is one of the tabs, as  *)
(* it was for the list that the dialog carries.                            *)
(***************************************************************************)
LEMMA HarmGrows == [Next]_vars => harm \subseteq harm'
BY DEF Next, Deed, FirstId, AddTab, GotId, OpenTable, Switch, CloseTab, Drag, MenuClose,
   AskReset, Answer, Edited, TypeText, TypeFilter, Settle, Select, Format, PickDatabase,
   RunQuery, Ask, Statements, Fire, Drop, Reply, vars, hist

\* The active tab is in the list, that of a dialog in the list the dialog will write.
ActiveInv ==
  "reverted" \notin harm =>
    /\ tabs # <<>> => active \in IdsOf(tabs)
    /\ dialog # NoDialog => dialog.active \in IdsOf(dialog.tabs)

LEMMA ActiveStep == TabsInv /\ TabsInv' /\ ActiveInv /\ [Next]_vars => ActiveInv'
<1> SUFFICES ASSUME TabsInv, TabsInv', ActiveInv, [Next]_vars, "reverted" \notin harm'
             PROVE  /\ tabs' # <<>> => active' \in IdsOf(tabs')
                    /\ dialog' # NoDialog => dialog'.active \in IdsOf(dialog'.tabs)
  BY DEF ActiveInv
<1>1. /\ tabs # <<>> => active \in IdsOf(tabs)
      /\ dialog # NoDialog => dialog.active \in IdsOf(dialog.tabs)
  BY HarmGrows DEF ActiveInv
<1>2. tabs \in Lists /\ active \in Ids /\ \A s \in adds : s \in Lists /\ IdsOf(s) \subseteq used \cup Tables
  BY DEF TabsInv, StateOK, ListsInv
<1>3. Fresh \subseteq Ids /\ Tables \subseteq Ids /\ Fresh \cap Tables = {}
  BY IdsDistinct DEF Ids
<1>4. ASSUME NEW s \in Lists, NEW id \in Ids, id \notin IdsOf(s), Push(s, id)
      PROVE  active' \in IdsOf(tabs')
  BY <1>4, PushIs DEF TabsInv
<1> DEFINE Goal == /\ tabs' # <<>> => active' \in IdsOf(tabs')
                   /\ dialog' # NoDialog => dialog'.active \in IdsOf(dialog'.tabs)
<1>5. CASE \E f \in Fresh : FirstId(f)
  BY <1>1, <1>3, <1>4, <1>5, EmptyIsList DEF FirstId
<1>6. CASE \E s \in adds, f \in Fresh : GotId(s, f)
  BY <1>1, <1>2, <1>3, <1>4, <1>6 DEF GotId
<1>7. CASE \E k \in Tables : OpenTable(k)
  BY <1>1, <1>2, <1>3, <1>4, <1>7 DEF OpenTable, OpenIds, net
<1>8. CASE \E id \in Ids : Switch(id)
  BY <1>1, <1>8 DEF Switch, OpenIds, net
<1>9. ASSUME NEW id \in Ids, CloseTab(id)  PROVE Goal
  <2>1. CASE text[ObjOf(tabs, id)] # 0
    <3>1. /\ UNCHANGED <<tabs, active>> /\ id \in IdsOf(tabs)
          /\ dialog' = [what |-> "close", id |-> id, tabs |-> tabs, active |-> active]
      BY <1>9, <2>1 DEF CloseTab, OpenIds
    <3>2. tabs # <<>>
      BY <3>1, EmptyIsList
    <3>3. QED  BY <1>1, <3>1, <3>2
  <2>2. CASE text[ObjOf(tabs, id)] = 0
    <3>1. RemoveTab(id, tabs, active) /\ dialog' = dialog /\ id \in IdsOf(tabs)
      BY <1>9, <2>2 DEF CloseTab, OpenIds
    <3>2. tabs # <<>>
      BY <3>1, EmptyIsList
    <3>3. QED  BY <1>1, <1>2, <3>1, <3>2, RemoveIs
  <2>3. QED  BY <2>1, <2>2
<1>10. CASE \E i \in 1..MaxGen : Drag(i)
  <2>1. IdsOf(tabs') = IdsOf(tabs) /\ tabs # <<>> /\ UNCHANGED <<active, dialog>>
    <3>1. PICK i \in 1..MaxGen : Drag(i)
      BY <1>10
    <3>2. i \in DOMAIN tabs /\ i + 1 \in DOMAIN tabs /\ UNCHANGED <<active, dialog>>
          /\ tabs' = [tabs EXCEPT ![i] = tabs[i + 1], ![i + 1] = tabs[i]]
      BY <3>1 DEF Drag, net
    <3>3. IdsOf(tabs') = IdsOf(tabs)
      BY <1>2, <3>2, Dragged
    <3>4. tabs # <<>>
      BY <3>2
    <3>5. QED  BY <3>2, <3>3, <3>4
  <2>2. QED  BY <1>1, <2>1
<1>11. CASE MenuClose \/ AskReset
  <2>1. UNCHANGED <<tabs, active>> /\ active \in IdsOf(tabs)
        /\ dialog'.active = active /\ dialog'.tabs = tabs
    BY <1>11 DEF MenuClose, AskReset, OnTab, OpenIds, state
  <2>2. QED  BY <2>1
<1>12. ASSUME NEW yes \in BOOLEAN, Answer(yes)  PROVE Goal
  <2>1. /\ dialog # NoDialog /\ dialog' = NoDialog /\ dialog \in Dialog /\ dialog.tabs \in Lists
        /\ dialog.id \in Ids /\ dialog.active \in Ids /\ dialog.active \in IdsOf(dialog.tabs)
    BY <1>1, <1>12 DEF Answer, TabsInv, ListsInv, Dialog
  <2>2. CASE dialog.what = "close"
    BY <1>12, <2>1, <2>2, RemoveIs DEF Answer
  <2>3. CASE dialog.what # "close"
    <3>1. tabs' = dialog.tabs /\ active' = active /\ tabs = dialog.tabs
      <4>1. /\ tabs' = dialog.tabs /\ active' = active
            /\ tabs # dialog.tabs => "reverted" \in harm'
        BY <1>12, <2>3 DEF Answer
      <4>2. QED  BY <4>1
    <3>2. QED  BY <1>1, <2>1, <3>1
  <2>4. QED  BY <2>2, <2>3
<1>13. CASE Format \/ PickDatabase
  <2>1. active \in IdsOf(tabs) /\ CopyActive /\ dialog' = dialog
    BY <1>13 DEF Format, PickDatabase, OnTab, OpenIds, net
  <2>2. active' = active /\ IdsOf(tabs') = IdsOf(tabs)
    BY <2>1, CopyIs DEF TabsInv
  <2>3. QED  BY <1>1, <2>1, <2>2
<1>14. CASE UNCHANGED <<tabs, active, dialog>>
  BY <1>1, <1>14
<1>15. (AddTab \/ Select \/ (\E k \in 1..MaxStmt : RunQuery(k)) \/ (\E turned \in BOOLEAN : Ask(turned))
          \/ TypeText \/ TypeFilter \/ Settle \/ Statements \/ UNCHANGED vars)
       => UNCHANGED <<tabs, active, dialog>>
  BY DEF AddTab, Select, RunQuery, Ask, TypeText, TypeFilter, Edited, Settle, Statements, Fire,
     Drop, Reply, vars, state, net
<1>16. QED
  BY <1>5, <1>6, <1>7, <1>8, <1>9, <1>10, <1>11, <1>12, <1>13, <1>14, <1>15 DEF Next, Deed

LEMMA InitActive == Init => ActiveInv
<1> SUFFICES ASSUME Init PROVE ActiveInv
  OBVIOUS
<1>1. tabs = <<[id |-> First, gen |-> 1]>> /\ active = First /\ dialog = NoDialog
  BY DEF Init
<1>2. QED  BY <1>1 DEF ActiveInv, IdsOf

\* The active tab is one of the list at any time, or an old list was written back.
THEOREM ActiveInvariant == Spec => []ActiveInv
<1>1. QED  BY TabsInvariant, InitActive, ActiveStep, PTL DEF Spec

\* The identifier of the active tab stands for one tab, and for one that is open,
\* unless emptying an editor has written back an old list of tabs (setTabSQL).
THEOREM ActiveTabIsOne == Spec => []ActiveIsOneTab
<1>1. TabsInv /\ ActiveInv => ActiveIsOneTab
  BY InvGivesTypes DEF ActiveInv, ActiveIsOneTab, ActiveIsOpen, OpenIds
<1>2. QED  BY <1>1, TabsInvariant, ActiveInvariant, PTL

-----------------------------------------------------------------------------
(***************************************************************************)
(* Statements under way, and the tabs that wait for them.                  *)
(***************************************************************************)
LEMMA Appends ==
  ASSUME NEW T, NEW s \in Seq(T), NEW e \in T
  PROVE  Range(Append(s, e)) = Range(s) \cup {e}
<1>1. /\ Len(s) \in Nat /\ DOMAIN s = 1..Len(s) /\ DOMAIN Append(s, e) = 1..(Len(s) + 1)
      /\ Append(s, e)[Len(s) + 1] = e /\ \A i \in 1..Len(s) : Append(s, e)[i] = s[i]
  OBVIOUS
<1> DEFINE t == Append(s, e)
<1> HIDE DEF t
<1>2. ASSUME NEW x \in Range(t)  PROVE x \in Range(s) \cup {e}
  BY <1>1 DEF Range, t
<1>3. ASSUME NEW x \in Range(s) \cup {e}  PROVE x \in Range(t)
  BY <1>1 DEF Range, t
<1>4. QED  BY <1>2, <1>3 DEF t

LEMMA Tails ==
  ASSUME NEW T, NEW s \in Seq(T), s # <<>>
  PROVE  Range(Tail(s)) \subseteq Range(s) /\ Head(s) \in Range(s)
<1>1. /\ Len(s) \in Nat /\ DOMAIN s = 1..Len(s) /\ 1 \in DOMAIN s /\ Head(s) = s[1]
      /\ DOMAIN Tail(s) = 1..(Len(s) - 1) /\ \A i \in DOMAIN Tail(s) : Tail(s)[i] = s[i + 1]
  OBVIOUS
<1>2. QED  BY <1>1 DEF Range

\* What leaves: nothing new is under way.
LEMMA Leaving ==
  ASSUME TabsInv, Statements
  PROVE  /\ InFlight' \subseteq InFlight
         /\ UNCHANGED <<tabs, active, text, sel, adds, dialog, opened, wrote, lastRun>>
<1>1. ASSUME NEW r \in pending, Fire(r)  PROVE InFlight' \subseteq InFlight
  <2>1. pending' = pending \ {r} /\ wire' = Append(wire, r) /\ r \in Req /\ wire \in Seq(Req)
    BY <1>1 DEF Fire, TabsInv, NetOK
  <2>2. Range(wire') = Range(wire) \cup {r}
    BY <2>1, Appends
  <2>3. QED  BY <2>1, <2>2 DEF InFlight
<1>2. ASSUME Drop  PROVE InFlight' \subseteq InFlight
  <2>1. Range(<<>>) = {}
    BY DEF Range
  <2>2. QED  BY <1>2, <2>1 DEF Drop, InFlight
<1>3. ASSUME NEW ok \in BOOLEAN, Reply(ok)  PROVE InFlight' \subseteq InFlight
  <2>1. wire # <<>> /\ wire' = Tail(wire) /\ pending' = pending /\ wire \in Seq(Req)
    BY <1>3 DEF Reply, TabsInv, NetOK
  <2>2. QED  BY <2>1, Tails DEF InFlight
<1>4. UNCHANGED <<tabs, active, text, sel, adds, dialog, opened, wrote, lastRun>>
  BY DEF Statements, Fire, Drop, Reply, state, hist
<1>5. QED  BY <1>1, <1>2, <1>3, <1>4 DEF Statements

\* What runQuery sends, at once and later.
LEMMA Running ==
  ASSUME TabsInv, NEW k \in 1..MaxStmt, RunQuery(k)
  PROVE  /\ active \in IdsOf(tabs) /\ TypeOf(active) = "editor"
         /\ \A r \in InFlight' : \/ r \in InFlight
                                 \/ /\ r.tab = active /\ ~r.page /\ r.run = runs + 1
                                    /\ r.sql = What /\ r.shown = Shown(active)
         /\ UNCHANGED <<tabs, active, text, sel, adds, dialog, opened, wrote, crashed>>
<1> DEFINE stmt(n) == [tab |-> active, page |-> FALSE, n |-> n, run |-> runs + 1,
                       sql |-> What, shown |-> Shown(active)]
<1>1. /\ wire' = Append(wire, stmt(1)) /\ pending' = pending \cup {stmt(n) : n \in 2..k}
      /\ active \in IdsOf(tabs) /\ TypeOf(active) = "editor"
      /\ UNCHANGED <<tabs, active, text, sel, adds, dialog, opened, wrote, crashed>>
  BY DEF RunQuery, OnTab, OpenIds
<1>2. wire' \in Seq(Req) /\ wire \in Seq(Req)
  <2>1. Deed
    BY DEF Deed
  <2>2. QED  BY <2>1, DeedTypes DEF TabsInv, NetOK
<1>3. Len(wire) + 1 \in DOMAIN wire' /\ wire'[Len(wire) + 1] = stmt(1)
  BY <1>1, <1>2
<1>4. stmt(1) \in Req
  BY <1>2, <1>3
<1>5. ASSUME NEW n
      PROVE  /\ stmt(n).tab = active /\ ~stmt(n).page /\ stmt(n).run = runs + 1
             /\ stmt(n).sql = What /\ stmt(n).shown = Shown(active)
  OBVIOUS
<1> HIDE DEF stmt
<1>6. Range(wire') = Range(wire) \cup {stmt(1)}
  BY <1>1, <1>2, <1>4, Appends
<1>7. QED  BY <1>1, <1>5, <1>6 DEF InFlight

\* What a filter, or turning a page, sends.
LEMMA Asking ==
  ASSUME TabsInv, NEW turned \in BOOLEAN, Ask(turned)
  PROVE  /\ active \in IdsOf(tabs)
         /\ \A r \in InFlight' : \/ r \in InFlight
                                 \/ /\ r.tab = active /\ r.sql = r.shown
                                    /\ r.page = (turned /\ TypeOf(active) = "editor")
         /\ UNCHANGED <<tabs, active, text, sel, adds, dialog, opened, wrote, crashed>>
         /\ turned /\ TypeOf(active) = "editor" => "paged" \in harm'
<1> DEFINE r == [tab |-> active, page |-> turned /\ TypeOf(active) = "editor", n |-> 1,
                 run |-> runs + 1, sql |-> text[Active], shown |-> text[Active]]
<1>1. /\ wire' = Append(wire, r) /\ pending' = pending /\ active \in IdsOf(tabs)
      /\ UNCHANGED <<tabs, active, text, sel, adds, dialog, opened, wrote, crashed>>
      /\ turned /\ TypeOf(active) = "editor" => "paged" \in harm'
  BY DEF Ask, OnTab, OpenIds, state
<1>2. wire' \in Seq(Req) /\ wire \in Seq(Req)
  <2>1. Deed
    BY DEF Deed
  <2>2. QED  BY <2>1, DeedTypes DEF TabsInv, NetOK
<1>3. Len(wire) + 1 \in DOMAIN wire' /\ wire'[Len(wire) + 1] = r
  BY <1>1, <1>2
<1>4. r \in Req
  BY <1>2, <1>3
<1>5. r.tab = active /\ r.sql = r.shown /\ r.page = (turned /\ TypeOf(active) = "editor")
  OBVIOUS
<1> HIDE DEF r
<1>6. Range(wire') = Range(wire) \cup {r}
  BY <1>1, <1>2, <1>4, Appends
<1>7. QED  BY <1>1, <1>5, <1>6 DEF InFlight

\* Unless tabs were misplaced or a page of a result was asked for, the page stands.
FlightInv ==
  harm \cap (Misplaced \cup {"orphaned", "paged"}) = {} =>
    ~crashed /\ \A r \in InFlight : ~r.page /\ r.tab \in IdsOf(tabs)

LEMMA FlightStep == TabsInv /\ TabsInv' /\ ActiveInv /\ FlightInv /\ [Next]_vars => FlightInv'
<1> SUFFICES ASSUME TabsInv, TabsInv', ActiveInv, FlightInv, [Next]_vars,
                    harm' \cap (Misplaced \cup {"orphaned", "paged"}) = {}
             PROVE  ~crashed' /\ \A r \in InFlight' : ~r.page /\ r.tab \in IdsOf(tabs')
  BY DEF FlightInv
<1> DEFINE Goal == ~crashed' /\ \A r \in InFlight' : ~r.page /\ r.tab \in IdsOf(tabs')
<1>1. /\ "early" \notin harm' /\ "overtaken" \notin harm' /\ "cancelled" \notin harm'
      /\ "reverted" \notin harm' /\ "orphaned" \notin harm' /\ "paged" \notin harm'
  BY DEF Misplaced
<1>2. /\ ~crashed /\ \A r \in InFlight : ~r.page /\ r.tab \in IdsOf(tabs)
      /\ tabs # <<>> => active \in IdsOf(tabs)
  BY <1>1, HarmGrows DEF FlightInv, ActiveInv
<1>3. /\ tabs \in Lists /\ active \in Ids
      /\ \A s \in adds : s \in Lists /\ IdsOf(s) \subseteq used \cup Tables
      /\ Fresh \subseteq Ids /\ Tables \subseteq Ids /\ Fresh \cap Tables = {}
  BY IdsDistinct DEF TabsInv, StateOK, ListsInv, Ids
<1>4. ASSUME NEW s \in Lists, NEW id \in Ids, id \notin IdsOf(s), Push(s, id)
      PROVE  IdsOf(tabs') = IdsOf(s) \cup {id}
  BY <1>4, PushIs DEF TabsInv
<1>5. CASE IdsOf(tabs) \subseteq IdsOf(tabs') /\ InFlight' = InFlight /\ crashed' = crashed
  BY <1>2, <1>5
<1>6. ASSUME NEW f \in Fresh, FirstId(f)  PROVE Goal
  BY <1>1, <1>2, <1>6 DEF FirstId, InFlight, count
<1>7. ASSUME NEW s \in adds, NEW f \in Fresh, GotId(s, f)
      PROVE  IdsOf(tabs) \subseteq IdsOf(tabs') /\ InFlight' = InFlight /\ crashed' = crashed
  BY <1>1, <1>3, <1>4, <1>7 DEF GotId, InFlight, count
<1>8. ASSUME NEW k \in Tables, OpenTable(k)
      PROVE  IdsOf(tabs) \subseteq IdsOf(tabs') /\ InFlight' = InFlight /\ crashed' = crashed
  BY <1>3, <1>4, <1>8 DEF OpenTable, InFlight, OpenIds, net, count
<1>9. ASSUME NEW id \in Ids, CloseTab(id)  PROVE Goal
  <2>1. pending' = pending /\ wire' = wire /\ crashed' = crashed
    BY <1>9 DEF CloseTab, count
  <2>2. CASE text[ObjOf(tabs, id)] # 0
    BY <1>2, <1>9, <2>1, <2>2 DEF CloseTab, InFlight
  <2>3. CASE text[ObjOf(tabs, id)] = 0
    <3>1. RemoveTab(id, tabs, active) /\ \A r \in InFlight : r.tab # id
      BY <1>1, <1>9, <2>3 DEF CloseTab
    <3>2. IdsOf(tabs') = IdsOf(tabs) \ {id}
      BY <1>3, <3>1, RemoveIs
    <3>3. QED  BY <1>2, <2>1, <3>1, <3>2 DEF InFlight
  <2>4. QED  BY <2>2, <2>3
<1>10. ASSUME NEW i \in 1..MaxGen, Drag(i)
       PROVE  IdsOf(tabs) \subseteq IdsOf(tabs') /\ InFlight' = InFlight /\ crashed' = crashed
  BY <1>3, <1>10, Dragged DEF Drag, InFlight, net, count
<1>11. ASSUME NEW yes \in BOOLEAN, Answer(yes)  PROVE Goal
  <2>1. /\ pending' = pending /\ wire' = wire /\ crashed' = crashed /\ dialog.tabs \in Lists
        /\ dialog.id \in Ids /\ dialog.active \in Ids
    BY <1>11 DEF Answer, TabsInv, ListsInv, Dialog, count
  <2>2. tabs = dialog.tabs
    BY <1>1, <1>11 DEF Answer
  <2>3. CASE dialog.what = "close"
    <3>1. RemoveTab(dialog.id, dialog.tabs, dialog.active) /\ \A r \in InFlight : r.tab # dialog.id
      BY <1>1, <1>11, <2>3 DEF Answer
    <3>2. IdsOf(tabs') = IdsOf(tabs) \ {dialog.id}
      BY <2>1, <2>2, <3>1, RemoveIs
    <3>3. QED  BY <1>2, <2>1, <3>1, <3>2 DEF InFlight
  <2>4. CASE dialog.what # "close"
    BY <1>2, <1>11, <2>1, <2>2, <2>4 DEF Answer, InFlight
  <2>5. QED  BY <2>3, <2>4
<1>12. ASSUME Format \/ PickDatabase
       PROVE  IdsOf(tabs) \subseteq IdsOf(tabs') /\ InFlight' = InFlight /\ crashed' = crashed
  <2>1. active \in IdsOf(tabs) /\ CopyActive /\ UNCHANGED <<net, count>>
    BY <1>12 DEF Format, PickDatabase, OnTab, OpenIds
  <2>2. IdsOf(tabs') = IdsOf(tabs)
    BY <2>1, CopyIs DEF TabsInv
  <2>3. QED  BY <2>1, <2>2 DEF InFlight, net, count
<1>13. CASE \E k \in 1..MaxStmt : RunQuery(k)
  BY <1>2, <1>13, Running
<1>14. CASE \E turned \in BOOLEAN : Ask(turned)
  BY <1>1, <1>2, <1>14, Asking
<1>15. CASE Statements
  <2>1. InFlight' \subseteq InFlight /\ tabs' = tabs
    BY <1>15, Leaving
  <2>2. ~crashed'
    <3>1. ASSUME NEW ok \in BOOLEAN, Reply(ok)  PROVE ~NoTab(Head(wire))
      <4>1. Head(wire) \in InFlight
        BY <3>1, ReplyIs, Tails DEF InFlight, TabsInv, NetOK
      <4>2. ~Head(wire).page /\ Head(wire).tab \in IdsOf(tabs)
        BY <1>2, <4>1
      <4>3. QED  BY <1>2, <4>2, EmptyIsList DEF NoTab, OpenIds
    <3>2. ASSUME NEW ok \in BOOLEAN, Reply(ok)  PROVE ~crashed'
      BY <3>1, <3>2, ReplyIs
    <3>3. QED  BY <1>2, <1>15, <3>2 DEF Statements, Fire, Drop, count
  <2>3. QED  BY <1>2, <2>1, <2>2
<1>16. (AddTab \/ (\E id \in Ids : Switch(id)) \/ MenuClose \/ AskReset \/ Select
          \/ TypeText \/ TypeFilter \/ Settle \/ UNCHANGED vars)
       => UNCHANGED <<tabs, pending, wire, crashed>>
  BY DEF AddTab, Switch, MenuClose, AskReset, Select, TypeText, TypeFilter, Edited, Settle,
     vars, state, net, count
<1>17. CASE UNCHANGED <<tabs, pending, wire, crashed>>
  BY <1>2, <1>17 DEF InFlight
<1>18. QED
  BY <1>5, <1>6, <1>7, <1>8, <1>9, <1>10, <1>11, <1>12, <1>13, <1>14, <1>15, <1>16, <1>17
     DEF Next, Deed

\* The page stands and every statement under way belongs to a tab there is, unless a
\* mishap is on record (Misplaced, a lost tab, a page of a result), at any time.
THEOREM FlightInvariant == Spec => []FlightInv
<1>1. Init => FlightInv
  BY DEF Init, FlightInv, InFlight, Range
<1>2. QED  BY <1>1, TabsInvariant, ActiveInvariant, FlightStep, PTL DEF Spec

\* The page falls only when the answer to a page of a result comes, or a tab was
\* closed or replaced under its statements (the case tableRsesult).
THEOREM CrashesHaveCauses == Spec => []CrashHasCause
<1>1. FlightInv => CrashHasCause
  BY DEF FlightInv, CrashHasCause
<1>2. QED  BY <1>1, FlightInvariant, PTL

-----------------------------------------------------------------------------
(***************************************************************************)
(* The texts of the tabs.                                                  *)
(***************************************************************************)
TextsKept == \A id \in IdsOf(tabs) : text[ObjOf(tabs, id)] = wrote[id]
SelsShown == \A id \in IdsOf(tabs) :
               sel[ObjOf(tabs, id)] = 0 \/ sel[ObjOf(tabs, id)] = text[ObjOf(tabs, id)]

\* A new tab is empty, and the others stay as they are.
LEMMA PushKeeps ==
  ASSUME TabsInv, NEW s \in {tabs, <<>>}, NEW id \in Ids, id \notin IdsOf(s), Push(s, id)
  PROVE  /\ IdsOf(tabs') = IdsOf(s) \cup {id}
         /\ TextsKept => TextsKept'
         /\ SelsShown => SelsShown'
<1>1. s \in Lists /\ \A x \in IdsOf(s) : x \in IdsOf(tabs) /\ ObjOf(s, x) = ObjOf(tabs, x)
  BY EmptyIsList DEF TabsInv, StateOK
<1>2. PICK o \in Obj :
        /\ o.id = id /\ ObjOf(tabs', id) = o /\ IdsOf(tabs') = IdsOf(s) \cup {id}
        /\ \A x \in IdsOf(s) : ObjOf(tabs', x) = ObjOf(s, x)
        /\ text' = [text EXCEPT ![o] = 0] /\ sel' = [sel EXCEPT ![o] = 0]
  BY <1>1, PushIs DEF TabsInv
<1>3. wrote' = [wrote EXCEPT ![id] = 0]
  BY DEF Push
<1>4. /\ text \in [Obj -> 0..MaxEdit] /\ sel \in [Obj -> 0..MaxEdit]
      /\ wrote \in [Ids -> 0..MaxEdit]
  BY DEF TabsInv, StateOK, CountOK
<1>5. text'[o] = 0 /\ sel'[o] = 0 /\ wrote'[id] = 0
  BY <1>2, <1>3, <1>4
<1>6. ASSUME NEW x \in IdsOf(s)
      PROVE  /\ ObjOf(tabs', x) = ObjOf(tabs, x) /\ x \in IdsOf(tabs) /\ wrote'[x] = wrote[x]
             /\ text'[ObjOf(tabs', x)] = text[ObjOf(tabs, x)]
             /\ sel'[ObjOf(tabs', x)] = sel[ObjOf(tabs, x)]
  <2>1. ObjOf(s, x) \in Obj /\ ObjOf(s, x).id = x /\ x # id
    BY <1>1, ObjIs
  <2>2. x \in Ids /\ ObjOf(s, x) # o
    BY <1>2, <2>1 DEF Obj
  <2>3. QED  BY <1>1, <1>2, <1>3, <1>4, <2>1, <2>2
<1>7. QED  BY <1>2, <1>5, <1>6 DEF TextsKept, SelsShown

\* Lists of some of the tabs.
LEMMA FewerKeep ==
  ASSUME IdsOf(tabs') \subseteq IdsOf(tabs), UNCHANGED <<text, sel, wrote>>,
         \A x \in IdsOf(tabs') : ObjOf(tabs', x) = ObjOf(tabs, x)
  PROVE  (TextsKept => TextsKept') /\ (SelsShown => SelsShown')
BY DEF TextsKept, SelsShown

\* A copy has the text and the selection of its tab.
LEMMA CopyKeeps ==
  ASSUME TabsInv, active \in IdsOf(tabs), CopyActive, wrote' = wrote
  PROVE  /\ IdsOf(tabs') = IdsOf(tabs)
         /\ TextsKept => TextsKept'
         /\ SelsShown => SelsShown'
<1>1. PICK o \in Obj :
        /\ o.id = active /\ IdsOf(tabs') = IdsOf(tabs)
        /\ \A x \in IdsOf(tabs) : ObjOf(tabs', x) = IF x = active THEN o ELSE ObjOf(tabs, x)
        /\ text' = [text EXCEPT ![o] = text[ObjOf(tabs, active)]]
        /\ sel' = [sel EXCEPT ![o] = sel[ObjOf(tabs, active)]]
  BY CopyIs DEF TabsInv
<1>2. text \in [Obj -> 0..MaxEdit] /\ sel \in [Obj -> 0..MaxEdit] /\ tabs \in Lists
  BY DEF TabsInv, StateOK
<1>3. ASSUME NEW x \in IdsOf(tabs)
      PROVE  /\ text'[ObjOf(tabs', x)] = text[ObjOf(tabs, x)]
             /\ sel'[ObjOf(tabs', x)] = sel[ObjOf(tabs, x)]
  <2>1. ObjOf(tabs, x) \in Obj /\ ObjOf(tabs, x).id = x
    BY <1>2, ObjIs
  <2>2. QED  BY <1>1, <1>2, <2>1
<1>4. QED  BY <1>1, <1>3 DEF TextsKept, SelsShown

\* No deed loses a text, unless one of the mishaps happens.
LEMMA DeedKeeps ==
  ASSUME TabsInv, Deed, harm' \cap Misplaced = {}
  PROVE  /\ opened = IdsOf(tabs) => opened' = IdsOf(tabs')
         /\ TextsKept => TextsKept'
         /\ typing = Settled /\ "outdated" \notin harm' /\ SelsShown => SelsShown'
<1> DEFINE Goal == /\ opened = IdsOf(tabs) => opened' = IdsOf(tabs')
                   /\ TextsKept => TextsKept'
                   /\ typing = Settled /\ "outdated" \notin harm' /\ SelsShown => SelsShown'
<1>1. /\ "early" \notin harm' /\ "overtaken" \notin harm' /\ "cancelled" \notin harm'
      /\ "reverted" \notin harm'
  BY DEF Misplaced
<1>2. /\ tabs \in Lists /\ active \in Ids
      /\ \A s \in adds : s \in Lists /\ IdsOf(s) \subseteq used \cup Tables
      /\ Fresh \subseteq Ids /\ Tables \subseteq Ids /\ Fresh \cap Tables = {}
      /\ First \notin Fresh
  BY IdsDistinct DEF TabsInv, StateOK, ListsInv, Ids
<1>3. ASSUME NEW f \in Fresh, FirstId(f)  PROVE Goal
  <2>1. Push(<<>>, f) /\ opened = {First} /\ opened' = (opened \ {First}) \cup {f}
    BY <1>1, <1>3 DEF FirstId
  <2>2. QED  BY <1>2, <2>1, PushKeeps, EmptyIsList
<1>4. ASSUME NEW s \in adds, NEW f \in Fresh, GotId(s, f)  PROVE Goal
  <2>1. Push(tabs, f) /\ opened' = opened \cup {f} /\ f \notin IdsOf(tabs)
    BY <1>1, <1>2, <1>4 DEF GotId
  <2>2. QED  BY <1>2, <2>1, PushKeeps
<1>5. ASSUME NEW k \in Tables, OpenTable(k)  PROVE Goal
  <2>1. opened' = opened \cup {k}
    BY <1>5 DEF OpenTable
  <2>2. CASE k \in OpenIds
    BY <1>5, <2>1, <2>2 DEF OpenTable, OpenIds, TextsKept, SelsShown
  <2>3. CASE k \notin OpenIds
    BY <1>2, <1>5, <2>1, <2>3, PushKeeps DEF OpenTable, OpenIds
  <2>4. QED  BY <2>2, <2>3
<1>6. ASSUME NEW id \in Ids, CloseTab(id)  PROVE Goal
  <2>1. CASE text[ObjOf(tabs, id)] # 0
    BY <1>6, <2>1, FewerKeep DEF CloseTab, hist
  <2>2. CASE text[ObjOf(tabs, id)] = 0
    <3>1. /\ RemoveTab(id, tabs, active) /\ opened' = opened \ {id}
          /\ UNCHANGED <<text, sel, wrote>>
      BY <1>6, <2>2 DEF CloseTab
    <3>2. /\ IdsOf(tabs') = IdsOf(tabs) \ {id}
          /\ \A x \in IdsOf(tabs') : ObjOf(tabs', x) = ObjOf(tabs, x)
      BY <1>2, <3>1, RemoveIs
    <3>3. QED  BY <3>1, <3>2, FewerKeep
  <2>3. QED  BY <2>1, <2>2
<1>7. ASSUME NEW i \in 1..MaxGen, Drag(i)  PROVE Goal
  <2>1. /\ UNCHANGED <<text, sel, wrote, opened>> /\ i \in DOMAIN tabs /\ i + 1 \in DOMAIN tabs
        /\ tabs' = [tabs EXCEPT ![i] = tabs[i + 1], ![i + 1] = tabs[i]]
    BY <1>7 DEF Drag, hist
  <2>2. IdsOf(tabs') = IdsOf(tabs) /\ \A x \in IdsOf(tabs) : ObjOf(tabs', x) = ObjOf(tabs, x)
    <3> DEFINE t == [tabs EXCEPT ![i] = tabs[i + 1], ![i + 1] = tabs[i]]
    <3>1. tabs \in Lists /\ i \in DOMAIN tabs /\ i + 1 \in DOMAIN tabs
      BY <1>2, <2>1
    <3>2. IdsOf(t) = IdsOf(tabs) /\ \A x \in IdsOf(tabs) : ObjOf(t, x) = ObjOf(tabs, x)
      BY <3>1, Dragged
    <3> HIDE DEF t
    <3>3. tabs' = t
      BY <2>1 DEF t
    <3>4. QED  BY <3>2, <3>3
  <2>3. QED  BY <2>1, <2>2, FewerKeep
<1>8. ASSUME NEW yes \in BOOLEAN, Answer(yes)  PROVE Goal
  <2>1. /\ dialog.tabs = tabs /\ yes /\ dialog.id \in Ids /\ dialog.active \in Ids
        /\ dialog.id \in IdsOf(tabs) /\ sel' = sel
    BY <1>1, <1>8 DEF Answer, TabsInv, ListsInv, Dialog
  <2>2. CASE dialog.what = "close"
    <3>1. /\ RemoveTab(dialog.id, dialog.tabs, dialog.active) /\ opened' = opened \ {dialog.id}
          /\ UNCHANGED <<text, wrote>>
      BY <1>8, <2>1, <2>2 DEF Answer
    <3>2. /\ IdsOf(tabs') = IdsOf(tabs) \ {dialog.id}
          /\ \A x \in IdsOf(tabs') : ObjOf(tabs', x) = ObjOf(tabs, x)
      BY <1>2, <2>1, <3>1, RemoveIs
    <3>3. QED  BY <2>1, <3>1, <3>2, FewerKeep
  <2>3. CASE dialog.what # "close"
    <3>1. /\ tabs' = tabs /\ opened' = opened
          /\ text' = [text EXCEPT ![ObjOf(tabs, dialog.id)] = 0]
          /\ wrote' = [wrote EXCEPT ![dialog.id] = 0]
      BY <1>8, <2>1, <2>3 DEF Answer
    <3>2. "outdated" \notin harm' => sel[ObjOf(tabs, dialog.id)] = 0
      <4>1. dialog.what = "reset"
        BY <1>8, <2>3 DEF Answer, TabsInv, ListsInv, Dialog
      <4>2. QED  BY <1>8, <2>1, <4>1 DEF Answer
    <3>3. /\ text \in [Obj -> 0..MaxEdit] /\ wrote \in [Ids -> 0..MaxEdit]
      BY DEF TabsInv, StateOK, CountOK
    <3>4. /\ text'[ObjOf(tabs, dialog.id)] = 0 /\ wrote'[dialog.id] = 0
          /\ \A x \in IdsOf(tabs) : x # dialog.id => /\ text'[ObjOf(tabs, x)] = text[ObjOf(tabs, x)]
                                                     /\ wrote'[x] = wrote[x]
      BY <1>2, <2>1, <3>1, <3>3, ObjIs
    <3>5. QED  BY <2>1, <3>1, <3>2, <3>4 DEF TextsKept, SelsShown
  <2>4. QED  BY <2>2, <2>3
<1>9. ASSUME Select  PROVE Goal
  <2>1. /\ UNCHANGED <<tabs, text, wrote, opened>> /\ active \in IdsOf(tabs)
        /\ sel' = [sel EXCEPT ![mounted[active]] = Shown(active)]
    BY <1>9 DEF Select, OnTab, OpenIds, hist
  <2>2. mounted[active].id = active /\ sel \in [Obj -> 0..MaxEdit] /\ mounted[active] \in Obj
    BY <2>1 DEF TabsInv, ScreenOK, StateOK
  <2>3. typing = Settled => Shown(active) = text[ObjOf(tabs, active)]
    BY DEF Shown, Typed
  <2>4. ASSUME NEW x \in IdsOf(tabs)
        PROVE  \/ sel'[ObjOf(tabs, x)] = sel[ObjOf(tabs, x)]
               \/ x = active /\ sel'[ObjOf(tabs, x)] = Shown(active)
    BY <1>2, <2>1, <2>2, ObjIs
  <2>5. QED  BY <2>1, <2>3, <2>4 DEF TextsKept, SelsShown
<1>10. ASSUME Format \/ PickDatabase  PROVE Goal
  <2>1. active \in IdsOf(tabs) /\ CopyActive /\ UNCHANGED <<wrote, opened>>
    BY <1>10 DEF Format, PickDatabase, OnTab, OpenIds, hist
  <2>2. QED  BY <2>1, CopyKeeps
<1>11. AddTab \/ (\E id \in Ids : Switch(id)) \/ MenuClose \/ AskReset
         \/ (\E k \in 1..MaxStmt : RunQuery(k)) \/ (\E turned \in BOOLEAN : Ask(turned))
       => UNCHANGED <<tabs, text, sel, wrote, opened>>
  BY DEF AddTab, Switch, MenuClose, AskReset, RunQuery, Ask, state, hist
<1>12. CASE UNCHANGED <<tabs, text, sel, wrote, opened>>
  BY <1>12, FewerKeep
<1>13. QED
  BY <1>3, <1>4, <1>5, <1>6, <1>7, <1>8, <1>9, <1>10, <1>11, <1>12 DEF Deed

\* Deeds while text is typed make the user hurried: what is left of hurry is that
\* nothing is typed, before the deed and after it.
LEMMA CalmDeed ==
  ASSUME Followed, ~hurried'
  PROVE  ~hurried /\ typing = Settled /\ typing' = Settled
BY DEF Followed

\* Typing is noted, and written to the tab it was typed in.
LEMMA TypingIs ==
  ASSUME TabsInv, TypeText \/ TypeFilter
  PROVE  /\ UNCHANGED <<tabs, active, sel, opened, hurried, pending, wire>>
         /\ active \in IdsOf(tabs) /\ wrote' = [wrote EXCEPT ![active] = edits + 1]
         /\ sel[ObjOf(tabs, active)] # 0 => "outdated" \in harm'
         /\ \/ /\ typing = Settled \/ typing.tab = active
               /\ text' = text /\ typing' # Settled
               /\ typing'.tab = active /\ typing'.sql = edits + 1
            \/ /\ typing = Settled /\ typing' = Settled
               /\ text' = [text EXCEPT ![ObjOf(tabs, active)] = edits + 1]
<1>1. /\ UNCHANGED <<tabs, active, sel, opened, hurried, pending, wire>>
      /\ active \in IdsOf(tabs) /\ wrote' = [wrote EXCEPT ![active] = edits + 1]
      /\ sel[ObjOf(tabs, active)] # 0 => "outdated" \in harm'
      /\ edits' = edits + 1
  BY DEF TypeText, TypeFilter, Edited, OnTab, OpenIds, Active, net
<1>2. CASE TypeText
  <2>1. /\ typing = Settled \/ typing.tab = active
        /\ text' = text /\ typing' = [tab |-> active, sql |-> edits']
    BY <1>2 DEF TypeText, Typed
  <2>2. edits' # 0
    BY <1>1 DEF TabsInv, CountOK
  <2>3. typing'.tab = active /\ typing'.sql = edits + 1 /\ typing' # Settled
    BY <1>1, <2>1, <2>2 DEF Settled
  <2>4. QED  BY <1>1, <2>1, <2>3
<1>3. CASE TypeFilter
  <2>1. /\ typing' = typing /\ text' = [text EXCEPT ![ObjOf(tabs, active)] = edits + 1]
        /\ TypeOf(active) = "filter"
    BY <1>1, <1>3 DEF TypeFilter, Active
  <2>2. typing = Settled
    BY <2>1 DEF TabsInv, ScreenOK
  <2>3. QED  BY <1>1, <2>1, <2>2
<1>4. QED  BY <1>2, <1>3

\* The tabs are those the user means, and show what the user wrote.
KeptInv ==
  harm \cap Misplaced = {} =>
    /\ opened = IdsOf(tabs)
    /\ ~hurried => /\ typing # Settled => typing.tab = active
                   /\ \A id \in IdsOf(tabs) : Shown(id) = wrote[id]

LEMMA KeptStep == TabsInv /\ TabsInv' /\ KeptInv /\ [Next]_vars => KeptInv'
<1> SUFFICES ASSUME TabsInv, TabsInv', KeptInv, [Next]_vars, harm' \cap Misplaced = {}
             PROVE  /\ opened' = IdsOf(tabs')
                    /\ ~hurried' => /\ typing' # Settled => typing'.tab = active'
                                    /\ \A id \in IdsOf(tabs') : Shown(id)' = wrote'[id]
  BY DEF KeptInv
<1> DEFINE Goal == /\ opened' = IdsOf(tabs')
                   /\ ~hurried' => /\ typing' # Settled => typing'.tab = active'
                                   /\ \A id \in IdsOf(tabs') : Shown(id)' = wrote'[id]
<1>1. /\ opened = IdsOf(tabs)
      /\ ~hurried => /\ typing # Settled => typing.tab = active
                     /\ \A id \in IdsOf(tabs) : Shown(id) = wrote[id]
  BY HarmGrows DEF KeptInv
<1>2. /\ tabs \in Lists /\ text \in [Obj -> 0..MaxEdit] /\ wrote \in [Ids -> 0..MaxEdit]
      /\ \A id \in IdsOf(tabs) : /\ ObjOf(tabs, id) \in Obj /\ ObjOf(tabs, id).id = id
                                 /\ id \in Ids
  BY ObjIs DEF TabsInv, StateOK, CountOK, Obj
<1>3. CASE Deed /\ Followed
  <2>1. opened' = IdsOf(tabs') /\ (TextsKept => TextsKept')
    BY <1>1, <1>3, DeedKeeps
  <2>2. ASSUME ~hurried'
        PROVE  typing' = Settled /\ \A id \in IdsOf(tabs') : Shown(id)' = wrote'[id]
    <3>1. ~hurried /\ typing = Settled /\ typing' = Settled
      BY <1>3, <2>2, CalmDeed
    <3>2. TextsKept
      BY <1>1, <3>1 DEF Shown, Typed, TextsKept
    <3>3. QED  BY <2>1, <3>1, <3>2 DEF Shown, Typed, TextsKept
  <2>3. QED  BY <2>1, <2>2
<1>4. CASE TypeText \/ TypeFilter
  <2>1. /\ UNCHANGED <<tabs, active, opened, hurried>>
        /\ active \in IdsOf(tabs) /\ wrote' = [wrote EXCEPT ![active] = edits + 1]
        /\ \/ /\ typing = Settled \/ typing.tab = active
              /\ text' = text /\ typing' # Settled
              /\ typing'.tab = active /\ typing'.sql = edits + 1
           \/ /\ typing = Settled /\ typing' = Settled
              /\ text' = [text EXCEPT ![ObjOf(tabs, active)] = edits + 1]
    BY <1>4, TypingIs
  <2>2. ASSUME ~hurried, NEW id \in IdsOf(tabs)  PROVE Shown(id)' = wrote'[id]
    <3>1. Shown(id) = wrote[id]
      BY <1>1, <2>2
    <3>2. CASE id = active
      BY <1>2, <2>1, <3>2 DEF Shown, Typed
    <3>3. CASE id # active
      <4>1. wrote'[id] = wrote[id]
        BY <1>2, <2>1, <3>3
      <4>2. text'[ObjOf(tabs, id)] = text[ObjOf(tabs, id)]
        BY <1>2, <2>1, <3>3
      <4>3. QED  BY <2>1, <3>1, <3>3, <4>1, <4>2 DEF Shown, Typed
    <3>4. QED  BY <3>2, <3>3
  <2>3. QED  BY <1>1, <2>1, <2>2
<1>5. CASE Settle
  <2>1. /\ typing # Settled /\ typing' = Settled
        /\ text' = [text EXCEPT ![ObjOf(tabs, active)] = typing.sql]
        /\ UNCHANGED <<tabs, active, wrote, opened, hurried>> /\ active \in IdsOf(tabs)
    BY <1>5 DEF Settle, Active, hist, TabsInv, ScreenOK
  <2>2. ASSUME ~hurried, NEW id \in IdsOf(tabs)  PROVE Shown(id)' = wrote'[id]
    <3>1. Shown(id) = wrote[id] /\ typing.tab = active
      BY <1>1, <2>1, <2>2
    <3>2. text'[ObjOf(tabs, id)] = IF id = active THEN typing.sql ELSE text[ObjOf(tabs, id)]
      BY <1>2, <2>1
    <3>3. QED  BY <2>1, <3>1, <3>2 DEF Shown, Typed
  <2>3. QED  BY <1>1, <2>1, <2>2
<1>6. CASE UNCHANGED <<tabs, active, text, opened, wrote, screen>>
  BY <1>1, <1>6 DEF Shown, Typed, screen
<1>7. (Statements /\ UNCHANGED screen) \/ UNCHANGED vars
      => UNCHANGED <<tabs, active, text, opened, wrote, screen>>
  BY Leaving DEF vars, state, hist
<1>8. QED  BY <1>3, <1>4, <1>5, <1>6, <1>7 DEF Next

LEMMA InitKept == Init => KeptInv
<1> SUFFICES ASSUME Init PROVE KeptInv
  OBVIOUS
<1> DEFINE o == [id |-> First, gen |-> 1]
<1>1. /\ tabs = <<o>> /\ opened = {First} /\ typing = Settled
      /\ text = [x \in Obj |-> 0] /\ wrote = [x \in Ids |-> 0]
  BY DEF Init
<1>2. o \in Obj /\ o.id = First /\ First \in Ids
  BY Bounds DEF Obj, Ids
<1> HIDE DEF o
<1>3. IdsOf(tabs) = {First} /\ ObjOf(tabs, First) \in Obj
  BY <1>1, <1>2, OneIsList, ObjIs
<1>4. QED  BY <1>1, <1>2, <1>3 DEF KeptInv, Shown, Typed

\* The tabs are those the user means, and show what the user wrote, unless a mishap is
\* on record, at any time.
THEOREM KeptInvariant == Spec => []KeptInv
<1>1. QED  BY TabsInvariant, InitKept, KeptStep, PTL DEF Spec

\* The page shows the tabs the user has opened and not closed, each with what the
\* user wrote in it last (addTab, removeTab, setTabSQL, setTabWhere, setTabValue).
THEOREM TabsAreAsLeft == Spec => []TabsAsLeft
<1>1. KeptInv => TabsAsLeft
  BY DEF KeptInv, TabsAsLeft, OpenIds
<1>2. QED  BY <1>1, KeptInvariant, PTL

\* A selection is that of the text shown, and none is noted while text is typed;
\* so what was sent is what was shown.
RunsInv ==
  harm \cap ({"outdated"} \cup Misplaced) = {} /\ ~hurried =>
    /\ SelsShown
    /\ typing # Settled => sel[ObjOf(tabs, active)] = 0
    /\ \A r \in InFlight : r.sql = r.shown

LEMMA RunsStep == TabsInv /\ TabsInv' /\ RunsInv /\ [Next]_vars => RunsInv'
<1> SUFFICES ASSUME TabsInv, TabsInv', RunsInv, [Next]_vars, ~hurried',
                    harm' \cap ({"outdated"} \cup Misplaced) = {}
             PROVE  /\ SelsShown'
                    /\ typing' # Settled => sel'[ObjOf(tabs', active')] = 0
                    /\ \A r \in InFlight' : r.sql = r.shown
  BY DEF RunsInv
<1>1. ~hurried
  BY DEF Next, Followed, TypeText, TypeFilter, Edited, Settle, vars, screen
<1>2. "outdated" \notin harm' /\ harm' \cap Misplaced = {}
  OBVIOUS
<1>3. /\ SelsShown
      /\ typing # Settled => sel[ObjOf(tabs, active)] = 0
      /\ \A r \in InFlight : r.sql = r.shown
  BY <1>1, HarmGrows DEF RunsInv
<1>4. /\ tabs \in Lists /\ text \in [Obj -> 0..MaxEdit] /\ sel \in [Obj -> 0..MaxEdit]
      /\ \A id \in IdsOf(tabs) : ObjOf(tabs, id) \in Obj /\ ObjOf(tabs, id).id = id
  BY ObjIs DEF TabsInv, StateOK
<1>5. CASE Deed /\ Followed
  <2>1. typing = Settled /\ typing' = Settled
    BY <1>5, CalmDeed
  <2>2. SelsShown'
    BY <1>2, <1>3, <1>5, <2>1, DeedKeeps
  <2>3. ASSUME NEW k \in 1..MaxStmt, RunQuery(k)  PROVE \A r \in InFlight' : r.sql = r.shown
    <3>1. /\ active \in IdsOf(tabs)
          /\ \A r \in InFlight' : r \in InFlight \/ (r.sql = What /\ r.shown = Shown(active))
      BY <2>3, Running
    <3>2. What = Shown(active)
      BY <1>3, <2>1, <3>1 DEF What, Shown, Typed, Active, SelsShown
    <3>3. QED  BY <1>3, <3>1, <3>2
  <2>4. ASSUME NEW turned \in BOOLEAN, Ask(turned)
        PROVE  \A r \in InFlight' : r.sql = r.shown
    BY <1>3, <2>4, Asking
  <2>5. ASSUME UNCHANGED <<pending, wire>>  PROVE \A r \in InFlight' : r.sql = r.shown
    BY <1>3, <2>5 DEF InFlight
  <2>6. \/ \E k \in 1..MaxStmt : RunQuery(k)
        \/ \E turned \in BOOLEAN : Ask(turned)
        \/ UNCHANGED <<pending, wire>>
    BY <1>5 DEF Deed, FirstId, AddTab, GotId, OpenTable, Switch, CloseTab, Drag, MenuClose,
       AskReset, Answer, Select, Format, PickDatabase, net
  <2>7. QED  BY <2>1, <2>2, <2>3, <2>4, <2>5, <2>6
<1>6. CASE TypeText \/ TypeFilter
  <2>1. /\ UNCHANGED <<tabs, active, sel, pending, wire>> /\ active \in IdsOf(tabs)
        /\ sel[ObjOf(tabs, active)] = 0
        /\ \/ text' = text
           \/ typing' = Settled /\ text' = [text EXCEPT ![ObjOf(tabs, active)] = edits + 1]
    BY <1>2, <1>6, TypingIs
  <2>2. SelsShown'
    BY <1>3, <1>4, <2>1 DEF SelsShown
  <2>3. QED  BY <1>3, <2>1, <2>2 DEF InFlight
<1>7. CASE Settle
  <2>1. /\ typing # Settled /\ typing' = Settled /\ active \in IdsOf(tabs)
        /\ text' = [text EXCEPT ![ObjOf(tabs, active)] = typing.sql]
        /\ UNCHANGED <<tabs, active, sel, pending, wire>>
    BY <1>7 DEF Settle, Active, net, TabsInv, ScreenOK
  <2>2. SelsShown'
    BY <1>3, <1>4, <2>1 DEF SelsShown
  <2>3. QED  BY <1>3, <2>1, <2>2 DEF InFlight
<1>8. CASE Statements /\ UNCHANGED screen
  <2>1. InFlight' \subseteq InFlight /\ UNCHANGED <<tabs, active, text, sel, typing>>
    BY <1>8, Leaving DEF screen
  <2>2. QED  BY <1>3, <2>1 DEF SelsShown
<1>9. CASE UNCHANGED vars
  BY <1>3, <1>9 DEF vars, state, net, screen, SelsShown, InFlight
<1>10. QED  BY <1>5, <1>6, <1>7, <1>8, <1>9 DEF Next

LEMMA InitRuns == Init => RunsInv
<1> SUFFICES ASSUME Init PROVE RunsInv
  OBVIOUS
<1> DEFINE o == [id |-> First, gen |-> 1]
<1>1. /\ tabs = <<o>> /\ typing = Settled /\ sel = [x \in Obj |-> 0]
      /\ pending = {} /\ wire = <<>>
  BY DEF Init
<1>2. o \in Obj /\ o.id = First
  BY Bounds DEF Obj, Ids
<1> HIDE DEF o
<1>3. \A id \in IdsOf(tabs) : ObjOf(tabs, id) \in Obj
  BY <1>1, <1>2, OneIsList, ObjIs
<1>4. InFlight = {}
  BY <1>1 DEF InFlight, Range
<1>5. QED  BY <1>1, <1>3, <1>4 DEF RunsInv, SelsShown

\* The selections and texts under way are those shown, unless a mishap is on record, at
\* any time.
THEOREM RunsInvariant == Spec => []RunsInv
<1>1. QED  BY TabsInvariant, InitRuns, RunsStep, PTL DEF Spec

\* What is sent is what the editor shows, unless the text was changed after a
\* selection, or the user was faster than the editor (runQuery, setTabSelectSql).
THEOREM ShownIsRun == Spec => []RunsWhatIsShown
<1>1. RunsInv => RunsWhatIsShown
  BY DEF RunsInv, RunsWhatIsShown
<1>2. QED  BY <1>1, RunsInvariant, PTL

-----------------------------------------------------------------------------
(***************************************************************************)
(* The arrays of results.  Arrays not made yet are empty, and those made   *)
(* belong to one open tab each; a statement under way is of the last run   *)
(* of its editor, and its place in the results is still free.              *)
(***************************************************************************)
ArraysOK ==
  /\ \A o \in Obj : arr[o] <= arrays
  /\ \A a \in 1..MaxArr : a > arrays => list[a] = <<>>
  /\ \A r \in InFlight : r.tab \in used \cup Tables

Estranged == {"early", "overtaken", "reverted", "strayed", "rerun"}

OwnResults(id) ==
  LET s == list[arr[ObjOf(tabs, id)]] IN
  /\ \A j \in DOMAIN s : s[j].tab = id /\ (TypeOf(id) = "editor" => s[j].run = lastRun[id])
  /\ \A j, k \in DOMAIN s : s[j].n = s[k].n => j = k
OfEditor(r) == ~r.page /\ TypeOf(r.tab) = "editor"
Expected(r) ==
  OfEditor(r) /\ r.tab \in IdsOf(tabs) =>
    LET s == list[arr[ObjOf(tabs, r.tab)]] IN
    r.run = lastRun[r.tab] /\ \A j \in DOMAIN s : s[j].n # r.n
SameSlot(q, r) == OfEditor(q) /\ OfEditor(r) /\ q.tab = r.tab /\ q.n = r.n
SlotsOK ==
  /\ \A i, j \in DOMAIN wire : SameSlot(wire[i], wire[j]) => i = j
  /\ \A i \in DOMAIN wire, r \in pending : ~SameSlot(wire[i], r)
  /\ \A q, r \in pending : SameSlot(q, r) => q = r
OwnArrays ==
  \A x, y \in IdsOf(tabs) : arr[ObjOf(tabs, x)] = arr[ObjOf(tabs, y)] => x = y

HomeOK == /\ OwnArrays /\ SlotsOK
          /\ \A id \in IdsOf(tabs) : OwnResults(id)
          /\ \A r \in InFlight : Expected(r)
HomeInv == harm \cap Estranged = {} => HomeOK

LEMMA PushArrays ==
  ASSUME TabsInv, ArraysOK, NEW s \in Lists, NEW id \in Ids, id \notin IdsOf(s), Push(s, id)
  PROVE  /\ arrays' = arrays + 1 /\ list' = list /\ IdsOf(tabs') = IdsOf(s) \cup {id}
         /\ \A o \in Obj : arr'[o] <= arrays'
         /\ arr'[ObjOf(tabs', id)] = arrays + 1
         /\ \A x \in IdsOf(s) : arr'[ObjOf(tabs', x)] = arr[ObjOf(s, x)]
<1>1. arrays' = arrays + 1 /\ list' = list
  BY PushIs DEF TabsInv
<1>2. PICK o \in Obj :
        /\ o.id = id /\ ObjOf(tabs', id) = o /\ IdsOf(tabs') = IdsOf(s) \cup {id}
        /\ \A x \in IdsOf(s) : ObjOf(tabs', x) = ObjOf(s, x)
        /\ arr' = [arr EXCEPT ![o] = arrays + 1]
  BY PushIs DEF TabsInv
<1>3. arr \in [Obj -> 1..MaxArr] /\ arrays \in Nat /\ \A o1 \in Obj : arr[o1] <= arrays /\ arr[o1] \in Nat
  BY Bounds DEF TabsInv, StateOK, ArraysOK
<1>4. ASSUME NEW p \in Obj  PROVE arr'[p] <= arrays'
  BY <1>1, <1>2, <1>3
<1>5. arr'[o] = arrays + 1
  BY <1>2, <1>3
<1>6. ASSUME NEW x \in IdsOf(s)  PROVE arr'[ObjOf(tabs', x)] = arr[ObjOf(s, x)]
  <2>1. ObjOf(s, x) \in Obj /\ ObjOf(s, x).id = x /\ x # id
    BY ObjIs
  <2>2. QED  BY <1>2, <1>3, <2>1
<1>7. QED  BY <1>1, <1>2, <1>4, <1>5, <1>6

LEMMA CopyArrays ==
  ASSUME TabsInv, ArraysOK, active \in IdsOf(tabs), CopyActive
  PROVE  /\ arrays' = arrays /\ list' = list /\ IdsOf(tabs') = IdsOf(tabs)
         /\ \A o \in Obj : arr'[o] <= arrays'
         /\ \A x \in IdsOf(tabs) : arr'[ObjOf(tabs', x)] = arr[ObjOf(tabs, x)]
<1>1. arrays' = arrays /\ list' = list
  BY CopyIs DEF TabsInv
<1>2. PICK o \in Obj :
        /\ o.id = active /\ IdsOf(tabs') = IdsOf(tabs)
        /\ \A x \in IdsOf(tabs) : ObjOf(tabs', x) = IF x = active THEN o ELSE ObjOf(tabs, x)
        /\ arr' = [arr EXCEPT ![o] = arr[ObjOf(tabs, active)]]
  BY CopyIs DEF TabsInv
<1>3. arr \in [Obj -> 1..MaxArr] /\ tabs \in Lists /\ \A o1 \in Obj : arr[o1] <= arrays
  BY DEF TabsInv, StateOK, ArraysOK
<1>4. ASSUME NEW x \in IdsOf(tabs)
      PROVE  ObjOf(tabs, x) \in Obj /\ arr'[ObjOf(tabs', x)] = arr[ObjOf(tabs, x)]
  <2>1. ObjOf(tabs, x) \in Obj /\ ObjOf(tabs, x).id = x
    BY <1>3, ObjIs
  <2>2. QED  BY <1>2, <1>3, <2>1
<1>5. ASSUME NEW p \in Obj  PROVE arr'[p] <= arrays'
  BY <1>1, <1>2, <1>3, <1>4
<1>6. QED  BY <1>1, <1>2, <1>4, <1>5

\* setTabResults([]) for the active tab.
LEMMA FreshArrays ==
  ASSUME TabsInv, ArraysOK, active \in IdsOf(tabs), FreshResults, tabs' = tabs
  PROVE  /\ arrays' = arrays + 1 /\ arrays' \in 1..MaxArr
         /\ \A o \in Obj : arr'[o] <= arrays'
         /\ \A x \in IdsOf(tabs) :
              arr'[ObjOf(tabs', x)] = IF x = active THEN arrays + 1 ELSE arr[ObjOf(tabs, x)]
<1>1. /\ arrays' = arrays + 1 /\ arrays < MaxArr
      /\ arr' = [arr EXCEPT ![ObjOf(tabs, active)] = arrays + 1]
  BY DEF FreshResults, Active
<1>2. /\ arr \in [Obj -> 1..MaxArr] /\ arrays \in 1..MaxArr /\ tabs \in Lists
      /\ \A o1 \in Obj : arr[o1] <= arrays /\ arr[o1] \in Nat
  BY Bounds DEF TabsInv, StateOK, ArraysOK
<1>3. ASSUME NEW p \in Obj  PROVE arr'[p] <= arrays'
  BY <1>1, <1>2
<1>4. ASSUME NEW x \in IdsOf(tabs)
      PROVE  arr'[ObjOf(tabs', x)] = IF x = active THEN arrays + 1 ELSE arr[ObjOf(tabs, x)]
  <2>1. ObjOf(tabs, x) \in Obj /\ ObjOf(tabs, x).id = x /\ ObjOf(tabs, active).id = active
    BY <1>2, ObjIs
  <2>2. QED  BY <1>1, <1>2, <2>1
<1>5. arrays' \in 1..MaxArr
  BY <1>1, <1>2, Bounds
<1>6. QED  BY <1>1, <1>3, <1>4, <1>5

LEMMA ArraysStep == TabsInv /\ TabsInv' /\ ArraysOK /\ [Next]_vars => ArraysOK'
<1> SUFFICES ASSUME TabsInv, TabsInv', ArraysOK, [Next]_vars PROVE ArraysOK'
  OBVIOUS
<1>0. /\ tabs \in Lists /\ IdsOf(tabs) \subseteq used \cup Tables /\ arrays \in Nat /\ arrays' \in Nat
      /\ \A s \in adds : s \in Lists /\ IdsOf(s) \subseteq used \cup Tables
      /\ Fresh \subseteq Ids /\ Tables \subseteq Ids /\ Fresh \cap Tables = {}
  BY IdsDistinct, Bounds DEF TabsInv, StateOK, ListsInv, Ids
<1>1. /\ \A o \in Obj : arr[o] <= arrays
      /\ \A a \in 1..MaxArr : a > arrays => list[a] = <<>>
      /\ \A r \in InFlight : r.tab \in used \cup Tables
  BY DEF ArraysOK
\* What most steps leave alone.
<1>2. ASSUME arrays' = arrays \/ arrays' = arrays + 1, list' = list,
             \A o \in Obj : arr'[o] <= arrays'
      PROVE  /\ \A o \in Obj : arr'[o] <= arrays'
             /\ \A a \in 1..MaxArr : a > arrays' => list'[a] = <<>>
  BY <1>0, <1>1, <1>2
<1>3. ASSUME InFlight' \subseteq InFlight, used \subseteq used'
      PROVE  \A r \in InFlight' : r.tab \in used' \cup Tables
  BY <1>1, <1>3
<1>4. ASSUME NEW s \in Lists, NEW id \in Ids, id \notin IdsOf(s), Push(s, id),
             UNCHANGED <<pending, wire>>, used \subseteq used'
      PROVE  ArraysOK'
  <2>1. arrays' = arrays + 1 /\ list' = list /\ \A o \in Obj : arr'[o] <= arrays'
    BY <1>4, PushArrays
  <2>2. InFlight' = InFlight
    BY <1>4 DEF InFlight
  <2>3. QED  BY <1>2, <1>3, <1>4, <2>1, <2>2 DEF ArraysOK
<1>5. ASSUME NEW f \in Fresh, FirstId(f)  PROVE ArraysOK'
  BY <1>0, <1>4, <1>5, EmptyIsList DEF FirstId
<1>6. ASSUME NEW s \in adds, NEW f \in Fresh, GotId(s, f)  PROVE ArraysOK'
  BY <1>0, <1>4, <1>6 DEF GotId
<1>7. ASSUME NEW k \in Tables, OpenTable(k)  PROVE ArraysOK'
  <2>1. CASE k \in OpenIds
    BY <1>7, <2>1, <1>1 DEF OpenTable, ArraysOK, InFlight, net
  <2>2. CASE k \notin OpenIds
    BY <1>0, <1>4, <1>7, <2>2 DEF OpenTable, OpenIds, net
  <2>3. QED  BY <2>1, <2>2
<1>8. ASSUME Format \/ PickDatabase  PROVE ArraysOK'
  <2>1. active \in IdsOf(tabs) /\ CopyActive /\ UNCHANGED net
    BY <1>8 DEF Format, PickDatabase, OnTab, OpenIds
  <2>2. InFlight' = InFlight /\ used' = used
    BY <2>1 DEF InFlight, net
  <2>3. arrays' = arrays /\ list' = list /\ \A o \in Obj : arr'[o] <= arrays'
    BY <2>1, CopyArrays
  <2>4. QED  BY <1>2, <1>3, <2>2, <2>3 DEF ArraysOK
<1>9. ASSUME NEW k \in 1..MaxStmt, RunQuery(k)  PROVE ArraysOK'
  <2>1. FreshResults /\ UNCHANGED <<list, used, tabs>>
    BY <1>9 DEF RunQuery
  <2>2. active \in IdsOf(tabs) /\ \A r \in InFlight' : r \in InFlight \/ r.tab = active
    BY <1>9, Running
  <2>3. arrays' = arrays + 1 /\ \A o \in Obj : arr'[o] <= arrays'
    BY <2>1, <2>2, FreshArrays
  <2>4. QED  BY <1>0, <1>1, <1>2, <2>1, <2>2, <2>3 DEF ArraysOK
<1>10. ASSUME NEW turned \in BOOLEAN, Ask(turned)  PROVE ArraysOK'
  <2>1. UNCHANGED <<arr, arrays, list, used>>
    BY <1>10 DEF Ask, state
  <2>2. active \in IdsOf(tabs) /\ \A r \in InFlight' : r \in InFlight \/ r.tab = active
    BY <1>10, Asking
  <2>3. QED  BY <1>0, <1>1, <2>1, <2>2 DEF ArraysOK
<1>11. ASSUME NEW ok \in BOOLEAN, Reply(ok)  PROVE ArraysOK'
  <2> DEFINE r == Head(wire)
             it == [tab |-> r.tab, n |-> r.n, run |-> r.run, ok |-> ok]
             a == arr[ObjOf(tabs, r.tab)]
  <2>1. Statements /\ used' = used
    BY <1>11, ReplyIs DEF Statements
  <2>2. InFlight' \subseteq InFlight
    BY <2>1, Leaving
  <2>3. CASE NoTab(r)
    <3>1. UNCHANGED <<arr, list, arrays>>
      BY <1>11, <2>3, ReplyIs
    <3>2. QED  BY <1>1, <1>3, <2>1, <2>2, <3>1 DEF ArraysOK
  <2>4. CASE ~NoTab(r)
    <3>1. /\ r.tab \in IdsOf(tabs) /\ active \in IdsOf(tabs)
          /\ \/ /\ arrays' = arrays /\ list' = [list EXCEPT ![a] = Merged(list[a], it)]
                /\ arr' = [arr EXCEPT ![ObjOf(tabs, active)] = a]
             \/ /\ arrays' = arrays + 1 /\ list' = [list EXCEPT ![arrays + 1] = <<it>>]
                /\ arr' = [arr EXCEPT ![ObjOf(tabs, active)] = arrays + 1]
      BY <1>11, <2>4, ReplyIs
    <3>2. a \in 1..MaxArr /\ a <= arrays
      BY <1>0, <1>1, <3>1, ObjIs DEF TabsInv, StateOK
    <3>3. arr \in [Obj -> 1..MaxArr] /\ list \in [1..MaxArr -> Seq(Item)]
          /\ \A o \in Obj : arr[o] \in Nat
      BY Bounds DEF TabsInv, StateOK
    <3> HIDE DEF r, it, a
    <3>4. ASSUME NEW o \in Obj  PROVE arr'[o] <= arrays'
      <4>1. \/ arr'[o] = arr[o] /\ (arrays' = arrays \/ arrays' = arrays + 1)
            \/ arr'[o] = a /\ arrays' = arrays
            \/ arr'[o] = arrays + 1 /\ arrays' = arrays + 1
        BY <3>1, <3>3
      <4>2. arr[o] \in Nat /\ arr[o] <= arrays /\ a \in Nat /\ a <= arrays
        BY <1>1, <3>2, <3>3, Bounds
      <4>3. QED  BY <1>0, <4>1, <4>2
    <3>5. ASSUME NEW b \in 1..MaxArr, b > arrays'  PROVE list'[b] = <<>>
      <4>1. b > arrays /\ b # a /\ (arrays' = arrays + 1 => b # arrays + 1) /\ list[b] = <<>>
        BY <1>0, <1>1, <3>1, <3>2, <3>5, Bounds
      <4>2. QED  BY <3>1, <3>3, <4>1
    <3>6. QED  BY <1>3, <2>1, <2>2, <3>4, <3>5 DEF ArraysOK
  <2>5. QED  BY <2>3, <2>4
<1>12. (\E r \in pending : Fire(r)) \/ Drop
       => InFlight' \subseteq InFlight /\ UNCHANGED <<arr, arrays, list, used>>
  <2>1. (\E r \in pending : Fire(r)) \/ Drop => Statements /\ UNCHANGED <<arr, arrays, list, used>>
    BY DEF Statements, Fire, Drop, state
  <2>2. QED  BY <2>1, Leaving
<1>13. AddTab \/ (\E id \in Ids : Switch(id) \/ CloseTab(id)) \/ (\E i \in 1..MaxGen : Drag(i))
         \/ MenuClose \/ AskReset \/ (\E yes \in BOOLEAN : Answer(yes)) \/ Select
         \/ TypeText \/ TypeFilter \/ Settle \/ UNCHANGED vars
       => InFlight' \subseteq InFlight /\ UNCHANGED <<arr, arrays, list, used>>
  BY DEF AddTab, Switch, CloseTab, Drag, MenuClose, AskReset, Answer, Select, TypeText,
     TypeFilter, Edited, Settle, vars, state, net, InFlight
<1>14. CASE InFlight' \subseteq InFlight /\ UNCHANGED <<arr, arrays, list, used>>
  BY <1>1, <1>3, <1>14 DEF ArraysOK
<1>15. QED
  BY <1>5, <1>6, <1>7, <1>8, <1>9, <1>10, <1>11, <1>12, <1>13, <1>14 DEF Next, Deed, Statements

\* Steps that send nothing and change no results: a tab keeps its array, and a new
\* tab, of an identifier not used before or of a table, gets one that was just made.
LEMMA StayHome ==
  ASSUME TabsInv, ArraysOK, HomeOK, UNCHANGED <<list, lastRun, pending, wire>>, NEW new,
         \A x \in IdsOf(tabs') :
            \/ x \in IdsOf(tabs) /\ arr'[ObjOf(tabs', x)] = arr[ObjOf(tabs, x)]
            \/ /\ x = new /\ (x \in Tables \/ x \notin used \cup Tables)
               /\ arrays + 1 \in 1..MaxArr /\ arr'[ObjOf(tabs', x)] = arrays + 1
  PROVE  HomeOK'
<1>1. /\ tabs \in Lists /\ arrays \in Nat
      /\ arrays + 1 \in 1..MaxArr => list[arrays + 1] = <<>>
      /\ \A x \in IdsOf(tabs) : arr[ObjOf(tabs, x)] <= arrays /\ arr[ObjOf(tabs, x)] \in Nat
  <2>1. tabs \in Lists /\ arrays \in Nat
    BY Bounds DEF TabsInv, StateOK
  <2>2. \A x \in IdsOf(tabs) : ObjOf(tabs, x) \in Obj
    BY <2>1, ObjIs
  <2>3. QED  BY <2>1, <2>2, Bounds DEF TabsInv, StateOK, ArraysOK
<1> DEFINE Old(x) == x \in IdsOf(tabs) /\ arr'[ObjOf(tabs', x)] = arr[ObjOf(tabs, x)]
           Made(x) == /\ x = new /\ (x \in Tables \/ x \notin used \cup Tables)
                      /\ list[arrays + 1] = <<>> /\ arr'[ObjOf(tabs', x)] = arrays + 1
<1>2. \A x \in IdsOf(tabs') : Old(x) \/ Made(x)
  BY <1>1
<1>3. OwnArrays'
  <2>1. ASSUME NEW x \in IdsOf(tabs'), NEW y \in IdsOf(tabs'),
               arr'[ObjOf(tabs', x)] = arr'[ObjOf(tabs', y)]
        PROVE  x = y
    <3>1. CASE Old(x) /\ Old(y)
      BY <2>1, <3>1 DEF HomeOK, OwnArrays
    <3>2. CASE (Old(x) /\ Made(y)) \/ (Made(x) /\ Old(y))
      <4>1. PICK z \in IdsOf(tabs) : arr[ObjOf(tabs, z)] = arrays + 1
        BY <2>1, <3>2
      <4>2. QED  BY <1>1, <4>1
    <3>3. CASE Made(x) /\ Made(y)
      BY <3>3
    <3>4. (Old(x) \/ Made(x)) /\ (Old(y) \/ Made(y))
      BY <1>2
    <3> HIDE DEF Old, Made
    <3>5. QED  BY <3>1, <3>2, <3>3, <3>4
  <2>2. QED  BY <2>1 DEF OwnArrays
<1>4. ASSUME NEW x \in IdsOf(tabs')  PROVE OwnResults(x)'
  <2>1. CASE Old(x)
    <3>1. list'[arr'[ObjOf(tabs', x)]] = list[arr[ObjOf(tabs, x)]] /\ OwnResults(x)
      BY <2>1 DEF HomeOK
    <3>2. QED  BY <3>1 DEF OwnResults
  <2>2. CASE Made(x)
    BY <2>2 DEF OwnResults
  <2>3. QED  BY <1>2, <2>1, <2>2
<1>5. ASSUME NEW r \in InFlight'  PROVE Expected(r)'
  <2>1. r \in InFlight /\ Expected(r) /\ r.tab \in used \cup Tables
    BY DEF InFlight, HomeOK, ArraysOK
  <2>2. SUFFICES ASSUME OfEditor(r), r.tab \in IdsOf(tabs')
                 PROVE  LET s == list'[arr'[ObjOf(tabs', r.tab)]] IN
                        r.run = lastRun'[r.tab] /\ \A j \in DOMAIN s : s[j].n # r.n
    BY DEF Expected, OfEditor
  <2>3. r.tab \notin Tables
    BY <2>2 DEF OfEditor, TypeOf
  <2>4. Old(r.tab)
    BY <1>2, <2>1, <2>2, <2>3
  <2>5. QED  BY <2>1, <2>2, <2>4 DEF Expected
<1>6. SlotsOK'
  BY DEF HomeOK, SlotsOK, SameSlot, OfEditor
<1>7. QED  BY <1>3, <1>4, <1>5, <1>6 DEF HomeOK

\* Statements that leave the slots of the others alone.
LEMMA FewerExpected ==
  ASSUME HomeOK, UNCHANGED <<tabs, arr, list, lastRun>>, InFlight' \subseteq InFlight, SlotsOK'
  PROVE  HomeOK'
BY DEF HomeOK, OwnArrays, OwnResults, Expected, OfEditor

LEMMA TailSlots ==
  ASSUME TabsInv, SlotsOK, wire # <<>>, wire' = Tail(wire), pending' = pending
  PROVE  /\ SlotsOK'
         /\ \A i \in DOMAIN wire' : ~SameSlot(Head(wire), wire'[i])
         /\ \A r \in pending : ~SameSlot(Head(wire), r)
<1>1. /\ wire \in Seq(Req) /\ Len(wire) \in Nat /\ DOMAIN wire = 1..Len(wire)
      /\ 1 \in DOMAIN wire /\ Head(wire) = wire[1] /\ DOMAIN wire' = 1..(Len(wire) - 1)
      /\ \A i \in DOMAIN wire' : wire'[i] = wire[i + 1] /\ i + 1 \in DOMAIN wire /\ i + 1 # 1
  BY DEF TabsInv, NetOK
<1>2. \A i, j \in DOMAIN wire' : SameSlot(wire'[i], wire'[j]) => i = j
  BY <1>1 DEF SlotsOK
<1>3. \A i \in DOMAIN wire' : ~SameSlot(Head(wire), wire'[i])
  BY <1>1 DEF SlotsOK
<1>4. \A r \in pending : ~SameSlot(Head(wire), r)
  BY <1>1 DEF SlotsOK
<1>5. \A i \in DOMAIN wire', r \in pending' : ~SameSlot(wire'[i], r)
  BY <1>1 DEF SlotsOK
<1>6. QED  BY <1>2, <1>3, <1>4, <1>5 DEF SlotsOK, SameSlot, OfEditor

LEMMA FireHome ==
  ASSUME TabsInv, HomeOK, NEW r \in pending, Fire(r)
  PROVE  HomeOK'
<1>1. /\ pending' = pending \ {r} /\ wire' = Append(wire, r) /\ r \in Req /\ wire \in Seq(Req)
      /\ UNCHANGED <<tabs, arr, list, lastRun>>
  BY DEF Fire, TabsInv, NetOK, state, hist
<1>2. /\ Len(wire) \in Nat /\ DOMAIN wire = 1..Len(wire) /\ DOMAIN wire' = 1..(Len(wire) + 1)
      /\ wire'[Len(wire) + 1] = r /\ \A i \in DOMAIN wire : wire'[i] = wire[i]
  BY <1>1
<1>3. ASSUME NEW i \in DOMAIN wire', NEW j \in DOMAIN wire', SameSlot(wire'[i], wire'[j])
      PROVE  i = j
  <2>1. SameSlot(wire'[j], wire'[i])
    BY <1>3 DEF SameSlot
  <2>2. CASE i \in DOMAIN wire /\ j \in DOMAIN wire
    BY <1>2, <1>3, <2>2 DEF HomeOK, SlotsOK
  <2>3. CASE i \in DOMAIN wire /\ j \notin DOMAIN wire
    BY <1>2, <1>3, <2>3 DEF HomeOK, SlotsOK
  <2>4. CASE i \notin DOMAIN wire /\ j \in DOMAIN wire
    BY <1>2, <2>1, <2>4 DEF HomeOK, SlotsOK
  <2>5. CASE i \notin DOMAIN wire /\ j \notin DOMAIN wire
    BY <1>2, <2>5
  <2>6. QED  BY <2>2, <2>3, <2>4, <2>5
<1>4. ASSUME NEW i \in DOMAIN wire', NEW q \in pending'  PROVE ~SameSlot(wire'[i], q)
  <2>1. q \in pending /\ q # r
    BY <1>1
  <2>2. CASE i \in DOMAIN wire
    BY <1>2, <2>1, <2>2 DEF HomeOK, SlotsOK
  <2>3. CASE i \notin DOMAIN wire
    <3>1. wire'[i] = r
      BY <1>2, <2>3
    <3>2. QED  BY <2>1, <3>1 DEF HomeOK, SlotsOK
  <2>4. QED  BY <2>2, <2>3
<1>5. \A p, q \in pending' : SameSlot(p, q) => p = q
  BY <1>1 DEF HomeOK, SlotsOK
<1>6. SlotsOK'
  BY <1>3, <1>4, <1>5 DEF SlotsOK, SameSlot, OfEditor
<1>7. InFlight' \subseteq InFlight
  <2>1. Statements
    BY DEF Statements
  <2>2. QED  BY <2>1, Leaving
<1>8. QED  BY <1>1, <1>6, <1>7, FewerExpected

\* A run has the array and the number it starts with to itself, when no statement
\* of an earlier one is under way.
LEMMA RunHome ==
  ASSUME TabsInv, ArraysOK, HomeOK, NEW k \in 1..MaxStmt, RunQuery(k), "rerun" \notin harm'
  PROVE  HomeOK'
<1> DEFINE stmt(n) == [tab |-> active, page |-> FALSE, n |-> n, run |-> runs + 1,
                       sql |-> What, shown |-> Shown(active)]
<1>1. /\ wire' = Append(wire, stmt(1)) /\ pending' = pending \cup {stmt(n) : n \in 2..k}
      /\ lastRun' = [lastRun EXCEPT ![active] = runs + 1]
      /\ \A r \in InFlight : r.tab # active
      /\ active \in IdsOf(tabs) /\ FreshResults /\ UNCHANGED <<tabs, list>>
      /\ TypeOf(active) = "editor"
  BY DEF RunQuery, OnTab, OpenIds
<1>2. \A n : stmt(n).tab = active /\ stmt(n).n = n /\ stmt(n).run = runs + 1 /\ ~stmt(n).page
  OBVIOUS
<1>3. wire \in Seq(Req) /\ wire' \in Seq(Req)
  <2>1. Deed
    BY DEF Deed
  <2>2. QED  BY <2>1, DeedTypes DEF TabsInv, NetOK
<1> HIDE DEF stmt
<1>4. /\ Len(wire) \in Nat /\ DOMAIN wire = 1..Len(wire) /\ DOMAIN wire' = 1..(Len(wire) + 1)
      /\ wire'[Len(wire) + 1] = stmt(1) /\ \A i \in DOMAIN wire : wire'[i] = wire[i]
  BY <1>1, <1>3
<1>5. /\ \A i \in DOMAIN wire : wire[i].tab # active
      /\ \A r \in pending : r.tab # active
  BY <1>1 DEF InFlight, Range
<1>6. SlotsOK'
  <2>1. ASSUME NEW i \in DOMAIN wire', NEW j \in DOMAIN wire', SameSlot(wire'[i], wire'[j])
        PROVE  i = j
    <3>1. CASE i \in DOMAIN wire /\ j \in DOMAIN wire
      BY <1>4, <2>1, <3>1 DEF HomeOK, SlotsOK
    <3>2. CASE ~(i \in DOMAIN wire /\ j \in DOMAIN wire)
      BY <1>2, <1>4, <1>5, <2>1, <3>2 DEF SameSlot
    <3>3. QED  BY <3>1, <3>2
  <2>2. ASSUME NEW i \in DOMAIN wire', NEW q \in pending'  PROVE ~SameSlot(wire'[i], q)
    <3>1. q \in pending \/ \E n \in 2..k : q = stmt(n)
      BY <1>1
    <3>2. CASE i \in DOMAIN wire
      BY <1>2, <1>4, <1>5, <3>1, <3>2 DEF HomeOK, SlotsOK, SameSlot
    <3>3. CASE i \notin DOMAIN wire
      <4>1. wire'[i] = stmt(1)
        BY <1>4, <3>3
      <4>2. \A n \in 2..k : n # 1
        OBVIOUS
      <4>3. QED  BY <1>2, <1>5, <3>1, <4>1, <4>2 DEF SameSlot
    <3>4. QED  BY <3>2, <3>3
  <2>3. ASSUME NEW p \in pending', NEW q \in pending', SameSlot(p, q)  PROVE p = q
    <3>1. (p \in pending \/ \E n \in 2..k : p = stmt(n)) /\ (q \in pending \/ \E n \in 2..k : q = stmt(n))
      BY <1>1
    <3>2. QED  BY <1>2, <1>5, <2>3, <3>1 DEF HomeOK, SlotsOK, SameSlot
  <2>4. QED  BY <2>1, <2>2, <2>3 DEF SlotsOK, SameSlot, OfEditor
<1>7. /\ arrays + 1 \in 1..MaxArr /\ arrays \in Nat
      /\ \A x \in IdsOf(tabs) :
           arr'[ObjOf(tabs', x)] = IF x = active THEN arrays + 1 ELSE arr[ObjOf(tabs, x)]
  BY <1>1, FreshArrays, Bounds DEF TabsInv, StateOK
<1>8. /\ \A x \in IdsOf(tabs) : arr[ObjOf(tabs, x)] \in Nat /\ arr[ObjOf(tabs, x)] <= arrays
      /\ list[arrays + 1] = <<>>
  <2>1. \A x \in IdsOf(tabs) : ObjOf(tabs, x) \in Obj
    BY ObjIs DEF TabsInv, StateOK
  <2>2. QED  BY <1>7, <2>1, Bounds DEF ArraysOK, TabsInv, StateOK
<1>9. OwnArrays'
  <2>1. ASSUME NEW x \in IdsOf(tabs), NEW y \in IdsOf(tabs),
               arr'[ObjOf(tabs', x)] = arr'[ObjOf(tabs', y)]
        PROVE  x = y
    <3>1. CASE x = active \/ y = active
      BY <1>7, <1>8, <2>1, <3>1
    <3>2. CASE x # active /\ y # active
      BY <1>7, <2>1, <3>2 DEF HomeOK, OwnArrays
    <3>3. QED  BY <3>1, <3>2
  <2>2. QED  BY <1>1, <2>1 DEF OwnArrays
<1>10. lastRun'[active] = runs + 1 /\ \A x \in IdsOf(tabs) : x # active => lastRun'[x] = lastRun[x]
  <2>1. lastRun \in [Ids -> 0..MaxRun] /\ active \in Ids
    BY DEF TabsInv, StateOK, CountOK
  <2>2. QED  BY <1>1, <2>1
<1>11. ASSUME NEW x \in IdsOf(tabs)
       PROVE  list'[arr'[ObjOf(tabs', x)]] = IF x = active THEN <<>> ELSE list[arr[ObjOf(tabs, x)]]
  BY <1>1, <1>7, <1>8
<1>12. ASSUME NEW x \in IdsOf(tabs')  PROVE OwnResults(x)'
  <2>1. CASE x = active
    BY <1>1, <1>11, <2>1 DEF OwnResults
  <2>2. CASE x # active
    <3>1. OwnResults(x)
      BY <1>1 DEF HomeOK
    <3>2. QED  BY <1>1, <1>10, <1>11, <2>2, <3>1 DEF OwnResults
  <2>3. QED  BY <2>1, <2>2
<1>13. ASSUME NEW r \in InFlight'  PROVE Expected(r)'
  <2>1. \/ r \in InFlight /\ r.tab # active /\ Expected(r)
        \/ r.tab = active /\ r.run = runs + 1
    BY <1>1, Running DEF HomeOK
  <2>2. CASE r \in InFlight /\ r.tab # active /\ Expected(r)
    BY <1>1, <1>10, <1>11, <2>2 DEF Expected, OfEditor
  <2>3. CASE r.tab = active /\ r.run = runs + 1
    BY <1>1, <1>10, <1>11, <2>3 DEF Expected, OfEditor
  <2>4. QED  BY <2>1, <2>2, <2>3
<1>14. QED  BY <1>6, <1>9, <1>12, <1>13 DEF HomeOK

\* A filter's statement, and a page, have no slot.
LEMMA AskHome ==
  ASSUME TabsInv, HomeOK, NEW turned \in BOOLEAN, Ask(turned)
  PROVE  HomeOK'
<1> DEFINE r == [tab |-> active, page |-> turned /\ TypeOf(active) = "editor", n |-> 1,
                 run |-> runs + 1, sql |-> text[Active], shown |-> text[Active]]
<1>1. /\ wire' = Append(wire, r) /\ pending' = pending /\ active \in IdsOf(tabs)
      /\ UNCHANGED <<tabs, arr, list>>
      /\ TypeOf(active) = "editor" => turned /\ lastRun' = lastRun
      /\ lastRun' = lastRun \/ lastRun' = [lastRun EXCEPT ![active] = runs + 1]
  BY DEF Ask, OnTab, OpenIds, state, TypeOf
<1>2. ~OfEditor(r) /\ r.tab = active
  BY <1>1 DEF OfEditor
<1>3. wire \in Seq(Req) /\ wire' \in Seq(Req)
  <2>1. Deed
    BY DEF Deed
  <2>2. QED  BY <2>1, DeedTypes DEF TabsInv, NetOK
<1> HIDE DEF r
<1>4. /\ Len(wire) \in Nat /\ DOMAIN wire = 1..Len(wire) /\ DOMAIN wire' = 1..(Len(wire) + 1)
      /\ wire'[Len(wire) + 1] = r /\ \A i \in DOMAIN wire : wire'[i] = wire[i]
  BY <1>1, <1>3
<1>5. \A i \in DOMAIN wire' : OfEditor(wire'[i]) => i \in DOMAIN wire /\ wire'[i] = wire[i]
  BY <1>2, <1>4
<1>6. SlotsOK'
  BY <1>1, <1>5 DEF HomeOK, SlotsOK, SameSlot, OfEditor
<1>7. \A q \in InFlight' : OfEditor(q) => q \in InFlight
  BY <1>1, <1>5 DEF InFlight, Range
<1>8. \A x \in IdsOf(tabs) : TypeOf(x) = "editor" => lastRun'[x] = lastRun[x]
  <2>1. lastRun \in [Ids -> 0..MaxRun] /\ \A x \in IdsOf(tabs) : x \in Ids
    BY ObjIs DEF TabsInv, StateOK, CountOK, Obj
  <2>2. ASSUME NEW x \in IdsOf(tabs), TypeOf(x) = "editor"  PROVE lastRun'[x] = lastRun[x]
    <3>1. CASE x = active
      BY <1>1, <2>2, <3>1
    <3>2. CASE x # active
      BY <1>1, <2>1, <3>2
    <3>3. QED  BY <3>1, <3>2
  <2>3. QED  BY <2>2
<1>9. ASSUME NEW x \in IdsOf(tabs')  PROVE OwnResults(x)'
  <2>1. x \in IdsOf(tabs) /\ list'[arr'[ObjOf(tabs', x)]] = list[arr[ObjOf(tabs, x)]]
    BY <1>1
  <2>2. OwnResults(x)
    BY <2>1 DEF HomeOK
  <2>3. QED  BY <1>8, <2>1, <2>2 DEF OwnResults
<1>10. ASSUME NEW q \in InFlight'  PROVE Expected(q)'
  <2>1. CASE ~OfEditor(q)
    BY <2>1 DEF Expected, OfEditor
  <2>2. CASE OfEditor(q)
    <3>1. Expected(q)
      BY <1>7, <2>2 DEF HomeOK
    <3>2. QED  BY <1>1, <1>8, <2>2, <3>1 DEF Expected, OfEditor
  <2>3. QED  BY <2>1, <2>2
<1>11. OwnArrays'
  BY <1>1 DEF HomeOK, OwnArrays
<1>12. QED  BY <1>6, <1>9, <1>10, <1>11, <1>1 DEF HomeOK

\* An answer that finds its tab active.
LEMMA ReplyHome ==
  ASSUME TabsInv, ArraysOK, HomeOK, NEW ok \in BOOLEAN, Reply(ok), "strayed" \notin harm'
  PROVE  HomeOK'
<1> DEFINE r == Head(wire)
           it == [tab |-> r.tab, n |-> r.n, run |-> r.run, ok |-> ok]
           a == arr[ObjOf(tabs, r.tab)]
<1>1. /\ wire # <<>> /\ wire' = Tail(wire) /\ pending' = pending
      /\ UNCHANGED <<tabs, active, lastRun>>
  BY ReplyIs
<1>2. /\ SlotsOK'
      /\ \A i \in DOMAIN wire' : ~SameSlot(r, wire'[i])
      /\ \A q \in pending : ~SameSlot(r, q)
  BY <1>1, TailSlots DEF HomeOK
<1>3. InFlight' \subseteq InFlight /\ r \in InFlight /\ \A q \in InFlight' : ~SameSlot(r, q)
  <2>1. Statements
    BY DEF Statements
  <2>2. InFlight' \subseteq InFlight
    BY <2>1, Leaving
  <2>3. r \in InFlight
    BY <1>1, Tails DEF TabsInv, NetOK, InFlight
  <2>4. \A q \in InFlight' : ~SameSlot(r, q)
    BY <1>1, <1>2 DEF InFlight, Range
  <2>5. QED  BY <2>2, <2>3, <2>4
<1>4. CASE NoTab(r)
  <2>1. UNCHANGED <<arr, list>>
    BY <1>4, ReplyIs
  <2>2. QED  BY <1>1, <1>2, <1>3, <2>1, FewerExpected
<1>5. CASE ~NoTab(r)
  <2>1. /\ r.tab = active /\ active \in IdsOf(tabs) /\ ~r.page /\ it \in Item
        /\ \/ /\ TypeOf(active) = "editor" /\ list' = [list EXCEPT ![a] = Merged(list[a], it)]
              /\ arr' = [arr EXCEPT ![ObjOf(tabs, active)] = a]
           \/ /\ TypeOf(active) = "filter" /\ arrays + 1 \in 1..MaxArr
              /\ list' = [list EXCEPT ![arrays + 1] = <<it>>]
              /\ arr' = [arr EXCEPT ![ObjOf(tabs, active)] = arrays + 1]
    BY <1>5, ReplyIs
  <2>2. it.tab = r.tab /\ it.n = r.n /\ it.run = r.run
    OBVIOUS
  <2> HIDE DEF it
  <2>3. /\ \A x \in IdsOf(tabs) : ObjOf(tabs, x) \in Obj /\ ObjOf(tabs, x).id = x
        /\ arr \in [Obj -> 1..MaxArr] /\ list \in [1..MaxArr -> Seq(Item)]
    BY ObjIs DEF TabsInv, StateOK
  <2>4. CASE TypeOf(active) = "editor"
    <3>1. /\ a \in 1..MaxArr /\ a = arr[ObjOf(tabs, active)] /\ arr' = arr
          /\ list' = [list EXCEPT ![a] = Merged(list[a], it)] /\ list[a] \in Seq(Item)
      BY <2>1, <2>3, <2>4
    <3> HIDE DEF a
    <3>2. /\ OwnResults(active)
          /\ r.run = lastRun[active] /\ \A j \in DOMAIN list[a] : list[a][j].n # r.n
      BY <1>3, <2>1, <2>4, <3>1 DEF HomeOK, Expected, OfEditor
    <3> HIDE DEF r
    <3>3. /\ \A j \in DOMAIN Merged(list[a], it) :
               \/ Merged(list[a], it)[j] = it
               \/ j \in DOMAIN list[a] /\ Merged(list[a], it)[j] = list[a][j]
          /\ \A j, k \in DOMAIN Merged(list[a], it) :
               Merged(list[a], it)[j].n = Merged(list[a], it)[k].n => j = k
      <4>1. \A j, k \in DOMAIN list[a] : list[a][j].n = list[a][k].n => j = k
        BY <3>1, <3>2 DEF OwnResults
      <4>2. ~ \E j \in DOMAIN list[a] : list[a][j].n = it.n
        BY <2>2, <3>2
      <4>3. QED  BY <2>1, <3>1, <4>1, <4>2, MergedIs
    <3>4. list'[a] = Merged(list[a], it) /\ \A b \in 1..MaxArr : b # a => list'[b] = list[b]
      BY <2>3, <3>1
    <3>5. OwnArrays'
      BY <1>1, <3>1 DEF HomeOK, OwnArrays
    <3>6. ASSUME NEW x \in IdsOf(tabs), x # active
          PROVE  list'[arr'[ObjOf(tabs', x)]] = list[arr[ObjOf(tabs, x)]]
      <4>1. arr[ObjOf(tabs, x)] # a
        BY <2>1, <3>1, <3>6 DEF HomeOK, OwnArrays
      <4>2. QED  BY <1>1, <2>3, <3>1, <3>4, <4>1
    <3>7. list'[arr'[ObjOf(tabs', active)]] = Merged(list[a], it)
      BY <1>1, <3>1, <3>4
    <3>8. ASSUME NEW x \in IdsOf(tabs')  PROVE OwnResults(x)'
      <4>1. CASE x = active
        <5>1. \A j \in DOMAIN Merged(list[a], it) :
                /\ Merged(list[a], it)[j].tab = active
                /\ Merged(list[a], it)[j].run = lastRun[active]
          BY SMTT(30), <2>1, <2>2, <2>4, <3>1, <3>2, <3>3 DEF OwnResults
        <5>2. QED  BY <1>1, <3>3, <3>7, <4>1, <5>1 DEF OwnResults
      <4>2. CASE x # active
        <5>1. OwnResults(x) /\ list'[arr'[ObjOf(tabs', x)]] = list[arr[ObjOf(tabs, x)]]
          BY <1>1, <3>6, <4>2 DEF HomeOK
        <5>2. QED  BY <1>1, <5>1 DEF OwnResults
      <4>3. QED  BY <4>1, <4>2
    <3>9. ASSUME NEW q \in InFlight'  PROVE Expected(q)'
      <4>1. SUFFICES ASSUME OfEditor(q), q.tab \in IdsOf(tabs)
                     PROVE  LET s == list'[arr'[ObjOf(tabs', q.tab)]] IN
                            q.run = lastRun'[q.tab] /\ \A j \in DOMAIN s : s[j].n # q.n
        BY <1>1 DEF Expected, OfEditor
      <4>2. Expected(q) /\ ~SameSlot(r, q)
        BY <1>3 DEF HomeOK
      <4>3. CASE q.tab = active
        <5>1. q.n # r.n
          BY <2>1, <2>4, <4>1, <4>2, <4>3 DEF SameSlot, OfEditor
        <5>2. q.run = lastRun[active] /\ \A j \in DOMAIN list[a] : list[a][j].n # q.n
          BY <3>1, <4>1, <4>2, <4>3 DEF Expected
        <5>3. \A j \in DOMAIN Merged(list[a], it) : Merged(list[a], it)[j].n # q.n
          BY <2>2, <3>3, <5>1, <5>2
        <5>4. QED  BY <1>1, <3>7, <4>3, <5>2, <5>3
      <4>4. CASE q.tab # active
        BY <1>1, <3>6, <4>1, <4>2, <4>4 DEF Expected
      <4>5. QED  BY <4>3, <4>4
    <3>10. QED  BY <1>2, <3>5, <3>8, <3>9 DEF HomeOK
  <2>5. CASE TypeOf(active) # "editor"
    <3>1. /\ arrays + 1 \in 1..MaxArr /\ list' = [list EXCEPT ![arrays + 1] = <<it>>]
          /\ arr' = [arr EXCEPT ![ObjOf(tabs, active)] = arrays + 1]
      BY <2>1, <2>5
    <3>2. \A x \in IdsOf(tabs) : arr[ObjOf(tabs, x)] \in 1..MaxArr /\ arr[ObjOf(tabs, x)] # arrays + 1
      <4>1. ASSUME NEW x \in IdsOf(tabs)
            PROVE  arr[ObjOf(tabs, x)] \in 1..MaxArr /\ arr[ObjOf(tabs, x)] <= arrays
        BY <2>3 DEF ArraysOK
      <4>2. arrays \in Nat
        BY Bounds DEF TabsInv, StateOK
      <4>3. QED  BY <4>1, <4>2, Bounds
    <3>3. /\ arr'[ObjOf(tabs', active)] = arrays + 1
          /\ \A x \in IdsOf(tabs) : x # active => arr'[ObjOf(tabs', x)] = arr[ObjOf(tabs, x)]
      BY <1>1, <2>1, <2>3, <3>1
    <3>4. /\ list'[arrays + 1] = <<it>>
          /\ \A x \in IdsOf(tabs) :
               x # active => list'[arr'[ObjOf(tabs', x)]] = list[arr[ObjOf(tabs, x)]]
      BY <2>3, <3>1, <3>2, <3>3
    <3>5. OwnArrays'
      BY <1>1, <3>2, <3>3 DEF HomeOK, OwnArrays
    <3>6. ASSUME NEW x \in IdsOf(tabs')  PROVE OwnResults(x)'
      <4>1. CASE x = active
        BY <1>1, <2>1, <2>2, <2>5, <3>3, <3>4, <4>1 DEF OwnResults
      <4>2. CASE x # active
        <5>1. OwnResults(x) /\ list'[arr'[ObjOf(tabs', x)]] = list[arr[ObjOf(tabs, x)]]
          BY <1>1, <3>4, <4>2 DEF HomeOK
        <5>2. QED  BY <1>1, <5>1 DEF OwnResults
      <4>3. QED  BY <4>1, <4>2
    <3>7. ASSUME NEW q \in InFlight'  PROVE Expected(q)'
      <4>1. SUFFICES ASSUME OfEditor(q), q.tab \in IdsOf(tabs)
                     PROVE  LET s == list'[arr'[ObjOf(tabs', q.tab)]] IN
                            q.run = lastRun'[q.tab] /\ \A j \in DOMAIN s : s[j].n # q.n
        BY <1>1 DEF Expected, OfEditor
      <4>2. Expected(q) /\ q.tab # active
        BY <1>3, <2>5, <4>1 DEF HomeOK, OfEditor
      <4>3. QED  BY <1>1, <3>4, <4>1, <4>2 DEF Expected
    <3>8. QED  BY <1>2, <3>5, <3>6, <3>7 DEF HomeOK
  <2>6. QED  BY <2>4, <2>5
<1>6. QED  BY <1>4, <1>5

LEMMA HomeStep == TabsInv /\ TabsInv' /\ ArraysOK /\ HomeInv /\ [Next]_vars => HomeInv'
<1> SUFFICES ASSUME TabsInv, TabsInv', ArraysOK, HomeInv, [Next]_vars, harm' \cap Estranged = {}
             PROVE  HomeOK'
  BY DEF HomeInv
<1>0. HomeOK
  BY HarmGrows DEF HomeInv
<1>1. /\ "early" \notin harm' /\ "overtaken" \notin harm' /\ "reverted" \notin harm'
      /\ "strayed" \notin harm' /\ "rerun" \notin harm'
  BY DEF Estranged
<1>2. /\ tabs \in Lists /\ active \in Ids /\ IdsOf(tabs) \subseteq used \cup Tables
      /\ \A s \in adds : s \in Lists /\ IdsOf(s) \subseteq used \cup Tables
      /\ Fresh \subseteq Ids /\ Tables \subseteq Ids /\ Fresh \cap Tables = {}
  BY IdsDistinct DEF TabsInv, StateOK, ListsInv, Ids
<1>3. ASSUME NEW s \in {tabs, <<>>}, NEW id \in Ids, id \notin IdsOf(s), Push(s, id),
             id \in Tables \/ id \notin used \cup Tables, UNCHANGED <<lastRun, pending, wire>>
      PROVE  HomeOK'
  <2>1. s \in Lists /\ \A x \in IdsOf(s) : x \in IdsOf(tabs) /\ ObjOf(s, x) = ObjOf(tabs, x)
    BY <1>2, EmptyIsList
  <2>2. /\ arrays' = arrays + 1 /\ list' = list /\ IdsOf(tabs') = IdsOf(s) \cup {id}
        /\ arr'[ObjOf(tabs', id)] = arrays + 1
        /\ \A x \in IdsOf(s) : arr'[ObjOf(tabs', x)] = arr[ObjOf(s, x)]
    BY <1>3, <2>1, PushArrays
  <2>3. arrays + 1 \in 1..MaxArr
    BY <2>2 DEF TabsInv, StateOK
  <2>4. \A x \in IdsOf(tabs') :
          \/ x \in IdsOf(tabs) /\ arr'[ObjOf(tabs', x)] = arr[ObjOf(tabs, x)]
          \/ /\ x = id /\ (x \in Tables \/ x \notin used \cup Tables)
             /\ arrays + 1 \in 1..MaxArr /\ arr'[ObjOf(tabs', x)] = arrays + 1
    BY <1>3, <2>1, <2>2, <2>3
  <2>5. QED  BY <1>0, <1>3, <2>2, <2>4, StayHome
<1>4. ASSUME UNCHANGED <<list, lastRun, pending, wire>>,
             \A x \in IdsOf(tabs') : x \in IdsOf(tabs) /\ arr'[ObjOf(tabs', x)] = arr[ObjOf(tabs, x)]
      PROVE  HomeOK'
  BY <1>0, <1>4, StayHome
<1>5. ASSUME UNCHANGED <<arr, list, lastRun, pending, wire>>,
             \A x \in IdsOf(tabs') : x \in IdsOf(tabs) /\ ObjOf(tabs', x) = ObjOf(tabs, x)
      PROVE  HomeOK'
  BY <1>4, <1>5
<1>6. ASSUME NEW f \in Fresh, FirstId(f)  PROVE HomeOK'
  <2>1. Push(<<>>, f) /\ f \notin used /\ UNCHANGED <<lastRun, pending, wire>>
    BY <1>6 DEF FirstId
  <2>2. f \notin IdsOf(<<>>) /\ f \in Ids /\ f \notin used \cup Tables
    BY <1>2, <2>1, EmptyIsList
  <2>3. QED  BY <1>3, <2>1, <2>2
<1>7. ASSUME NEW s \in adds, NEW f \in Fresh, GotId(s, f)  PROVE HomeOK'
  <2>1. Push(tabs, f) /\ f \notin used /\ UNCHANGED <<lastRun, pending, wire>>
    BY <1>1, <1>7 DEF GotId
  <2>2. f \notin IdsOf(tabs) /\ f \in Ids /\ f \notin used \cup Tables
    BY <1>2, <2>1
  <2>3. QED  BY <1>3, <2>1, <2>2
<1>8. ASSUME NEW k \in Tables, OpenTable(k)  PROVE HomeOK'
  <2>1. CASE k \in OpenIds
    BY <1>5, <1>8, <2>1 DEF OpenTable, net
  <2>2. CASE k \notin OpenIds
    BY <1>2, <1>3, <1>8, <2>2 DEF OpenTable, OpenIds, net
  <2>3. QED  BY <2>1, <2>2
<1>9. ASSUME NEW id \in Ids, CloseTab(id)  PROVE HomeOK'
  <2>1. UNCHANGED <<arr, list, lastRun, pending, wire>>
    BY <1>9 DEF CloseTab, hist
  <2>2. CASE text[ObjOf(tabs, id)] # 0
    BY <1>5, <1>9, <2>1, <2>2 DEF CloseTab
  <2>3. CASE text[ObjOf(tabs, id)] = 0
    <3>1. RemoveTab(id, tabs, active)
      BY <1>9, <2>3 DEF CloseTab
    <3>2. /\ IdsOf(tabs') = IdsOf(tabs) \ {id}
          /\ \A x \in IdsOf(tabs') : ObjOf(tabs', x) = ObjOf(tabs, x)
      BY <1>2, <3>1, RemoveIs
    <3>3. QED  BY <1>5, <2>1, <3>2
  <2>4. QED  BY <2>2, <2>3
<1>10. ASSUME NEW i \in 1..MaxGen, Drag(i)  PROVE HomeOK'
  <2>1. /\ UNCHANGED <<arr, list, lastRun, pending, wire>> /\ i \in DOMAIN tabs /\ i + 1 \in DOMAIN tabs
        /\ tabs' = [tabs EXCEPT ![i] = tabs[i + 1], ![i + 1] = tabs[i]]
    BY <1>10 DEF Drag, hist, net
  <2>2. IdsOf(tabs') = IdsOf(tabs) /\ \A x \in IdsOf(tabs) : ObjOf(tabs', x) = ObjOf(tabs, x)
    <3> DEFINE t == [tabs EXCEPT ![i] = tabs[i + 1], ![i + 1] = tabs[i]]
    <3>1. tabs \in Lists /\ i \in DOMAIN tabs /\ i + 1 \in DOMAIN tabs
      BY <1>2, <2>1
    <3>2. IdsOf(t) = IdsOf(tabs) /\ \A x \in IdsOf(tabs) : ObjOf(t, x) = ObjOf(tabs, x)
      BY <3>1, Dragged
    <3> HIDE DEF t
    <3>3. tabs' = t
      BY <2>1 DEF t
    <3>4. QED  BY <3>2, <3>3
  <2>3. QED  BY <1>5, <2>1, <2>2
<1>11. ASSUME NEW yes \in BOOLEAN, Answer(yes)  PROVE HomeOK'
  <2>1. /\ dialog.tabs = tabs /\ dialog.id \in Ids /\ dialog.active \in Ids
        /\ UNCHANGED <<arr, list, lastRun, pending, wire>>
    BY <1>1, <1>11 DEF Answer, TabsInv, ListsInv, Dialog
  <2>2. CASE dialog.what = "close"
    <3>1. RemoveTab(dialog.id, dialog.tabs, dialog.active)
      BY <1>11, <2>2 DEF Answer
    <3>2. /\ IdsOf(tabs') = IdsOf(tabs) \ {dialog.id}
          /\ \A x \in IdsOf(tabs') : ObjOf(tabs', x) = ObjOf(tabs, x)
      BY <1>2, <2>1, <3>1, RemoveIs
    <3>3. QED  BY <1>5, <2>1, <3>2
  <2>3. CASE dialog.what # "close"
    <3>1. tabs' = tabs
      BY <1>11, <2>1, <2>3 DEF Answer
    <3>2. QED  BY <1>5, <2>1, <3>1
  <2>4. QED  BY <2>2, <2>3
<1>12. ASSUME Format \/ PickDatabase  PROVE HomeOK'
  <2>1. active \in IdsOf(tabs) /\ CopyActive /\ UNCHANGED <<lastRun, pending, wire>>
    BY <1>12 DEF Format, PickDatabase, OnTab, OpenIds, hist, net
  <2>2. /\ list' = list /\ IdsOf(tabs') = IdsOf(tabs)
        /\ \A x \in IdsOf(tabs) : arr'[ObjOf(tabs', x)] = arr[ObjOf(tabs, x)]
    BY <2>1, CopyArrays
  <2>3. QED  BY <1>4, <2>1, <2>2
<1>13. ASSUME NEW k \in 1..MaxStmt, RunQuery(k)  PROVE HomeOK'
  BY <1>0, <1>1, <1>13, RunHome
<1>14. ASSUME NEW turned \in BOOLEAN, Ask(turned)  PROVE HomeOK'
  BY <1>0, <1>14, AskHome
<1>15. ASSUME NEW r \in pending, Fire(r)  PROVE HomeOK'
  BY <1>0, <1>15, FireHome
<1>16. ASSUME Drop  PROVE HomeOK'
  <2>1. wire' = <<>> /\ UNCHANGED <<tabs, arr, list, lastRun, pending>>
    BY <1>16 DEF Drop, state, hist
  <2>2. SlotsOK'
    BY <1>0, <2>1 DEF HomeOK, SlotsOK, SameSlot, OfEditor
  <2>3. InFlight' \subseteq InFlight
    <3>1. Statements
      BY <1>16 DEF Statements
    <3>2. QED  BY <3>1, Leaving
  <2>4. QED  BY <1>0, <2>1, <2>2, <2>3, FewerExpected
<1>17. ASSUME NEW ok \in BOOLEAN, Reply(ok)  PROVE HomeOK'
  BY <1>0, <1>1, <1>17, ReplyHome
<1>18. AddTab \/ (\E id \in Ids : Switch(id)) \/ MenuClose \/ AskReset \/ Select
         \/ TypeText \/ TypeFilter \/ Settle \/ UNCHANGED vars
       => UNCHANGED <<tabs, arr, list, lastRun, pending, wire>>
  BY DEF AddTab, Switch, MenuClose, AskReset, Select, TypeText, TypeFilter, Edited, Settle,
     vars, state, net, hist
<1>19. CASE UNCHANGED <<tabs, arr, list, lastRun, pending, wire>>
  BY <1>5, <1>19
<1>20. QED
  BY <1>6, <1>7, <1>8, <1>9, <1>10, <1>11, <1>12, <1>13, <1>14, <1>15, <1>16, <1>17, <1>18,
     <1>19 DEF Next, Deed, Statements

LEMMA InitHome == Init => ArraysOK /\ HomeInv
<1> SUFFICES ASSUME Init PROVE ArraysOK /\ HomeOK
  BY DEF HomeInv
<1> DEFINE o == [id |-> First, gen |-> 1]
<1>1. /\ tabs = <<o>> /\ pending = {} /\ wire = <<>> /\ arrays = 1
      /\ arr = [x \in Obj |-> 1] /\ list = [a \in 1..MaxArr |-> <<>>]
  BY DEF Init
<1>2. o \in Obj /\ o.id = First /\ 1 \in 1..MaxArr
  BY Bounds DEF Obj, Ids
<1> HIDE DEF o
<1>3. IdsOf(tabs) = {First} /\ ObjOf(tabs, First) \in Obj
  BY <1>1, <1>2, OneIsList, ObjIs
<1>4. InFlight = {}
  BY <1>1 DEF InFlight, Range
<1>5. list[arr[ObjOf(tabs, First)]] = <<>>
  BY <1>1, <1>2, <1>3
<1>6. ArraysOK
  BY <1>1, <1>4, Bounds DEF ArraysOK
<1>7. OwnArrays /\ SlotsOK /\ OwnResults(First)
  <2>1. OwnArrays /\ OwnResults(First)
    BY <1>3, <1>5 DEF OwnArrays, OwnResults
  <2>2. SlotsOK
    BY <1>1 DEF SlotsOK
  <2>3. QED  BY <2>1, <2>2
<1>8. QED  BY <1>3, <1>4, <1>6, <1>7 DEF HomeOK

\* Every result, shown or under way, is in the array of the tab it is for, unless a
\* mishap is on record, at any time.
THEOREM HomeInvariant == Spec => [](ArraysOK /\ HomeInv)
<1>1. TabsInv /\ TabsInv' /\ (ArraysOK /\ HomeInv) /\ [Next]_vars => (ArraysOK /\ HomeInv)'
  BY ArraysStep, HomeStep
<1>2. QED  BY <1>1, TabsInvariant, InitHome, PTL DEF Spec

\* A tab shows its own results, an editor those of its last run, each statement
\* once, unless an answer found another tab active, a run was started over a running
\* one, or tabs were replaced (tableRsesult, setTabResults, runQuery).
THEOREM ResultsAreAtHome == Spec => []ResultsAtHome
<1>1. HomeInv => ResultsAtHome
  <2>1. SUFFICES ASSUME HomeOK, NEW id \in IdsOf(tabs)
                 PROVE  LET s == list[arr[ObjOf(tabs, id)]] IN
                        /\ \A j \in DOMAIN s :
                             s[j].tab = id /\ (TypeOf(id) = "editor" => s[j].run = lastRun[id])
                        /\ \A j, k \in DOMAIN s : s[j].n = s[k].n => j = k
    BY DEF HomeInv, ResultsAtHome, Estranged, OpenIds, Results
  <2>2. QED  BY <2>1 DEF HomeOK, OwnResults
<1>2. QED  BY <1>1, HomeInvariant, PTL
=============================================================================
