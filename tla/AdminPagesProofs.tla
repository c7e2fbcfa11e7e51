--------------------------- MODULE AdminPagesProofs ---------------------------
(***************************************************************************)
(* The pages that keep records, the file browser and the page of settings, *)
(* for any number of records, names, texts, requests and mishaps: an       *)
(* inductive invariant of each of the four, and of the whole.              *)
(***************************************************************************)
EXTENDS MCAdminPages, SequenceTheorems, TLAPS

-----------------------------------------------------------------------------
\* The form of a page.

\* How the pages differ where the proofs ask for it: only pages that clear the key
\* after a save can copy, and their dialogs empty the form before it, and keep it else.
PageOK(p) ==
  /\ p.clears \in BOOLEAN /\ p.copies \in BOOLEAN
  /\ p.dialog.resets \in BOOLEAN /\ p.dialog.empties \in BOOLEAN
  /\ p.dialog.joins \in BOOLEAN /\ p.dialog.query \in BOOLEAN
  /\ p.copies => p.clears
  /\ p.clears => ~p.dialog.query /\ ~p.dialog.resets /\ p.dialog.empties

LEMMA DialogsDiffer ==
  /\ \A d \in {CredentialModal, AccessGatewayModal, CommandModal, AssetSensitiveCommandModal,
               SensitiveCommandModal, TriggerCommandModal, SensitiveCommandGroupModal,
               TriggerCommandGroupModal, SqlsModal, LoginPolicyModal, SecurityModal,
               StrategyModal, RoleModal, UserGroupModal, UserModal, StorageModal, JobModal,
               GitModal, WebhookModal, BuildModal} :
       PageOK(Form(d)) /\ PageOK(WithOther(Form(d))) /\ PageOK([Form(d) EXCEPT !.adds = FALSE])
  /\ \A d \in {AssetModal, DBMAssetModal} :
       /\ PageOK([Form(d) EXCEPT !.clears = TRUE, !.copies = TRUE])
       /\ PageOK([Form(d) EXCEPT !.clears = TRUE, !.copies = TRUE, !.other = "leaves"])
<1> DEFINE Dialogs == [query : BOOLEAN, resets : BOOLEAN, empties : BOOLEAN, joins : BOOLEAN]
<1>1. Dialog \in Dialogs /\ Query \in Dialogs
  BY DEF Dialog, Query
<1>2. \A d \in Dialogs : /\ Resetting(d) \in Dialogs /\ Joining(d) \in Dialogs
                         /\ Emptying(d) \in Dialogs /\ Emptying(d).empties
                         /\ Emptying(d).resets = d.resets /\ Emptying(d).query = d.query
  BY DEF Resetting, Joining, Emptying
<1>3. Dialog.resets = FALSE /\ Dialog.query = FALSE
  BY DEF Dialog
<1>4. ASSUME NEW d \in Dialogs
      PROVE  /\ PageOK(Form(d)) /\ PageOK(WithOther(Form(d)))
             /\ PageOK([Form(d) EXCEPT !.adds = FALSE])
             /\ d.empties /\ ~d.resets /\ ~d.query =>
                  /\ PageOK([Form(d) EXCEPT !.clears = TRUE, !.copies = TRUE])
                  /\ PageOK([Form(d) EXCEPT !.clears = TRUE, !.copies = TRUE, !.other = "leaves"])
  BY DEF PageOK, Form, WithOther
<1> HIDE DEF Dialogs
<1>5. {CredentialModal, AccessGatewayModal, CommandModal, AssetSensitiveCommandModal,
       SensitiveCommandModal, TriggerCommandModal, SensitiveCommandGroupModal,
       TriggerCommandGroupModal, SqlsModal, LoginPolicyModal, SecurityModal,
       StrategyModal, RoleModal, UserGroupModal, UserModal, StorageModal, JobModal,
       GitModal, WebhookModal, BuildModal} \subseteq Dialogs
  BY <1>1, <1>2 DEF CredentialModal, AccessGatewayModal, CommandModal,
       AssetSensitiveCommandModal, SensitiveCommandModal, TriggerCommandModal,
       SensitiveCommandGroupModal, TriggerCommandGroupModal, SqlsModal, LoginPolicyModal,
       SecurityModal, StrategyModal, RoleModal, UserGroupModal, UserModal, StorageModal,
       JobModal, GitModal, WebhookModal, BuildModal
<1>6. \A d \in {AssetModal, DBMAssetModal} : d \in Dialogs /\ d.empties /\ ~d.resets /\ ~d.query
  BY <1>1, <1>2, <1>3 DEF AssetModal, DBMAssetModal
<1> QED BY <1>4, <1>5, <1>6

LEMMA PagesDiffer == \A p \in FormPages : PageOK(p)
<1>1. /\ PageOK(CredentialPage) /\ PageOK(AccessGatewayPage) /\ PageOK(CommandPage)
      /\ PageOK(AssetSensitiveCommandPage) /\ PageOK(SensitiveCommandPage)
      /\ PageOK(TriggerCommandPage) /\ PageOK(SensitiveCommandGroupPage)
      /\ PageOK(TriggerCommandGroupPage) /\ PageOK(MyCommandPage)
      /\ PageOK(LoginPolicyPage) /\ PageOK(SecurityPage) /\ PageOK(StrategyPage)
  BY DialogsDiffer DEF CredentialPage, AccessGatewayPage, CommandPage,
     AssetSensitiveCommandPage, SensitiveCommandPage, TriggerCommandPage,
     SensitiveCommandGroupPage, TriggerCommandGroupPage, MyCommandPage, LoginPolicyPage,
     SecurityPage, StrategyPage
<1>2. /\ PageOK(RolePage) /\ PageOK(UserGroupPage) /\ PageOK(UserPage) /\ PageOK(JobPage)
      /\ PageOK(StoragePage) /\ PageOK(SqlsPage) /\ PageOK(GitPage) /\ PageOK(WebhookPage)
      /\ PageOK(BuildPage) /\ PageOK(AssetPage) /\ PageOK(DBMAssetPage)
  BY DialogsDiffer DEF RolePage, UserGroupPage, UserPage, JobPage, StoragePage, SqlsPage,
     GitPage, WebhookPage, BuildPage, AssetPage, DBMAssetPage
<1> QED BY <1>1, <1>2 DEF FormPages

LEMMA FormTypesInit == Init => TypeOK
<1> SUFFICES ASSUME Init PROVE TypeOK
  OBVIOUS
<1>1. Blank \in Contents /\ [what |-> "new", id |-> None] \in Intent
  BY DEF Blank, Contents, Keys, Intent
<1>2. 0 \in 0..MaxOpen /\ None \in Keys
  BY OpeningsAreCounted DEF Keys
<1> QED BY <1>1, <1>2 DEF Init, TypeOK

LEMMA SaveOfOk == TypeOK /\ Ok => saving' \in Save /\ saving' # None
<1> SUFFICES ASSUME TypeOK, Ok PROVE saving' \in Save
  BY NoneIsNoRecord
<1>1. IdToSave \in Keys /\ form.from \in Keys /\ form.typed \in BOOLEAN
  BY DEF IdToSave, TypeOK, Contents, Keys
<1> QED BY <1>1 DEF Ok, TypeOK, Save

LEMMA FormTypesStep == TypeOK /\ [Next]_vars => TypeOK'
<1> SUFFICES ASSUME TypeOK, [Next]_vars PROVE TypeOK'
  OBVIOUS
<1>0. Blank \in Contents
  BY DEF Blank, Contents, Keys
<1>1. CASE UNCHANGED vars
  BY <1>1 DEF vars, TypeOK
<1>2. ASSUME NEW what \in {"new", "edit", "copy"}, NEW k \in Keys, Open(what, k),
             what = "copy" => page.copies
      PROVE  TypeOK'
  <2>1. [what |-> what, id |-> k] \in Intent
    BY DEF Intent
  <2>2. opens' \in 0..MaxOpen
    BY <1>2, OpeningsAreCounted DEF Open, TypeOK
  <2> QED BY <1>2, <2>1, <2>2 DEF Open, TypeOK, Keys
<1>3. ASSUME NEW k \in Ids, Other(k) \/ Delete(k) PROVE TypeOK'
  <2>1. key' \in Keys /\ db' \subseteq Ids
    BY <1>3 DEF Other, Delete, TypeOK, Keys
  <2>2. UNCHANGED <<page, visible, copied, form, stuck, asked, saving, opens, intent, wrote,
                    last, harm>>
    BY <1>3 DEF Other, Delete
  <2> QED BY <2>1, <2>2 DEF TypeOK
<1>4. ASSUME NEW k \in Ids, Arrive(k) PROVE TypeOK'
  <2>1. [id |-> k, from |-> k, typed |-> FALSE] \in Contents
    BY DEF Contents, Keys
  <2> QED BY <1>4, <2>1 DEF Arrive, TypeOK
<1>5. CASE Refocus
  BY <1>5 DEF Refocus, TypeOK, Keys
<1>6. ASSUME NEW again \in BOOLEAN, Type(again) PROVE TypeOK'
  <2>1. Filled \in Contents
    BY DEF Filled, TypeOK, Contents
  <2> QED BY <1>6, <2>1 DEF Type, TypeOK
<1>7. CASE Refuse
  BY <1>7 DEF Refuse, TypeOK
<1>8. CASE Ok
  <2>2. saving' \in Save
    BY <1>8, SaveOfOk
  <2>3. stuck' \in BOOLEAN
    BY <1>8, PagesDiffer DEF Ok, TypeOK, PageOK
  <2> QED BY <1>0, <1>8, <2>2, <2>3 DEF Ok, TypeOK
<1>9. ASSUME NEW ok \in BOOLEAN, Saved(ok) PROVE TypeOK'
  <2>1. Closed \in Contents
    BY <1>0 DEF Closed, TypeOK
  <2>2. Resets \in BOOLEAN
    BY PagesDiffer DEF Resets, TypeOK, PageOK
  <2>3. visible' \in BOOLEAN /\ stuck' \in BOOLEAN /\ copied' \in BOOLEAN
        /\ (copied' => page.copies)
    BY <1>9, <2>2 DEF Saved, TypeOK
  <2>4. key' \in Keys /\ form' \in Contents
    BY <1>9, <2>1 DEF Saved, TypeOK, Keys
  <2>5. /\ saving' = None /\ last' \in Save \cup {None}
        /\ harm' \subseteq {"late", "overtyped", "refused", "early", "crossed"}
        /\ UNCHANGED <<page, db, asked, opens, intent, wrote>>
    BY <1>9 DEF Saved, TypeOK
  <2> QED BY <2>3, <2>4, <2>5 DEF TypeOK
<1>10. CASE Cancel
  BY <1>0, <1>10 DEF Cancel, Dismissed, TypeOK, Keys
<1>11. /\ New => Open("new", key)
       /\ \A k \in Ids : /\ Edit(k) => Open("edit", k)
                         /\ Copy(k) => page.copies /\ Open("copy", k)
  BY DEF New, Edit, Copy
<1>12. key \in Keys /\ Ids \subseteq Keys
  BY DEF TypeOK, Keys
<1> QED BY <1>1, <1>2, <1>3, <1>4, <1>5, <1>6, <1>7, <1>8, <1>9, <1>10, <1>11, <1>12
        DEF Next, Step
-----------------------------------------------------------------------------
\* While the dialog is open the key is that of the record it was opened for, unless a
\* save has cleared it.  No copy is under way while it is closed.
KeyKept ==
  /\ visible => key = intent.id \/ (page.clears /\ key = None)
  /\ visible /\ intent.what = "edit" => intent.id \in db /\ ~copied
  /\ ~visible => ~copied
  /\ intent.what = "copy" => page.clears
  /\ saving # None => saving.open <= opens

\* The form once it was emptied for the save under way; only late answers fill it.
Awaiting == saving # None /\ saving.open = opens

\* What the form holds where nothing misleads it.
\* A dialog that resets its form, or empties it, is opened on an empty one.
FreshForm ==
  page.dialog.resets \/ page.clears =>
    /\ ~visible => form.id = None
    /\ visible => form.id \in {None, intent.id}

\* Any other form is that of the key, or waits for the record of the key, and is not
\* saved before.
KeptForm ==
  ~page.dialog.resets /\ ~page.clears =>
    /\ \/ form.id \in {None, key}
       \/ visible /\ key \in db /\ asked # {} /\ saving = None
    /\ saving # None /\ ~visible => form.id = None

\* A page that clears the key clears it with every dialog, and then saves a new record.
ClearedKey ==
  page.clears =>
    /\ ~visible => key = None
    /\ Awaiting => form.id = None /\ (asked = {} \/ key = None)
    /\ visible /\ intent.what = "new" => intent.id = None
    /\ visible /\ intent.what = "copy" => copied \/ (form.id = None /\ key = None)

\* A save is of the record it was opened for, or of a new one.
SaveIsMeant(s) ==
  s # None =>
    /\ s.id \in {None, s.intent.id}
    /\ page.clears /\ s.id # None => s.intent.what = "edit"
    /\ s.intent.what = "copy" => page.clears

FormMeant ==
  Misled \/ (FreshForm /\ KeptForm /\ ClearedKey /\ SaveIsMeant(saving) /\ SaveIsMeant(last))

\* The form of a dialog that edits a record has its id, or waits for it.
Unfit == Excused({"early", "late"}) \/ (page.dialog.empties /\ Excused({"refused"}))
EditMeant ==
  \/ Unfit
  \/ /\ visible /\ intent.what = "edit" =>
          form.id # None \/ asked # {} \/ (page.dialog.empties /\ Awaiting)
     /\ saving # None /\ saving.intent.what = "edit" => saving.id # None
     /\ last # None /\ last.intent.what = "edit" => last.id # None

MeantInv == KeyKept /\ FormMeant /\ EditMeant

LEMMA MeantInit == Init => MeantInv
BY DEF Init, MeantInv, KeyKept, FormMeant, FreshForm, KeptForm, ClearedKey, SaveIsMeant,
       EditMeant, Awaiting, Blank

\* What excuses a save excuses it for good.
LEMMA ExcusesStay ==
  page' = page /\ harm \subseteq harm' => (Misled => Misled') /\ (Unfit => Unfit')
BY DEF Misled, Unfit, Excused

\* Each action of the dialog, on a page that is as PageOK says.
LEMMA MeantStep ==
  TypeOK /\ TypeOK' /\ MeantInv /\ [Next]_vars => MeantInv'
<1> SUFFICES ASSUME TypeOK, TypeOK', MeantInv, [Next]_vars PROVE MeantInv'
  OBVIOUS
<1>a. PageOK(page)
  BY PagesDiffer DEF TypeOK
<1>b. /\ visible \in BOOLEAN /\ copied \in BOOLEAN /\ asked \subseteq Ids /\ db \subseteq Ids
      /\ None \notin Ids /\ key \in Ids \cup {None}
      /\ (copied => page.copies) /\ opens \in Nat
      /\ intent.what \in {"new", "edit", "copy"} /\ intent.id \in Ids \cup {None}
      /\ form.id \in Ids \cup {None} /\ form \in Contents
      /\ (saving # None => saving.open \in Nat)
  BY NoneIsNoRecord, OpeningsAreCounted DEF TypeOK, Keys, Intent, Contents, Save
<1>1. CASE UNCHANGED vars
  BY <1>1 DEF vars, MeantInv, KeyKept, FormMeant, FreshForm, KeptForm, ClearedKey,
              SaveIsMeant, EditMeant, Awaiting, Misled, Unfit, Excused
<1>2. ASSUME NEW what \in {"new", "edit", "copy"}, NEW k \in Keys, Open(what, k),
             what = "new" => k = key, what = "edit" => k \in db,
             what = "copy" => k \in db /\ page.copies
      PROVE  MeantInv'
  <2>1. /\ ~visible /\ visible' = TRUE /\ opens' = opens + 1 /\ key' = k
        /\ copied' = IF what = "copy" THEN TRUE ELSE copied
        /\ intent'.what = what /\ intent'.id = k
        /\ asked' = IF k = None \/ (page.dialog.query /\ asked # {}) THEN asked
                    ELSE asked \cup {k}
        /\ page' = page /\ db' = db /\ form' = form /\ saving' = saving /\ last' = last
        /\ harm' = harm
    BY <1>2 DEF Open
  <2>2. KeyKept'
    BY <1>2, <1>a, <1>b, <2>1 DEF MeantInv, KeyKept, PageOK
  <2>3. ~Awaiting'
    BY <1>b, <2>1 DEF MeantInv, KeyKept, Awaiting
  <2>4. FormMeant'
    <3> SUFFICES ASSUME ~Misled' PROVE FormMeant'
      BY DEF FormMeant
    <3>1. FreshForm /\ KeptForm /\ ClearedKey /\ SaveIsMeant(saving) /\ SaveIsMeant(last)
      BY <2>1, ExcusesStay DEF MeantInv, FormMeant
    <3>2. FreshForm'
      BY <2>1, <3>1 DEF FreshForm
    <3>3. KeptForm'
      BY <1>2, <1>b, <2>1, <3>1 DEF KeptForm
    <3>4. ClearedKey'
      BY <1>2, <1>b, <2>1, <2>3, <3>1 DEF ClearedKey
    <3>5. SaveIsMeant(saving)' /\ SaveIsMeant(last)'
      BY <2>1, <3>1 DEF SaveIsMeant
    <3> QED BY <3>2, <3>3, <3>4, <3>5 DEF FormMeant
  <2>5. EditMeant'
    <3>1. what = "edit" => asked' # {}
      BY <1>2, <1>b, <2>1
    <3>2. Unfit => Unfit'
      BY <2>1, ExcusesStay
    <3> QED BY <2>1, <3>1, <3>2 DEF MeantInv, EditMeant
  <2> QED BY <2>2, <2>4, <2>5 DEF MeantInv
<1>3. ASSUME NEW k \in Ids, Other(k) \/ Delete(k) PROVE MeantInv'
  <2>1. /\ ~visible /\ k \in db /\ (key' = key \/ page.other # "no")
        /\ page' = page /\ visible' = visible /\ copied' = copied /\ form' = form
        /\ asked' = asked /\ saving' = saving /\ opens' = opens /\ intent' = intent
        /\ last' = last /\ harm' = harm
    BY <1>3 DEF Other, Delete
  <2>2. KeyKept'
    BY <2>1 DEF MeantInv, KeyKept
  <2>3. FormMeant'
    BY <1>a, <2>1 DEF MeantInv, FormMeant, FreshForm, KeptForm, ClearedKey, SaveIsMeant,
                      Misled, Excused, Awaiting, PageOK
  <2>4. EditMeant'
    BY <2>1, ExcusesStay DEF MeantInv, EditMeant, Awaiting
  <2> QED BY <2>2, <2>3, <2>4 DEF MeantInv
<1>4. ASSUME NEW k \in Ids, Arrive(k) PROVE MeantInv'
  <2>1. /\ k \in asked /\ asked' = asked \ {k}
        /\ form'.id = IF k \in db THEN k ELSE form.id
        /\ harm \subseteq harm' /\ ("late" \in harm' \/ (visible /\ key = k))
        /\ page' = page /\ db' = db /\ key' = key /\ visible' = visible /\ copied' = copied
        /\ saving' = saving /\ opens' = opens /\ intent' = intent /\ last' = last
    BY <1>4 DEF Arrive
  <2>2. KeyKept'
    BY <2>1 DEF MeantInv, KeyKept
  <2>3. FormMeant'
    <3> SUFFICES ASSUME ~Misled' PROVE FormMeant'
      BY DEF FormMeant
    <3>1. FreshForm /\ KeptForm /\ ClearedKey /\ SaveIsMeant(saving) /\ SaveIsMeant(last)
      BY <2>1, ExcusesStay DEF MeantInv, FormMeant
    <3>2. visible /\ key = k /\ intent.id = k
      BY <1>b, <2>1 DEF Misled, Excused, MeantInv, KeyKept
    <3>3. FreshForm' /\ KeptForm'
      BY <1>b, <2>1, <3>1, <3>2 DEF FreshForm, KeptForm
    <3>4. ClearedKey'
      BY <1>b, <2>1, <3>1, <3>2 DEF ClearedKey, Awaiting, MeantInv, KeyKept
    <3>5. SaveIsMeant(saving)' /\ SaveIsMeant(last)'
      BY <2>1, <3>1 DEF SaveIsMeant
    <3> QED BY <3>3, <3>4, <3>5 DEF FormMeant
  <2>4. EditMeant'
    <3> SUFFICES ASSUME ~Unfit' PROVE EditMeant'
      BY DEF EditMeant
    <3>1. ~Unfit /\ visible /\ key = k /\ intent.id = k
      BY <1>b, <2>1, ExcusesStay DEF Unfit, Excused, MeantInv, KeyKept
    <3> QED BY <1>b, <2>1, <3>1 DEF MeantInv, KeyKept, EditMeant, Awaiting
  <2> QED BY <2>2, <2>3, <2>4 DEF MeantInv
<1>5. CASE Refocus
  <2>1. /\ page.dialog.query /\ visible /\ key # None /\ asked = {} /\ asked' = {key}
        /\ page' = page /\ db' = db /\ key' = key /\ visible' = visible /\ copied' = copied
        /\ form' = form /\ saving' = saving /\ opens' = opens /\ intent' = intent
        /\ last' = last /\ harm' = harm
    BY <1>5 DEF Refocus
  <2>2. KeyKept'
    BY <2>1 DEF MeantInv, KeyKept
  <2>3. ~page.clears
    BY <1>a, <2>1 DEF PageOK
  <2>4. FormMeant'
    BY <2>1, <2>3, ExcusesStay DEF MeantInv, FormMeant, FreshForm, KeptForm, ClearedKey,
                                   SaveIsMeant
  <2>5. EditMeant'
    BY <2>1, ExcusesStay DEF MeantInv, EditMeant, Awaiting
  <2> QED BY <2>2, <2>4, <2>5 DEF MeantInv
<1>6. CASE Refuse \/ \E again \in BOOLEAN : Type(again)
  <2>1. /\ form'.id = form.id /\ harm \subseteq harm'
        /\ page' = page /\ db' = db /\ key' = key /\ visible' = visible /\ copied' = copied
        /\ asked' = asked /\ saving' = saving /\ opens' = opens /\ intent' = intent
        /\ last' = last
    BY <1>6, <1>b DEF Refuse, Type, Filled, Contents
  <2>2. KeyKept'
    BY <2>1 DEF MeantInv, KeyKept
  <2>3. FormMeant'
    BY <2>1, ExcusesStay DEF MeantInv, FormMeant, FreshForm, KeptForm, ClearedKey,
                             SaveIsMeant, Awaiting
  <2>4. EditMeant'
    BY <2>1, ExcusesStay DEF MeantInv, EditMeant, Awaiting
  <2> QED BY <2>2, <2>3, <2>4 DEF MeantInv
<1>7. CASE Ok
  <2>1. /\ visible /\ saving = None
        /\ saving' # None /\ saving'.id = (IF copied THEN None ELSE form.id)
        /\ saving'.intent = intent /\ saving'.open = opens
        /\ form'.id = (IF page.dialog.empties THEN None ELSE form.id)
        /\ harm \subseteq harm' /\ (intent.id # None /\ asked # {} => "early" \in harm')
        /\ page' = page /\ db' = db /\ key' = key /\ visible' = visible /\ copied' = copied
        /\ asked' = asked /\ opens' = opens /\ intent' = intent /\ last' = last
    <3>1. saving' # None
      BY <1>7, SaveOfOk
    <3> QED BY <1>7, <3>1 DEF Ok, IdToSave, Blank
  <2>2. KeyKept'
    BY <1>b, <2>1 DEF MeantInv, KeyKept
  <2>3. Awaiting'
    BY <2>1 DEF Awaiting
  <2>4. FormMeant'
    <3> SUFFICES ASSUME ~Misled' PROVE FormMeant'
      BY DEF FormMeant
    <3>1. FreshForm /\ KeptForm /\ ClearedKey /\ SaveIsMeant(last)
      BY <2>1, ExcusesStay DEF MeantInv, FormMeant
    <3>2. ~page.dialog.resets => asked = {} \/ intent.id = None
      BY <2>1 DEF Misled, Excused
    <3>3. KeyKept
      BY DEF MeantInv
    <3>4. form.id \in {None, intent.id}
      <4>1. CASE page.dialog.resets \/ page.clears
        BY <2>1, <3>1, <4>1 DEF FreshForm
      <4>2. CASE ~page.dialog.resets /\ ~page.clears
        BY <1>b, <2>1, <3>1, <3>2, <3>3, <4>2 DEF KeptForm, KeyKept
      <4> QED BY <4>1, <4>2
    <3>5. FreshForm'
      BY <2>1, <3>1 DEF FreshForm
    <3>6. KeptForm'
      BY <2>1, <3>2, <3>3, <3>4 DEF KeptForm, KeyKept
    <3>7. ClearedKey'
      BY <1>a, <2>1, <3>1, <3>2, <3>3, <3>4 DEF ClearedKey, KeyKept, PageOK
    <3>8. SaveIsMeant(saving)'
      <4>1. saving'.id # None => ~copied /\ saving'.id = form.id
        BY <2>1
      <4>2. page.clears /\ saving'.id # None => intent.what = "edit"
        BY <1>b, <2>1, <3>1, <3>4, <4>1 DEF ClearedKey
      <4> QED BY <2>1, <3>3, <3>4, <4>2 DEF SaveIsMeant, KeyKept
    <3>9. SaveIsMeant(last)'
      BY <2>1, <3>1 DEF SaveIsMeant
    <3> QED BY <3>5, <3>6, <3>7, <3>8, <3>9 DEF FormMeant
  <2>5. EditMeant'
    <3> SUFFICES ASSUME ~Unfit' PROVE EditMeant'
      BY DEF EditMeant
    <3>1. ~Unfit /\ (asked = {} \/ intent.id = None)
      BY <2>1, ExcusesStay DEF Unfit, Excused
    <3>2. intent.what = "edit" => saving'.id # None
      BY <1>b, <2>1, <3>1 DEF MeantInv, KeyKept, EditMeant, Awaiting
    <3> QED BY <2>1, <2>3, <3>1, <3>2 DEF MeantInv, EditMeant
  <2> QED BY <2>2, <2>4, <2>5 DEF MeantInv
<1>8. ASSUME NEW ok \in BOOLEAN, Saved(ok) PROVE MeantInv'
  <2>1. /\ saving # None /\ saving' = None
        /\ ok => /\ ~visible' /\ last' = saving
                 /\ form'.id = (IF page.dialog.resets /\ visible THEN None ELSE form.id)
        /\ ~ok => visible' = visible /\ form' = form /\ last' = last
        /\ page.clears => key' = None /\ copied' = FALSE
        /\ ~page.clears => key' = key /\ copied' = copied
        /\ harm \subseteq harm'
        /\ visible /\ saving.open # opens => "crossed" \in harm'
        /\ ~ok /\ ~(visible /\ saving.open # opens) => "refused" \in harm'
        /\ page' = page /\ db' = db /\ asked' = asked /\ opens' = opens /\ intent' = intent
    BY <1>8 DEF Saved, Closed, Blank
  <2>2. ~Awaiting'
    BY <2>1 DEF Awaiting
  <2>3. KeyKept'
    BY <1>a, <1>b, <2>1 DEF MeantInv, KeyKept, PageOK
  <2>4. FormMeant'
    <3> SUFFICES ASSUME ~Misled' PROVE FormMeant'
      BY DEF FormMeant
    <3>1. FreshForm /\ KeptForm /\ ClearedKey /\ SaveIsMeant(saving) /\ SaveIsMeant(last)
      BY <2>1, ExcusesStay DEF MeantInv, FormMeant
    <3>2. page.clears /\ visible => Awaiting
      BY <2>1 DEF Misled, Excused, Awaiting
    <3>3. FreshForm'
      BY <2>1, <3>1, <3>2 DEF FreshForm, ClearedKey
    <3>4. KeptForm'
      BY <2>1, <3>1 DEF KeptForm
    <3>5. ClearedKey'
      BY <2>1, <2>2, <3>1, <3>2 DEF ClearedKey
    <3>6. SaveIsMeant(saving)' /\ SaveIsMeant(last)'
      BY <2>1, <3>1 DEF SaveIsMeant
    <3> QED BY <3>3, <3>4, <3>5, <3>6 DEF FormMeant
  <2>5. EditMeant'
    <3> SUFFICES ASSUME ~Unfit' PROVE EditMeant'
      BY DEF EditMeant
    <3>1. ~Unfit
      BY <2>1, ExcusesStay
    <3>2. CASE ok
      BY <2>1, <3>1, <3>2 DEF MeantInv, EditMeant
    <3>3. CASE ~ok
      <4>1. page.dialog.empties => ~Awaiting
        BY <2>1, <3>3 DEF Unfit, Excused, Awaiting
      <4> QED BY <2>1, <3>1, <3>3, <4>1 DEF MeantInv, EditMeant
    <3> QED BY <3>2, <3>3
  <2> QED BY <2>3, <2>4, <2>5 DEF MeantInv
<1>9. CASE Cancel
  <2>1. /\ visible /\ ~visible' /\ key' = None /\ ~copied' /\ form'.id = None
        /\ page' = page /\ db' = db /\ asked' = asked /\ saving' = saving /\ opens' = opens
        /\ intent' = intent /\ last' = last /\ harm' = harm
    BY <1>9 DEF Cancel, Dismissed, Blank
  <2>2. KeyKept'
    BY <2>1 DEF MeantInv, KeyKept
  <2>3. FormMeant'
    BY <2>1, ExcusesStay DEF MeantInv, FormMeant, FreshForm, KeptForm, ClearedKey,
                             SaveIsMeant
  <2>4. EditMeant'
    BY <2>1, ExcusesStay DEF MeantInv, EditMeant
  <2> QED BY <2>2, <2>3, <2>4 DEF MeantInv
<1>10. /\ New => Open("new", key)
       /\ \A k \in Ids : /\ Edit(k) => k \in db /\ Open("edit", k)
                         /\ Copy(k) => page.copies /\ k \in db /\ Open("copy", k)
  BY DEF New, Edit, Copy
<1>11. key \in Keys /\ Ids \subseteq Keys
  BY DEF TypeOK, Keys
<1> QED BY <1>1, <1>2, <1>3, <1>4, <1>5, <1>6, <1>7, <1>8, <1>9, <1>10, <1>11 DEF Next, Step

LEMMA MeantIsMeant == TypeOK /\ MeantInv => SavesAsMeant
<1> SUFFICES ASSUME TypeOK, MeantInv PROVE SavesAsMeant
  OBVIOUS
<1>1. CASE last = None
  BY <1>1 DEF SavesAsMeant, WritesItsRecord, NewCreates, EditUpdates
<1>2. CASE last # None
  <2>1. last.intent.what \in {"new", "edit", "copy"}
    BY <1>2 DEF TypeOK, Save, Intent
  <2>2. PageOK(page)
    BY PagesDiffer DEF TypeOK
  <2>3. WritesItsRecord /\ NewCreates
    BY <1>2, <2>1, <2>2 DEF MeantInv, FormMeant, SaveIsMeant, WritesItsRecord, NewCreates,
                            PageOK
  <2>4. EditUpdates
    BY <1>2 DEF MeantInv, EditMeant, Unfit, EditUpdates
  <2> QED BY <2>3, <2>4 DEF SavesAsMeant
<1> QED BY <1>1, <1>2

\* The answer for the record came, or comes, over what was typed; or the form
\* was emptied by a save that the server refused.
Overtyped == "overtyped" \in harm
Emptied == page.dialog.empties /\ "refused" \in harm

\* The dialog shows what was typed until it is closed, except while the save
\* that emptied its form is under way.
FormHasIt ==
  visible /\ wrote =>
    \/ form.typed \/ Overtyped \/ Emptied
    \/ page.dialog.empties /\ saving # None /\ saving.open = opens

SaveHasIt(s) == s # None /\ s.wrote => s.typed \/ Overtyped \/ Emptied

TypedInv ==
  /\ FormHasIt /\ SaveHasIt(saving) /\ SaveHasIt(last)
  /\ opens \in Nat /\ (saving # None => saving.open \in Nat /\ saving.open <= opens)

-----------------------------------------------------------------------------
LEMMA TypedInit == Init => TypedInv
BY DEF Init, TypedInv, FormHasIt, SaveHasIt

LEMMA TypedStep == TypeOK /\ TypedInv /\ [Next]_vars => TypedInv'
<1> SUFFICES ASSUME TypeOK, TypedInv, [Next]_vars PROVE TypedInv'
  OBVIOUS
<1> USE DEF TypedInv, FormHasIt, SaveHasIt, Overtyped, Emptied
<1>1. CASE UNCHANGED vars
  BY <1>1 DEF vars
<1>2. ASSUME NEW what, NEW k, Open(what, k) PROVE TypedInv'
  BY <1>2 DEF Open
<1>3. ASSUME NEW k \in Ids, Other(k) \/ Delete(k) PROVE TypedInv'
  BY <1>3 DEF Other, Delete
<1>4. ASSUME NEW k \in Ids, Arrive(k) PROVE TypedInv'
  BY <1>4 DEF Arrive
<1>5. CASE Refocus \/ Refuse \/ Cancel
  BY <1>5 DEF Refocus, Refuse, Cancel
<1>6. ASSUME NEW again \in BOOLEAN, Type(again) PROVE TypedInv'
  BY <1>6 DEF Type, Filled
<1>7. CASE Ok
  <2>1. /\ saving' = [id |-> IdToSave, from |-> form.from, typed |-> form.typed,
                       intent |-> intent, wrote |-> wrote, open |-> opens]
        /\ saving' # None /\ visible /\ saving = None /\ harm \subseteq harm'
        /\ form' = IF page.dialog.empties THEN Blank ELSE form
        /\ UNCHANGED <<page, visible, opens, wrote, last>>
    BY <1>7, SaveOfOk DEF Ok
  <2>2. wrote => form.typed \/ Overtyped \/ Emptied
    BY <2>1
  <2>3. FormHasIt'
    BY <2>1, <2>2
  <2>4. SaveHasIt(saving)'
    BY <2>1, <2>2
  <2> QED BY <2>1, <2>3, <2>4
<1>8. ASSUME NEW ok \in BOOLEAN, Saved(ok) PROVE TypedInv'
  BY <1>8 DEF Saved
<1> QED BY <1>1, <1>2, <1>3, <1>4, <1>5, <1>6, <1>7, <1>8 DEF Next, Step, New, Edit, Copy

\* What is typed is saved: only an answer that fills the form over it, or a
\* save that the server refused and whose form was emptied, loses it.
THEOREM TypedSaved == Spec => []TypedIsSaved
<1>1. TypedInv => TypedIsSaved
  BY DEF TypedInv, SaveHasIt, Overtyped, Emptied, TypedIsSaved, Excused
<1>2. Init => TypeOK /\ TypedInv
  BY FormTypesInit, TypedInit
<1>3. TypeOK /\ TypedInv /\ [Next]_vars => (TypeOK /\ TypedInv)'
  BY FormTypesStep, TypedStep
<1> QED BY <1>1, <1>2, <1>3, PTL DEF Spec

-----------------------------------------------------------------------------
\* The table of a page.

Excuse == table.loose \/ harm \cap {"outdated", "reverted"} # {}

\* Something is under way that will show the records there are.
Remedy == rows = db \/ wanted \/ ops # {} \/ db \in answers

TableInv == /\ Excuse \/ (Remedy /\ \A op \in ops : op.reload)
            /\ table.loose \in BOOLEAN

-----------------------------------------------------------------------------
\* A table of TablePages either waits for the answer to an addition or not.
LEMMA LooseOrNot == \A t \in T!TablePages : t.loose \in BOOLEAN
<1>1. T!Table.loose = FALSE
  BY DEF T!Table
<1>2. \A w \in {"no", "keeps", "resets"} : T!Selecting(w).loose = FALSE
  BY DEF T!Table, T!Selecting
<1>3. T!Testing.loose = FALSE
  BY DEF T!Testing, T!Selecting, T!Table
<1>4. T!Loose.loose = TRUE
  BY DEF T!Loose, T!Table
<1>5. /\ T!LoginLogTable.loose = FALSE /\ T!OperLogTable.loose = FALSE
      /\ T!SqlLogTable.loose = FALSE /\ T!WebhookPushLogTable.loose = FALSE
      /\ T!OfflineSessionTable.loose = FALSE
  BY <1>2 DEF T!LoginLogTable, T!OperLogTable, T!SqlLogTable, T!WebhookPushLogTable,
              T!OfflineSessionTable
<1>6. T!JobLogTable.loose = FALSE /\ T!LoginPolicyUserTable.loose = FALSE
  BY DEF T!JobLogTable, T!LoginPolicyUserTable, T!Table
<1>7. T!AssetTable.loose = FALSE /\ T!DBMAssetTable.loose = FALSE
  BY <1>3 DEF T!AssetTable, T!DBMAssetTable
<1>8. /\ T!UserAssetTable.loose = TRUE /\ T!AssetUserTable.loose = TRUE
      /\ T!AssetUserGroupTable.loose = TRUE
  BY <1>4 DEF T!UserAssetTable, T!AssetUserTable, T!AssetUserGroupTable
<1>9. /\ T!OnlineSessionTable.loose = FALSE /\ T!UserLoginPolicyTable.loose = FALSE
      /\ T!TriggerCommandGroupTable.loose = FALSE
      /\ T!SensitiveCommandGroupTable.loose = FALSE /\ T!WebhookRefTable.loose = FALSE
  BY <1>1 DEF T!OnlineSessionTable, T!UserLoginPolicyTable, T!TriggerCommandGroupTable,
              T!SensitiveCommandGroupTable, T!WebhookRefTable
<1> QED BY <1>5, <1>6, <1>7, <1>8, <1>9 DEF T!TablePages

LEMMA TableInit == T!Init => TableInv
BY LooseOrNot DEF T!Init, TableInv, Remedy

\* Mishaps are never forgotten.
LEMMA TableStep == TableInv /\ [T!Next]_T!vars => TableInv'
<1> SUFFICES ASSUME TableInv, [T!Next]_T!vars PROVE TableInv'
  OBVIOUS
<1> USE DEF TableInv, Remedy, Excuse
<1>1. CASE UNCHANGED T!vars
  BY <1>1 DEF T!vars
<1>2. ASSUME NEW k \in Ids, T!Select(k) \/ T!Add(k) \/ T!DeleteOne(k) PROVE TableInv'
  <2>1. CASE T!Select(k)
    BY <2>1 DEF T!Select
  <2>2. CASE T!Add(k)
    <3>1. \A op \in ops' : op.reload = ~table.loose
      BY <2>2 DEF T!Add, T!Awaits
    <3> QED BY <2>2, <3>1 DEF T!Add
  <2>3. CASE T!DeleteOne(k)
    BY <2>3 DEF T!DeleteOne
  <2> QED BY <1>2, <2>1, <2>2, <2>3
<1>3. CASE T!DeleteSelected \/ T!DeleteAll
  BY <1>3 DEF T!DeleteSelected, T!DeleteAll
<1>4. ASSUME NEW op \in ops, T!Changed(op) PROVE TableInv'
  BY <1>4 DEF T!Changed
<1>5. CASE T!Read
  BY <1>5 DEF T!Read
<1>6. ASSUME NEW a \in answers, T!Arrive(a) PROVE TableInv'
  BY <1>6 DEF T!Arrive
<1>7. CASE T!Test \/ \E t \in tests : T!Tested(t)
  BY <1>7 DEF T!Test, T!Tested
<1> QED BY <1>1, <1>2, <1>3, <1>4, <1>5, <1>6, <1>7 DEF T!Next, T!Step

LEMMA TableTypesInit == T!Init => T!TypeOK
BY DEF T!Init, T!TypeOK

LEMMA TableTypesStep == T!TypeOK /\ [T!Next]_T!vars => T!TypeOK'
<1> SUFFICES ASSUME T!TypeOK, [T!Next]_T!vars PROVE T!TypeOK'
  OBVIOUS
<1>1. CASE UNCHANGED T!vars
  BY <1>1 DEF T!vars, T!TypeOK
<1>2. ASSUME NEW k \in Ids, T!Select(k) PROVE T!TypeOK'
  BY <1>2 DEF T!Select, T!TypeOK
<1>3. CASE (\E k \in Ids : T!Add(k) \/ T!DeleteOne(k)) \/ T!DeleteSelected \/ T!DeleteAll
  <2>1. PICK ids \in SUBSET Ids, what \in {"add", "one", "many", "all"}, reload \in BOOLEAN :
          ops' = {[what |-> what, ids |-> ids, reload |-> reload]}
    <3>1. ASSUME NEW k \in Ids, T!Add(k)
          PROVE  /\ T!Awaits \in BOOLEAN
                 /\ ops' = {[what |-> "add", ids |-> {k}, reload |-> T!Awaits]}
      BY <3>1 DEF T!Add, T!Awaits
    <3>2. ASSUME NEW k \in Ids, T!DeleteOne(k)
          PROVE  ops' = {[what |-> "one", ids |-> {k}, reload |-> TRUE]}
      BY <3>2 DEF T!DeleteOne
    <3>3. ASSUME T!DeleteSelected
          PROVE  keys \in SUBSET Ids /\ ops' = {[what |-> "many", ids |-> keys, reload |-> TRUE]}
      BY <3>3 DEF T!DeleteSelected, T!TypeOK
    <3>4. ASSUME T!DeleteAll PROVE ops' = {[what |-> "all", ids |-> Ids, reload |-> TRUE]}
      BY <3>4 DEF T!DeleteAll
    <3>5. (\A k \in Ids : {k} \in SUBSET Ids) /\ Ids \in SUBSET Ids
      OBVIOUS
    <3> QED BY <1>3, <3>1, <3>2, <3>3, <3>4, <3>5
  <2>2. ops' \subseteq T!Op
    BY <2>1 DEF T!Op
  <2>3. /\ UNCHANGED <<table, db, rows, keys, answers, tests, harm>>
        /\ wanted' = wanted \/ wanted' = (wanted \/ ~T!Awaits)
    BY <1>3 DEF T!Add, T!DeleteOne, T!DeleteSelected, T!DeleteAll
  <2>4. wanted' \in BOOLEAN
    BY <2>3 DEF T!TypeOK
  <2> QED BY <2>2, <2>3, <2>4 DEF T!TypeOK
<1>4. ASSUME NEW op \in ops, T!Changed(op) PROVE T!TypeOK'
  <2>1. op.ids \subseteq Ids /\ op.reload \in BOOLEAN
    BY DEF T!TypeOK, T!Op
  <2> QED BY <1>4, <2>1 DEF T!Changed, T!Deselected, T!TypeOK
<1>5. CASE T!Read \/ \E a \in answers : T!Arrive(a)
  BY <1>5 DEF T!Read, T!Arrive, T!TypeOK
<1>6. CASE T!Test
  <2>1. tests' \subseteq [id : Ids, saw : SUBSET Ids]
    BY <1>6 DEF T!Test, T!TypeOK
  <2> QED BY <1>6, <2>1 DEF T!Test, T!TypeOK
<1>7. ASSUME NEW t \in tests, T!Tested(t) PROVE T!TypeOK'
  <2>1. t.saw \subseteq Ids
    BY DEF T!TypeOK
  <2> QED BY <1>7, <2>1 DEF T!Tested, T!TypeOK
<1> QED BY <1>1, <1>2, <1>3, <1>4, <1>5, <1>6, <1>7 DEF T!Next, T!Step

\* A table that waits for nothing shows the records there are: every operation
\* ends with reload(), and only the answer of a connection test, an answer that
\* came late, or a dialog that did not wait can undo it.
THEOREM TableIsTrue == T!Spec => []T!QuietTableIsTrue
<1>1. TableInv => T!QuietTableIsTrue
  BY DEF TableInv, Excuse, Remedy, T!QuietTableIsTrue, T!Quiet
<1> QED BY <1>1, TableInit, TableStep, PTL DEF T!Spec

-----------------------------------------------------------------------------
\* The file browser.

Loads == [dir : Dirs, got : [Names -> B!Content] \cup {None}, old : BOOLEAN]

\* Types, of what is under way too.  A file is shown, and saved, under a path.
FilesTypes ==
  /\ store \in [B!Path -> B!Content] /\ dir \in Dirs /\ files \in [Names -> B!Content]
  /\ picked \subseteq Names /\ loading \in BOOLEAN /\ loads \in Seq(Loads)
  /\ calls \subseteq B!Call
  /\ key \in B!Path \cup {None} /\ editor \in Texts \cup {Missing, None}
  /\ dialog \in {"none", "rename", "mkdir"} /\ busy \in BOOLEAN
  /\ typed \in (B!Path \X Texts) \cup {None} /\ meant \in B!Path \cup {None}
  /\ harm \subseteq B!Harms
  /\ editor # None => key \in B!Path
  /\ \A c \in calls : /\ c.what # "mv" => c.on \subseteq B!Path
                      /\ c.what \in {"put", "mv"} => \E p \in B!Path \cup {None} : c.on = {p}

\* While the dialog is open that renames a file, the key is that of the file.
NamesKept ==
  harm = {} =>
    /\ dialog = "rename" => /\ editor = None /\ key = meant
                            /\ \E n \in Names : meant = <<dir, n>>
    /\ \A c \in calls : c.what = "mv" => c.on = {c.of} /\ c.to[1] = c.of[1]

\* What was typed is in the editor.
TextKept == harm = {} /\ typed # None => typed = <<key, editor>> /\ editor # None

\* The answer that will be shown last is not there yet, or is true, or is an old one.
LastIsTrue ==
  loads[Len(loads)].old \/ loads[Len(loads)].got \in {None, B!Entries(loads[Len(loads)].dir)}

\* The listing is true, or one will be, or is asked for when the deletions or the
\* uploads under way have come to their last file.
ListingComes ==
  harm = {} =>
    /\ \A c \in calls : c.what \in {"rm", "up"} => c.ok
    /\ \/ \E c \in calls : c.what \in {"rm", "up"}
       \/ loads = <<>> /\ files = B!Entries(dir)
       \/ loads # <<>> /\ LastIsTrue

FilesInv == FilesTypes /\ NamesKept /\ TextKept /\ ListingComes
-----------------------------------------------------------------------------
\* A listing is asked for, and true when it is answered.
LEMMA LoadAsks ==
  ASSUME loads \in Seq(Loads), NEW d \in Dirs, B!Load(d)
  PROVE  loads' \in Seq(Loads) /\ loads' # <<>> /\ LastIsTrue'
<1> DEFINE l == [dir |-> d, got |-> None, old |-> FALSE]
<1>1. l \in Loads /\ l.got = None
  BY DEF Loads
<1>2. loads' = Append(loads, l)
  BY DEF B!Load
<1> HIDE DEF l
<1>3. /\ loads' \in Seq(Loads) /\ Len(loads') = Len(loads) + 1 /\ loads'[Len(loads) + 1] = l
      /\ Len(loads) \in Nat
  BY <1>1, <1>2, AppendProperties, LenProperties
<1>4. loads' # <<>> /\ loads'[Len(loads')].got = None
  BY <1>1, <1>3
<1> QED BY <1>3, <1>4 DEF LastIsTrue

\* What is left when a listing is answered: the last is old, or stays the last.
LEMMA LeftIs ==
  ASSUME loads \in Seq(Loads), NEW i \in DOMAIN loads
  PROVE  LET n == Len(loads) s == B!Left(i) IN
         /\ s \in Seq(Loads) /\ n \in Nat /\ Len(s) = n - 1
         /\ s # <<>> => Len(s) \in 1..(n - 1)
         /\ i # n => s # <<>> /\ s[Len(s)] = loads[n]
         /\ i = n /\ s # <<>> => s[Len(s)].old
<1> DEFINE n == Len(loads)
           m == [j \in DOMAIN loads |-> [loads[j] EXCEPT !.old = @ \/ j < i]]
           a == SubSeq(m, 1, i - 1)
           b == SubSeq(m, i + 1, Len(m))
           s == B!Left(i)
<1>1. n \in Nat /\ DOMAIN loads = 1..n /\ i \in 1..n
  BY LenProperties
<1>2. \A j \in 1..n : loads[j] \in Loads
  BY <1>1, ElementOfSeq
<1>3. \A j \in 1..n : /\ [loads[j] EXCEPT !.old = @ \/ j < i] \in Loads
                      /\ j < i => [loads[j] EXCEPT !.old = @ \/ j < i].old
                      /\ ~(j < i) => [loads[j] EXCEPT !.old = @ \/ j < i] = loads[j]
  BY <1>2 DEF Loads
<1>4. m \in [1..n -> Loads]
  BY <1>1, <1>3
<1>5. m \in Seq(Loads) /\ Len(m) = n
  BY <1>1, <1>4, IsASeq, LenProperties
<1>6. \A j \in 1..n : (j < i => m[j].old) /\ (~(j < i) => m[j] = loads[j])
  BY <1>1, <1>3
<1>7. s = a \o b
  BY DEF B!Left, B!RemoveAt
<1> HIDE DEF m, s
<1>8. a \in Seq(Loads) /\ Len(a) = i - 1 /\ \A j \in 1..(i - 1) : a[j] = m[j]
  BY <1>1, <1>5, SubSeqProperties
<1>9. b \in Seq(Loads) /\ Len(b) = n - i /\ \A j \in 1..(n - i) : b[j] = m[i + j]
  BY <1>1, <1>5, SubSeqProperties
<1> HIDE DEF a, b
<1>10. s \in Seq(Loads) /\ Len(s) = n - 1
  <2>1. s \in Seq(Loads) /\ Len(s) = Len(a) + Len(b)
    BY <1>7, <1>8, <1>9, ConcatProperties
  <2> QED BY <1>1, <1>8, <1>9, <2>1
<1>11. \A j \in 1..(n - 1) : s[j] = IF j <= Len(a) THEN a[j] ELSE b[j - Len(a)]
  <2>1. \A j \in 1..(Len(a) + Len(b)) : s[j] = IF j <= Len(a) THEN a[j] ELSE b[j - Len(a)]
    BY <1>7, <1>8, <1>9, ConcatProperties
  <2> QED BY <1>1, <1>8, <1>9, <2>1
<1>12. i # n => s[n - 1] = loads[n]
  <2> SUFFICES ASSUME i # n PROVE s[n - 1] = loads[n]
    OBVIOUS
  <2>1. n - 1 \in 1..(n - 1) /\ ~(n - 1 <= i - 1) /\ n - i \in 1..(n - i)
        /\ (n - 1) - (i - 1) = n - i /\ i + (n - i) = n /\ ~(n < i) /\ n \in 1..n
    BY <1>1
  <2>2. s[n - 1] = b[n - i]
    BY <1>8, <1>11, <2>1
  <2> QED BY <1>6, <1>9, <2>1, <2>2
<1>13. i = n /\ n > 1 => s[n - 1].old
  BY <1>1, <1>6, <1>8, <1>9, <1>11
<1>14. s # <<>> => Len(s) # 0
  BY <1>10, EmptySeq
<1>15. i # n => s # <<>>
  BY <1>1, <1>10
<1> QED BY <1>1, <1>10, <1>12, <1>13, <1>14, <1>15 DEF s

\* A call, as it is asked.
LEMMA AskedIs ==
  ASSUME FilesTypes,
         NEW what \in {"get", "put", "rm", "mv", "mkdir", "up"},
         NEW on \in SUBSET (B!Path \cup {None}), NEW text \in B!Content,
         NEW to \in B!Path \cup {None}
  PROVE  LET c == B!Asked(what, on, text, to) IN
         /\ c \in B!Call /\ c.what = what /\ c.on = on /\ c.ok /\ c.text = text /\ c.to = to
         /\ what = "mv" => c.of = meant
BY DEF B!Asked, B!Call, FilesTypes


LEMMA FilesTypesInit == B!Init => FilesTypes
<1> SUFFICES ASSUME B!Init PROVE FilesTypes
  OBVIOUS
<1>1. PICK d \in Dirs, n \in Names, t \in Texts :
        /\ store = [p \in B!Path |-> IF p = <<d, n>> THEN t ELSE None]
        /\ dir = d
  BY DEF B!Init
<1>2. store \in [B!Path -> B!Content]
  BY <1>1 DEF B!Content
<1>3. files \in [Names -> B!Content]
  BY <1>1, <1>2 DEF B!Init, B!Entries, B!Path
<1>4. /\ picked = {} /\ loading = FALSE /\ loads = <<>> /\ calls = {}
      /\ key = None /\ editor = None /\ dialog = "none" /\ busy = FALSE
      /\ typed = None /\ meant = None /\ harm = {}
  BY DEF B!Init
<1>5. loads \in Seq(Loads) /\ DOMAIN loads = {}
  BY <1>4
<1> QED BY <1>1, <1>2, <1>3, <1>4, <1>5 DEF FilesTypes

\* The types of listings follow from the sequence they are in.
LEMMA TypesOfFiles == FilesTypes => B!TypeOK
<1> SUFFICES ASSUME FilesTypes PROVE B!TypeOK
  OBVIOUS
<1>1. \A i \in DOMAIN loads : loads[i] \in Loads
  BY ElementOfSeq, LenProperties DEF FilesTypes
<1> QED BY <1>1 DEF FilesTypes, B!TypeOK, Loads

\* A call is asked for that is not to rename a file.
AsksFor(c) ==
  /\ calls' = calls \cup {c} /\ c.on \subseteq B!Path /\ c.ok
  /\ c.what \in {"rm", "up", "put", "get", "mkdir"}
  /\ (c.what = "put" => \E p \in B!Path : c.on = {p})
  /\ UNCHANGED <<store, B!listing, key, editor, dialog, typed, meant, harm>>
  /\ busy' \in BOOLEAN

LEMMA Asks ==
  ASSUME FilesTypes,
         B!Delete \/ B!Upload \/ B!Edit \/ \E n \in Names : B!ShowEditor(n) \/ B!Mkdir(n)
  PROVE  \E c \in B!Call : AsksFor(c)
<1>0. None \in B!Content /\ Folder \in B!Content /\ Texts \subseteq B!Content /\ dir \in Dirs
      /\ busy \in BOOLEAN /\ picked \subseteq Names
  BY DEF FilesTypes, B!Content
<1>1. CASE B!Delete
  <2>1. PICK on \in SUBSET B!Path : B!Ask(B!Asked("rm", on, None, None))
    <3>1. /\ \A n \in Names : {<<dir, n>>} \in SUBSET B!Path
          /\ {dir} \X picked \in SUBSET B!Path
      BY <1>0 DEF B!Path
    <3> QED BY <1>1, <3>1 DEF B!Delete
  <2> DEFINE c == B!Asked("rm", on, None, None)
  <2>2. c \in B!Call /\ c.what = "rm" /\ c.on = on /\ c.ok
    BY <1>0, AskedIs
  <2> HIDE DEF c
  <2>3. /\ calls' = calls \cup {c}
        /\ UNCHANGED <<store, B!listing, B!dialogs, harm>>
    BY <1>1, <2>1 DEF B!Delete, B!Ask, c
  <2> QED BY <1>0, <2>2, <2>3 DEF AsksFor, B!dialogs
<1>2. CASE B!Upload
  <2>1. PICK on \in SUBSET B!Path, text \in B!Content : B!Ask(B!Asked("up", on, text, None))
    <3>1. /\ \A n \in Names : {<<dir, n>>} \in SUBSET B!Path
          /\ \A N \in SUBSET Names : {dir} \X N \in SUBSET B!Path
      BY <1>0 DEF B!Path
    <3> QED BY <1>0, <1>2, <3>1 DEF B!Upload
  <2> DEFINE c == B!Asked("up", on, text, None)
  <2>2. c \in B!Call /\ c.what = "up" /\ c.on = on /\ c.ok
    BY <1>0, AskedIs
  <2> HIDE DEF c
  <2>3. /\ calls' = calls \cup {c}
        /\ UNCHANGED <<store, B!listing, B!dialogs, harm>>
    BY <1>2, <2>1 DEF B!Upload, B!Ask, c
  <2> QED BY <1>0, <2>2, <2>3 DEF AsksFor, B!dialogs
<1>3. CASE B!Edit
  <2> DEFINE c == B!Asked("put", {key}, editor, None)
  <2>1. editor # None /\ key \in B!Path /\ editor \in B!Content
    BY <1>3 DEF B!Edit, FilesTypes, B!Content
  <2>2. c \in B!Call /\ c.what = "put" /\ c.on = {key} /\ c.ok
    BY <1>0, <2>1, AskedIs
  <2> HIDE DEF c
  <2>3. /\ calls' = calls \cup {c} /\ busy' = TRUE
        /\ UNCHANGED <<store, B!listing, key, editor, dialog, typed, meant, harm>>
    BY <1>3 DEF B!Edit, B!Ask, c
  <2> QED BY <2>1, <2>2, <2>3 DEF AsksFor
<1>4. ASSUME NEW n \in Names, B!ShowEditor(n) PROVE \E c \in B!Call : AsksFor(c)
  <2> DEFINE c == B!Asked("get", {<<dir, n>>}, None, None)
  <2>1. {<<dir, n>>} \subseteq B!Path
    BY <1>0 DEF B!Path
  <2>2. c \in B!Call /\ c.what = "get" /\ c.on \subseteq B!Path /\ c.ok
    BY <1>0, <2>1, AskedIs
  <2> HIDE DEF c
  <2>3. /\ calls' = calls \cup {c}
        /\ UNCHANGED <<store, B!listing, B!dialogs, harm>>
    BY <1>4 DEF B!ShowEditor, B!Ask, c
  <2> QED BY <1>0, <2>2, <2>3 DEF AsksFor, B!dialogs
<1>5. ASSUME NEW n \in Names, B!Mkdir(n) PROVE \E c \in B!Call : AsksFor(c)
  <2> DEFINE c == B!Asked("mkdir", {<<dir, n>>}, None, None)
  <2>1. {<<dir, n>>} \subseteq B!Path
    BY <1>0 DEF B!Path
  <2>2. c \in B!Call /\ c.what = "mkdir" /\ c.on \subseteq B!Path /\ c.ok
    BY <1>0, <2>1, AskedIs
  <2> HIDE DEF c
  <2>3. /\ calls' = calls \cup {c} /\ busy' = TRUE
        /\ UNCHANGED <<store, B!listing, key, editor, dialog, typed, meant, harm>>
    BY <1>5 DEF B!Mkdir, B!Ask, c
  <2> QED BY <2>2, <2>3 DEF AsksFor
<1> QED BY <1>1, <1>2, <1>3, <1>4, <1>5

\* A file is renamed, under the name it has or another one.
LEMMA Renames ==
  ASSUME FilesTypes, NEW n \in Names, B!Rename(n)
  PROVE  /\ dialog = "rename" /\ editor = None
         /\ UNCHANGED <<store, B!listing, key, editor, typed, harm>>
         /\ \/ /\ dialog' = "none" /\ meant' = None /\ UNCHANGED <<calls, busy>>
            \/ \E c \in B!Call :
                 /\ calls' = calls \cup {c} /\ c.what = "mv" /\ c.on = {key} /\ c.of = meant
                 /\ c.to = <<dir, n>> /\ busy' = TRUE /\ UNCHANGED <<dialog, meant>>
<1>1. CASE key = <<dir, n>>
  BY <1>1 DEF B!Rename
<1>2. CASE key # <<dir, n>>
  <2> DEFINE c == B!Asked("mv", {key}, None, <<dir, n>>)
  <2>1. /\ {key} \in SUBSET (B!Path \cup {None}) /\ None \in B!Content
        /\ <<dir, n>> \in B!Path \cup {None}
    BY DEF FilesTypes, B!Content, B!Path
  <2>2. c \in B!Call /\ c.what = "mv" /\ c.on = {key} /\ c.of = meant /\ c.to = <<dir, n>>
    BY <2>1, AskedIs
  <2> HIDE DEF c
  <2>3. calls' = calls \cup {c} /\ busy' = TRUE /\ UNCHANGED <<dialog, meant>>
    BY <1>2 DEF B!Rename, B!Ask, c
  <2>4. /\ dialog = "rename" /\ editor = None
        /\ UNCHANGED <<store, B!listing, key, editor, typed, harm>>
    BY DEF B!Rename
  <2> QED BY <2>2, <2>3, <2>4
<1> QED BY <1>1, <1>2


LEMMA FilesTypesStep == FilesTypes /\ [B!Next]_B!vars => FilesTypes'
<1> SUFFICES ASSUME FilesTypes, [B!Next]_B!vars PROVE FilesTypes'
  OBVIOUS
<1>a. /\ store \in [B!Path -> B!Content] /\ dir \in Dirs /\ files \in [Names -> B!Content]
      /\ picked \subseteq Names /\ loading \in BOOLEAN /\ loads \in Seq(Loads)
      /\ calls \subseteq B!Call
      /\ key \in B!Path \cup {None} /\ editor \in Texts \cup {Missing, None}
      /\ dialog \in {"none", "rename", "mkdir"} /\ busy \in BOOLEAN
      /\ typed \in (B!Path \X Texts) \cup {None} /\ meant \in B!Path \cup {None}
      /\ harm \subseteq B!Harms
  BY DEF FilesTypes
<1>b. /\ editor # None => key \in B!Path
      /\ \A c \in calls : /\ c.what # "mv" => c.on \subseteq B!Path
                          /\ c.what \in {"put", "mv"} => \E p \in B!Path \cup {None} : c.on = {p}
  BY DEF FilesTypes
<1>c. \A d \in Dirs : B!Entries(d) \in [Names -> B!Content]
  BY <1>a DEF B!Entries, B!Path
<1>d. {"failed", "overtaken", "partial", "resized", "late", "moved"} = B!Harms
  BY DEF B!Harms
<1>e. \A i \in DOMAIN loads : loads[i] \in Loads
  BY <1>a, ElementOfSeq, LenProperties
<1> USE DEF B!listing, B!dialogs
<1>1. CASE UNCHANGED B!vars
  BY <1>1 DEF B!vars, FilesTypes
<1>2. ASSUME NEW d \in Dirs, B!Open(d) PROVE FilesTypes'
  <2>1. loads' \in Seq(Loads)
    BY <1>2, <1>a, LoadAsks DEF B!Open
  <2>2. UNCHANGED <<store, dir, files, picked, calls, key, editor, dialog, busy, typed, meant, harm>>
        /\ loading' \in BOOLEAN
    BY <1>2 DEF B!Open
  <2> QED BY <1>a, <1>b, <2>1, <2>2 DEF FilesTypes
<1>3. ASSUME NEW i \in DOMAIN loads, B!List(i) \/ B!Listed(i) \/ B!ListRefused(i) \/ B!ListLost(i)
      PROVE  FilesTypes'
  <2>1. loads' \in Seq(Loads)
    <3>1. CASE B!List(i)
      <4>1. [loads[i] EXCEPT !.got = B!Entries(loads[i].dir)] \in Loads
        BY <1>c, <1>e DEF Loads
      <4>2. loads' = [loads EXCEPT ![i] = [loads[i] EXCEPT !.got = B!Entries(loads[i].dir)]]
        BY <3>1 DEF B!List
      <4> QED BY <1>a, <4>1, <4>2, ExceptSeq
    <3>2. CASE B!Listed(i) \/ B!ListRefused(i) \/ B!ListLost(i)
      BY <1>a, <3>2, LeftIs DEF B!Listed, B!ListRefused, B!ListLost
    <3> QED BY <1>3, <3>1, <3>2
  <2>2. /\ UNCHANGED <<store, calls, key, editor, dialog, busy, typed, meant>>
        /\ loading' \in BOOLEAN /\ picked' \subseteq Names /\ harm' \subseteq B!Harms
    BY <1>3, <1>a, <1>d DEF B!List, B!Listed, B!ListRefused, B!ListLost
  <2>3. dir' \in Dirs /\ files' \in [Names -> B!Content]
    BY <1>3, <1>a, <1>e DEF B!List, B!Listed, B!ListRefused, B!ListLost, Loads
  <2> QED BY <1>a, <1>b, <2>1, <2>2, <2>3 DEF FilesTypes
<1>4. ASSUME NEW n \in Names, B!Select(n) PROVE FilesTypes'
  <2>1. /\ UNCHANGED <<store, dir, files, loading, loads, calls, key, editor, dialog, busy,
                       typed, meant, harm>>
        /\ picked' \subseteq Names
    BY <1>4, <1>a DEF B!Select, B!SymDiff
  <2> QED BY <1>a, <1>b, <2>1 DEF FilesTypes
<1>5. CASE B!Delete \/ B!Upload \/ B!Edit \/ \E n \in Names : B!ShowEditor(n) \/ B!Mkdir(n)
  <2>1. PICK c \in B!Call : AsksFor(c)
    BY <1>5, Asks
  <2>2. /\ UNCHANGED <<store, dir, files, picked, loading, loads, key, editor, dialog,
                       typed, meant, harm>>
        /\ calls' = calls \cup {c} /\ busy' \in BOOLEAN
    BY <2>1 DEF AsksFor
  <2> QED BY <1>a, <1>b, <2>1, <2>2 DEF FilesTypes, AsksFor
<1>6. ASSUME NEW n \in Names, B!Rename(n) PROVE FilesTypes'
  <2>1. /\ UNCHANGED <<store, dir, files, picked, loading, loads, key, editor, typed, harm>>
        /\ busy' \in BOOLEAN /\ dialog' \in {"none", "rename", "mkdir"}
        /\ meant' \in B!Path \cup {None}
    BY <1>6, <1>a, Renames
  <2>2. \/ calls' = calls
        \/ \E c \in B!Call : calls' = calls \cup {c} /\ c.what = "mv" /\ c.on = {key}
    BY <1>6, Renames
  <2>3. calls' \subseteq B!Call
    BY <1>a, <2>2
  <2> QED BY <1>a, <1>b, <2>1, <2>2, <2>3 DEF FilesTypes
<1>7. CASE B!HideEditor \/ B!OpenMkdir \/ B!CloseDialog \/ (\E t \in Texts : B!Type(t))
         \/ (\E n \in Names : B!OpenRename(n))
  <2>1. UNCHANGED <<store, dir, files, picked, loading, loads, calls, busy, harm>>
    BY <1>7 DEF B!HideEditor, B!OpenMkdir, B!CloseDialog, B!Type, B!OpenRename
  <2> DEFINE fits == /\ key' \in B!Path \cup {None} /\ editor' \in Texts \cup {Missing, None}
                     /\ dialog' \in {"none", "rename", "mkdir"}
                     /\ typed' \in (B!Path \X Texts) \cup {None} /\ meant' \in B!Path \cup {None}
                     /\ editor' # None => key' \in B!Path
  <2>2. fits
    <3>1. CASE B!HideEditor \/ B!OpenMkdir \/ B!CloseDialog
      BY <1>a, <1>b, <3>1 DEF B!HideEditor, B!OpenMkdir, B!CloseDialog
    <3>2. ASSUME NEW t \in Texts, B!Type(t) PROVE fits
      BY <1>a, <1>b, <3>2 DEF B!Type
    <3>3. ASSUME NEW n \in Names, B!OpenRename(n) PROVE fits
      <4>1. <<dir, n>> \in B!Path
        BY <1>a DEF B!Path
      <4> QED BY <1>a, <1>b, <3>3, <4>1 DEF B!OpenRename, B!Key
    <3> QED BY <1>7, <3>1, <3>2, <3>3
  <2> QED BY <1>a, <1>b, <2>1, <2>2 DEF FilesTypes
<1>8. ASSUME NEW c \in calls, B!GotFile(c) PROVE FilesTypes'
  <2>1. /\ UNCHANGED <<store, dir, files, picked, loading, loads, dialog, busy, typed, meant>>
        /\ calls' \subseteq calls /\ harm' \subseteq B!Harms
    BY <1>8, <1>a, <1>d DEF B!GotFile, B!Marked
  <2>2. PICK p \in c.on : /\ key' = p /\ store[p] # Folder
                          /\ editor' = IF store[p] = None THEN Missing ELSE store[p]
    BY <1>8 DEF B!GotFile
  <2>3. p \in B!Path
    BY <1>8, <1>b DEF B!GotFile
  <2>4. editor' \in Texts \cup {Missing, None}
    BY <1>a, <2>2, <2>3 DEF B!Content
  <2> QED BY <1>a, <1>b, <2>1, <2>2, <2>3, <2>4 DEF FilesTypes
<1>9. ASSUME NEW c \in calls, NEW written \in BOOLEAN, B!Edited(c, written) PROVE FilesTypes'
  <2>1. /\ UNCHANGED <<dir, files, picked, loading, loads, dialog, meant>>
        /\ calls' \subseteq calls /\ editor' = None /\ key' = None /\ busy' = FALSE
        /\ typed' \in {None, typed}
        /\ store' = IF written THEN B!Put(c, store) ELSE store
    BY <1>9 DEF B!Edited
  <2>2. harm' \subseteq B!Harms
    BY <1>9, <1>a, <1>d DEF B!Edited
  <2>3. store' \in [B!Path -> B!Content]
    BY <1>a, <2>1 DEF B!Put, B!Call
  <2> QED BY <1>a, <1>b, <2>1, <2>2, <2>3 DEF FilesTypes
<1>10. ASSUME NEW c \in calls, NEW p \in c.on, NEW made \in BOOLEAN, B!Step(c, p, made)
       PROVE  FilesTypes'
  <2> DEFINE d == [c EXCEPT !.on = @ \ {p}, !.ok = @ /\ (made \/ c.what = "rm")]
  <2>1. /\ UNCHANGED <<dir, files, picked, key, editor, dialog, busy, typed, meant>>
        /\ c.what \in {"rm", "up"}
        /\ calls' \subseteq calls \cup {d}
        /\ store' = IF made THEN [store EXCEPT ![p] = c.text] ELSE store
        /\ B!Refresh \/ UNCHANGED <<loads, loading>>
        /\ harm' \subseteq B!Harms
    BY <1>10, <1>a, <1>d DEF B!Step, B!Marked
  <2>2. d \in B!Call /\ d.what = c.what /\ d.on \subseteq B!Path /\ c.text \in B!Content
    <3>1. c \in B!Call
      BY <1>a
    <3>2. c.on \ {p} \in SUBSET (B!Path \cup {None})
      BY <3>1 DEF B!Call
    <3>3. (c.ok /\ (made \/ c.what = "rm")) \in BOOLEAN
      OBVIOUS
    <3>4. d \in B!Call /\ d.what = c.what /\ d.on = c.on \ {p}
      BY <3>1, <3>2, <3>3 DEF B!Call
    <3>5. c.on \subseteq B!Path /\ c.text \in B!Content
      BY <1>b, <2>1, <3>1 DEF B!Call
    <3> QED BY <3>4, <3>5
  <2>3. loads' \in Seq(Loads) /\ loading' \in BOOLEAN
    BY <1>a, <2>1, LoadAsks DEF B!Refresh
  <2>4. store' \in [B!Path -> B!Content]
    BY <1>a, <1>b, <2>1, <2>2
  <2> HIDE DEF d
  <2> QED BY <1>a, <1>b, <2>1, <2>2, <2>3, <2>4 DEF FilesTypes
<1>11. ASSUME NEW c \in calls, NEW made \in BOOLEAN, B!Moved(c, made) PROVE FilesTypes'
  <2>1. /\ UNCHANGED <<dir, files, picked, key, editor, typed, harm>>
        /\ calls' \subseteq calls /\ busy' = FALSE /\ meant' = None /\ dialog' \in {"none", dialog}
        /\ B!Refresh \/ UNCHANGED <<loads, loading>>
    BY <1>11 DEF B!Moved
  <2>2. loads' \in Seq(Loads) /\ loading' \in BOOLEAN
    BY <1>a, <2>1, LoadAsks DEF B!Refresh
  <2>3. store' \in [B!Path -> B!Content]
    <3>1. CASE ~made
      BY <1>11, <1>a, <3>1 DEF B!Moved
    <3>2. CASE made
      <4> DEFINE q == CHOOSE p \in c.on : TRUE
      <4>1. PICK p \in B!Path \cup {None} : c.on = {p}
        BY <1>11, <1>b DEF B!Moved
      <4>2. p # None
        BY <1>11, <3>2, <4>1 DEF B!Moved
      <4>3. q \in B!Path
        BY <4>1, <4>2
      <4>4. store' = [x \in B!Path |-> IF x \in c.on THEN None
                           ELSE IF x = c.to THEN store[q] ELSE store[x]]
        BY <1>11, <3>2 DEF B!Moved
      <4> HIDE DEF q
      <4> QED BY <1>a, <4>3, <4>4 DEF B!Content
    <3> QED BY <3>1, <3>2
  <2> QED BY <1>a, <1>b, <2>1, <2>2, <2>3 DEF FilesTypes
<1>12. ASSUME NEW c \in calls, NEW made \in BOOLEAN, B!Made(c, made) PROVE FilesTypes'
  <2>1. /\ UNCHANGED <<dir, files, picked, key, editor, typed, meant, harm>>
        /\ calls' \subseteq calls /\ busy' = FALSE /\ dialog' \in {"none", dialog}
        /\ B!Refresh \/ UNCHANGED <<loads, loading>>
        /\ store' = IF made THEN [p \in B!Path |-> IF p \in c.on THEN Folder ELSE store[p]]
                    ELSE store
    BY <1>12 DEF B!Made
  <2>2. loads' \in Seq(Loads) /\ loading' \in BOOLEAN
    BY <1>a, <2>1, LoadAsks DEF B!Refresh
  <2>3. store' \in [B!Path -> B!Content]
    BY <1>a, <2>1 DEF B!Content
  <2> QED BY <1>a, <1>b, <2>1, <2>2, <2>3 DEF FilesTypes
<1>13. ASSUME NEW c \in calls, B!CallLost(c) PROVE FilesTypes'
  <2>1. /\ UNCHANGED <<store, dir, files, picked, loading, loads, key, editor, dialog, busy,
                       typed, meant>>
        /\ calls' \subseteq calls /\ harm' \subseteq B!Harms
    BY <1>13, <1>a, <1>d DEF B!CallLost
  <2> QED BY <1>a, <1>b, <2>1 DEF FilesTypes
<1> QED BY <1>1, <1>2, <1>3, <1>4, <1>5, <1>6, <1>7, <1>8, <1>9, <1>10, <1>11, <1>12, <1>13
        DEF B!Next


\* Mishaps are never forgotten.
LEMMA HarmGrows == [B!Next]_B!vars => harm \subseteq harm'
<1> SUFFICES ASSUME [B!Next]_B!vars PROVE harm \subseteq harm'
  OBVIOUS
<1>1. ASSUME NEW i \in DOMAIN loads, B!List(i) \/ B!Listed(i) \/ B!ListRefused(i) \/ B!ListLost(i)
      PROVE  harm \subseteq harm'
  BY <1>1 DEF B!List, B!Listed, B!ListRefused, B!ListLost
<1>2. ASSUME NEW n \in Names, \/ B!Select(n) \/ B!ShowEditor(n) \/ B!OpenRename(n)
                              \/ B!Rename(n) \/ B!Mkdir(n)
      PROVE  harm' = harm
  BY <1>2 DEF B!Select, B!ShowEditor, B!OpenRename, B!Rename, B!Mkdir
<1>3. ASSUME \/ B!Delete \/ B!Upload \/ B!HideEditor \/ B!Edit \/ B!OpenMkdir \/ B!CloseDialog
             \/ (\E t \in Texts : B!Type(t)) \/ \E d \in Dirs : B!Open(d)
      PROVE  harm' = harm
  BY <1>3 DEF B!Delete, B!Upload, B!HideEditor, B!Edit, B!OpenMkdir, B!CloseDialog, B!Type, B!Open
<1>4. ASSUME NEW c \in calls, B!GotFile(c) \/ B!CallLost(c) PROVE harm \subseteq harm'
  BY <1>4 DEF B!GotFile, B!CallLost, B!Marked
<1>5. ASSUME NEW c \in calls, NEW made \in BOOLEAN, \/ B!Edited(c, made) \/ B!Moved(c, made)
                                                  \/ B!Made(c, made)
      PROVE  harm \subseteq harm'
  BY <1>5 DEF B!Edited, B!Moved, B!Made
<1>6. ASSUME NEW c \in calls, NEW p \in c.on, NEW made \in BOOLEAN, B!Step(c, p, made)
      PROVE  harm \subseteq harm'
  BY <1>6 DEF B!Step, B!Marked
<1>7. CASE UNCHANGED B!vars
  BY <1>7 DEF B!vars
<1> QED BY <1>1, <1>2, <1>3, <1>4, <1>5, <1>6, <1>7 DEF B!Next

LEMMA NamesStep == FilesTypes /\ NamesKept /\ [B!Next]_B!vars => NamesKept'
<1> SUFFICES ASSUME FilesTypes, NamesKept, [B!Next]_B!vars, harm' = {} PROVE NamesKept'
  BY DEF NamesKept
<1>a. /\ harm = {}
      /\ dialog = "rename" => editor = None /\ key = meant /\ \E n \in Names : meant = <<dir, n>>
      /\ \A c \in calls : c.what = "mv" => c.on = {c.of} /\ c.to[1] = c.of[1]
  BY HarmGrows DEF NamesKept
<1> USE DEF B!listing, B!dialogs
<1>1. CASE UNCHANGED B!vars
  BY <1>1, <1>a DEF B!vars, NamesKept
<1>2. ASSUME NEW d \in Dirs, B!Open(d) PROVE NamesKept'
  BY <1>2, <1>a DEF B!Open, NamesKept
<1>3. ASSUME NEW i \in DOMAIN loads, B!List(i) \/ B!Listed(i) \/ B!ListRefused(i) \/ B!ListLost(i)
      PROVE  NamesKept'
  <2>1. UNCHANGED <<calls, key, editor, dialog, meant>> /\ (dialog = "rename" => dir' = dir)
    BY <1>3 DEF B!List, B!Listed, B!ListRefused, B!ListLost
  <2> QED BY <1>a, <2>1 DEF NamesKept
<1>4. ASSUME NEW n \in Names, B!Select(n) PROVE NamesKept'
  BY <1>4, <1>a DEF B!Select, NamesKept
<1>5. CASE B!Delete \/ B!Upload \/ B!Edit \/ \E n \in Names : B!ShowEditor(n) \/ B!Mkdir(n)
  <2>1. PICK c \in B!Call : AsksFor(c)
    BY <1>5, Asks
  <2> QED BY <1>a, <2>1 DEF AsksFor, NamesKept
<1>6. ASSUME NEW n \in Names, B!Rename(n) PROVE NamesKept'
  <2>1. /\ dialog = "rename" /\ UNCHANGED <<dir, key, editor>>
        /\ \/ dialog' = "none" /\ calls' = calls
           \/ /\ UNCHANGED <<dialog, meant>>
              /\ \E c \in B!Call : /\ calls' = calls \cup {c} /\ c.on = {key} /\ c.of = meant
                                 /\ c.to = <<dir, n>>
    BY <1>6, Renames
  <2>2. meant[1] = dir
    BY <1>a, <2>1
  <2> QED BY <1>a, <2>1, <2>2 DEF NamesKept
<1>7. CASE B!HideEditor \/ B!OpenMkdir \/ B!CloseDialog \/ \E t \in Texts : B!Type(t)
  BY <1>7, <1>a DEF B!HideEditor, B!OpenMkdir, B!CloseDialog, B!Type, NamesKept
<1>8. ASSUME NEW n \in Names, B!OpenRename(n) PROVE NamesKept'
  BY <1>8, <1>a DEF B!OpenRename, B!Key, B!Bare, NamesKept
<1>9. ASSUME NEW c \in calls, B!GotFile(c) PROVE NamesKept'
  <2>1. dialog # "rename" /\ dialog' = dialog /\ calls' \subseteq calls
    BY <1>9 DEF B!GotFile, B!Marked
  <2> QED BY <1>a, <2>1 DEF NamesKept
<1>10. ASSUME NEW c \in calls, NEW written \in BOOLEAN, B!Edited(c, written) PROVE NamesKept'
  <2>1. dialog # "rename" /\ dialog' = dialog /\ calls' \subseteq calls
    BY <1>10 DEF B!Edited
  <2> QED BY <1>a, <2>1 DEF NamesKept
<1>11. ASSUME NEW c \in calls, NEW p \in c.on, NEW made \in BOOLEAN, B!Step(c, p, made)
       PROVE  NamesKept'
  <2> DEFINE d == [c EXCEPT !.on = @ \ {p}, !.ok = @ /\ (made \/ c.what = "rm")]
  <2>1. /\ UNCHANGED <<dir, key, editor, dialog, meant>>
        /\ c.what \in {"rm", "up"} /\ calls' \subseteq calls \cup {d}
    BY <1>11 DEF B!Step
  <2>2. d.what = c.what
    BY DEF FilesTypes, B!Call
  <2> HIDE DEF d
  <2> QED BY <1>a, <2>1, <2>2 DEF NamesKept
<1>12. ASSUME NEW c \in calls, NEW made \in BOOLEAN, B!Moved(c, made) \/ B!Made(c, made)
       PROVE  NamesKept'
  <2>1. /\ UNCHANGED <<dir, key, editor>> /\ calls' \subseteq calls
        /\ dialog' # "rename" \/ UNCHANGED <<dialog, meant>>
    BY <1>12 DEF B!Moved, B!Made
  <2> QED BY <1>a, <2>1 DEF NamesKept
<1>13. ASSUME NEW c \in calls, B!CallLost(c) PROVE NamesKept'
  BY <1>13, <1>a DEF B!CallLost, NamesKept
<1> QED BY <1>1, <1>2, <1>3, <1>4, <1>5, <1>6, <1>7, <1>8, <1>9, <1>10, <1>11, <1>12, <1>13
        DEF B!Next

LEMMA TextStep == FilesTypes /\ TextKept /\ [B!Next]_B!vars => TextKept'
<1> SUFFICES ASSUME FilesTypes, TextKept, [B!Next]_B!vars, harm' = {} PROVE TextKept'
  BY DEF TextKept
<1>a. harm = {} /\ (typed # None => typed = <<key, editor>> /\ editor # None)
  BY HarmGrows DEF TextKept
<1> USE DEF B!listing, B!dialogs
<1>1. CASE UNCHANGED B!vars
  BY <1>1, <1>a DEF B!vars, TextKept
<1>2. ASSUME NEW d \in Dirs, B!Open(d) PROVE TextKept'
  BY <1>2, <1>a DEF B!Open, TextKept
<1>3. ASSUME NEW i \in DOMAIN loads, B!List(i) \/ B!Listed(i) \/ B!ListRefused(i) \/ B!ListLost(i)
      PROVE  TextKept'
  BY <1>3, <1>a DEF B!List, B!Listed, B!ListRefused, B!ListLost, TextKept
<1>4. ASSUME NEW n \in Names, B!Select(n) \/ B!Rename(n) PROVE TextKept'
  BY <1>4, <1>a DEF B!Select, B!Rename, TextKept
<1>5. CASE B!Delete \/ B!Upload \/ B!Edit \/ \E n \in Names : B!ShowEditor(n) \/ B!Mkdir(n)
  <2>1. PICK c \in B!Call : AsksFor(c)
    BY <1>5, Asks
  <2> QED BY <1>a, <2>1 DEF AsksFor, TextKept
<1>6. CASE B!HideEditor \/ B!OpenMkdir \/ B!CloseDialog
  BY <1>6, <1>a DEF B!HideEditor, B!OpenMkdir, B!CloseDialog, TextKept
<1>7. ASSUME NEW t \in Texts, B!Type(t) PROVE TextKept'
  BY <1>7, NoneIsNoText DEF B!Type, TextKept
<1>8. ASSUME NEW n \in Names, B!OpenRename(n) PROVE TextKept'
  <2>1. typed = None /\ typed' = typed
    BY <1>8, <1>a DEF B!OpenRename, B!Bare
  <2> QED BY <2>1 DEF TextKept
<1>9. ASSUME NEW c \in calls, B!GotFile(c) PROVE TextKept'
  <2>1. typed = None /\ typed' = typed
    BY <1>9 DEF B!GotFile, B!Marked
  <2> QED BY <2>1 DEF TextKept
<1>10. ASSUME NEW c \in calls, NEW written \in BOOLEAN, B!Edited(c, written) PROVE TextKept'
  <2>1. PICK p : c.on = {p}
    BY <1>10 DEF B!Edited, FilesTypes
  <2>2. p \in B!Path
    BY <1>10, <2>1 DEF B!Edited, FilesTypes
  <2>3. written /\ (typed = None \/ typed = <<p, c.text>>)
    BY <1>10, <2>1 DEF B!Edited
  <2>4. store'[p] = c.text
    BY <1>10, <2>1, <2>2, <2>3 DEF B!Edited, B!Put
  <2>5. typed' = None
    BY <1>10, <2>3, <2>4 DEF B!Edited
  <2> QED BY <2>5 DEF TextKept
<1>11. ASSUME NEW c \in calls, NEW p \in c.on, NEW made \in BOOLEAN, B!Step(c, p, made)
       PROVE  TextKept'
  BY <1>11, <1>a DEF B!Step, TextKept
<1>12. ASSUME NEW c \in calls, NEW made \in BOOLEAN, B!Moved(c, made) \/ B!Made(c, made)
       PROVE  TextKept'
  BY <1>12, <1>a DEF B!Moved, B!Made, TextKept
<1>13. ASSUME NEW c \in calls, B!CallLost(c) PROVE TextKept'
  BY <1>13, <1>a DEF B!CallLost, TextKept
<1> QED BY <1>1, <1>2, <1>3, <1>4, <1>5, <1>6, <1>7, <1>8, <1>9, <1>10, <1>11, <1>12, <1>13
        DEF B!Next

\* The entries of a directory change with the storage only.
LEMMA EntriesStay == store' = store => \A d : B!Entries(d)' = B!Entries(d)
BY DEF B!Entries

\* A listing that is refreshed comes.
LEMMA RefreshComes ==
  ASSUME FilesTypes, B!Refresh, \A c \in calls' : c.what \in {"rm", "up"} => c.ok
  PROVE  ListingComes'
<1>1. loads' # <<>> /\ LastIsTrue'
  BY LoadAsks DEF FilesTypes, B!Refresh
<1> QED BY <1>1 DEF ListingComes

LEMMA ListingStep == FilesTypes /\ ListingComes /\ [B!Next]_B!vars => ListingComes'
<1> SUFFICES ASSUME FilesTypes, ListingComes, [B!Next]_B!vars, harm' = {} PROVE ListingComes'
  BY DEF ListingComes
<1> DEFINE under == \E c \in calls : c.what \in {"rm", "up"}
           shown == loads = <<>> /\ files = B!Entries(dir)
           comes == loads # <<>> /\ LastIsTrue
<1>a. /\ harm = {} /\ \A c \in calls : c.what \in {"rm", "up"} => c.ok
      /\ under \/ shown \/ comes
  BY HarmGrows DEF ListingComes
<1> USE DEF B!listing, B!dialogs
\* A step that lists nothing, changes nothing, and neither ends a deletion or an
\* upload nor starts one that is not whole.
<1>b. ASSUME UNCHANGED <<store, loads, files, dir>>,
             \A c \in calls : c.what \in {"rm", "up"} => c \in calls',
             \A c \in calls' : c.what \in {"rm", "up"} => c.ok
      PROVE  ListingComes'
  <2>1. shown => shown'
    BY <1>b, EntriesStay
  <2>2. comes => comes'
    BY <1>b, EntriesStay DEF LastIsTrue
  <2>3. under => under'
    BY <1>b
  <2> QED BY <1>a, <1>b, <2>1, <2>2, <2>3 DEF ListingComes
<1>1. CASE UNCHANGED B!vars
  BY <1>1, <1>a, <1>b DEF B!vars
<1>2. ASSUME NEW d \in Dirs, B!Open(d) PROVE ListingComes'
  <2>1. loads' # <<>> /\ LastIsTrue'
    BY <1>2, LoadAsks DEF B!Open, FilesTypes
  <2> QED BY <1>2, <1>a, <2>1 DEF ListingComes, B!Open
<1>3. ASSUME NEW i \in DOMAIN loads, B!List(i) PROVE ListingComes'
  <2>1. /\ UNCHANGED <<store, files, dir, calls>>
        /\ loads' = [loads EXCEPT ![i].got = B!Entries(loads[i].dir)]
    BY <1>3 DEF B!List
  <2>2. loads \in Seq(Loads) /\ DOMAIN loads = 1..Len(loads) /\ Len(loads) \in Nat
    BY LenProperties DEF FilesTypes
  <2>3. /\ Len(loads') = Len(loads) /\ loads # <<>> /\ loads' # <<>>
        /\ Len(loads) \in DOMAIN loads
    BY <2>1, <2>2
  <2>4. /\ loads'[Len(loads)].old = loads[Len(loads)].old
        /\ loads'[Len(loads)].dir = loads[Len(loads)].dir
        /\ loads'[Len(loads)].got \in {loads[Len(loads)].got, B!Entries(loads[Len(loads)].dir)}
    <3>1. loads[Len(loads)] \in Loads
      BY <2>2, <2>3, ElementOfSeq
    <3> QED BY <2>1, <2>2, <2>3, <3>1 DEF Loads
  <2>5. comes => comes'
    BY <2>1, <2>3, <2>4, EntriesStay DEF LastIsTrue
  <2>6. under => under'
    BY <2>1
  <2> QED BY <1>a, <2>1, <2>3, <2>5, <2>6 DEF ListingComes
<1>4. ASSUME NEW i \in DOMAIN loads, B!Listed(i) PROVE ListingComes'
  <2>1. /\ UNCHANGED <<store, calls>> /\ loads' = B!Left(i) /\ loads[i].got # None
        /\ files' = loads[i].got /\ dir' = loads[i].dir /\ ~loads[i].old
    BY <1>4 DEF B!Listed
  <2> DEFINE n == Len(loads)
  <2>2. /\ n \in Nat /\ Len(loads') = n - 1
        /\ i # n => loads' # <<>> /\ loads'[Len(loads')] = loads[n]
        /\ i = n /\ loads' # <<>> => loads'[Len(loads')].old
    BY <2>1, LeftIs DEF FilesTypes
  <2>3. loads # <<>> /\ i \in 1..n
    BY LenProperties DEF FilesTypes
  <2>4. under => under'
    BY <2>1
  <2>5. CASE ~under /\ i # n
    BY <1>a, <2>1, <2>2, <2>3, <2>5, EntriesStay DEF ListingComes, LastIsTrue
  <2>6. CASE ~under /\ i = n
    <3>1. files' = B!Entries(dir')
      BY <1>a, <2>1, <2>3, <2>6 DEF LastIsTrue
    <3>2. B!Entries(dir)' = B!Entries(dir')
      BY <2>1 DEF B!Entries
    <3> QED BY <1>a, <2>1, <2>2, <2>6, <3>1, <3>2 DEF ListingComes, LastIsTrue
  <2> QED BY <1>a, <2>1, <2>4, <2>5, <2>6 DEF ListingComes
<1>5. ASSUME NEW i \in DOMAIN loads, B!ListRefused(i) \/ B!ListLost(i) PROVE ListingComes'
  BY <1>5 DEF B!ListRefused, B!ListLost
<1>6. ASSUME NEW n \in Names, B!Select(n) PROVE ListingComes'
  BY <1>6, <1>a, <1>b DEF B!Select
<1>7. CASE B!Delete \/ B!Upload \/ B!Edit \/ \E n \in Names : B!ShowEditor(n) \/ B!Mkdir(n)
  <2>1. PICK c \in B!Call : AsksFor(c)
    BY <1>7, Asks
  <2> QED BY <1>a, <1>b, <2>1 DEF AsksFor
<1>8. ASSUME NEW n \in Names, B!Rename(n) PROVE ListingComes'
  <2>1. /\ UNCHANGED <<store, loads, files, dir>>
        /\ calls' = calls \/ \E c \in B!Call : calls' = calls \cup {c} /\ c.what = "mv"
    BY <1>8, Renames
  <2> QED BY <1>a, <1>b, <2>1
<1>9. CASE B!HideEditor \/ B!OpenMkdir \/ B!CloseDialog \/ (\E t \in Texts : B!Type(t))
         \/ (\E n \in Names : B!OpenRename(n))
  <2>1. UNCHANGED <<store, loads, files, dir, calls>>
    BY <1>9 DEF B!HideEditor, B!OpenMkdir, B!CloseDialog, B!Type, B!OpenRename
  <2> QED BY <1>a, <1>b, <2>1
<1>10. ASSUME NEW c \in calls, B!GotFile(c) PROVE ListingComes'
  <2>1. UNCHANGED <<store, loads, files, dir>> /\ c.what = "get" /\ calls' = calls \ {c}
    BY <1>10 DEF B!GotFile
  <2> QED BY <1>a, <1>b, <2>1
<1>11. ASSUME NEW c \in calls, NEW written \in BOOLEAN, B!Edited(c, written) PROVE ListingComes'
  <2>1. UNCHANGED <<store, loads, files, dir>> /\ c.what = "put" /\ calls' = calls \ {c}
    BY <1>11 DEF B!Edited
  <2> QED BY <1>a, <1>b, <2>1
<1>12. ASSUME NEW c \in calls, NEW p \in c.on, NEW made \in BOOLEAN, B!Step(c, p, made)
       PROVE  ListingComes'
  <2> DEFINE d == [c EXCEPT !.on = @ \ {p}, !.ok = @ /\ (made \/ c.what = "rm")]
             final == d.on = {}
  <2>1. /\ c.what \in {"rm", "up"}
        /\ calls' = (calls \ {c}) \cup (IF final THEN {} ELSE {d})
        /\ final /\ d.ok => B!Refresh
        /\ made \/ c.what = "rm"
    BY <1>12 DEF B!Step, B!Marked
  <2>2. d.what = c.what /\ d.ok
    BY <1>a, <2>1 DEF FilesTypes, B!Call
  <2> HIDE DEF d
  <2>3. \A x \in calls' : x.what \in {"rm", "up"} => x.ok
    BY <1>a, <2>1, <2>2
  <2>4. CASE final
    BY <2>1, <2>2, <2>3, <2>4, RefreshComes
  <2>5. CASE ~final
    BY <2>1, <2>2, <2>3, <2>5 DEF ListingComes
  <2> QED BY <2>4, <2>5
<1>13. ASSUME NEW c \in calls, NEW made \in BOOLEAN, B!Moved(c, made) \/ B!Made(c, made)
       PROVE  ListingComes'
  <2>1. /\ c.what \in {"mv", "mkdir"} /\ calls' = calls \ {c}
        /\ made => B!Refresh
        /\ ~made => UNCHANGED <<store, loads, files, dir>>
    BY <1>13 DEF B!Moved, B!Made
  <2>2. \A x \in calls' : x.what \in {"rm", "up"} => x.ok
    BY <1>a, <2>1
  <2>3. CASE made
    BY <2>1, <2>2, <2>3, RefreshComes
  <2>4. CASE ~made
    BY <1>b, <2>1, <2>2, <2>4
  <2> QED BY <2>3, <2>4
<1>14. ASSUME NEW c \in calls, B!CallLost(c) PROVE ListingComes'
  BY <1>14 DEF B!CallLost
<1> QED BY <1>1, <1>2, <1>3, <1>4, <1>5, <1>6, <1>7, <1>8, <1>9, <1>10, <1>11, <1>12, <1>13,
           <1>14 DEF B!Next

LEMMA FilesInit == B!Init => FilesInv
<1> SUFFICES ASSUME B!Init PROVE FilesInv
  OBVIOUS
<1>1. FilesTypes
  BY FilesTypesInit
<1>2. NamesKept /\ TextKept /\ ListingComes
  BY DEF B!Init, NamesKept, TextKept, ListingComes
<1> QED BY <1>1, <1>2 DEF FilesInv

LEMMA FilesStep == FilesInv /\ [B!Next]_B!vars => FilesInv'
BY FilesTypesStep, NamesStep, TextStep, ListingStep DEF FilesInv

LEMMA FilesAreTrue ==
  FilesInv => B!TypeOK /\ B!QuietListingIsTrue /\ B!TextIsKept /\ B!RenamesItsFile
<1> SUFFICES ASSUME FilesInv
             PROVE  B!TypeOK /\ B!QuietListingIsTrue /\ B!TextIsKept /\ B!RenamesItsFile
  OBVIOUS
<1>1. B!TypeOK
  BY TypesOfFiles DEF FilesInv
<1>2. B!QuietListingIsTrue /\ B!TextIsKept /\ B!RenamesItsFile
  BY DEF FilesInv, ListingComes, TextKept, NamesKept, B!QuietListingIsTrue, B!TextIsKept,
         B!RenamesItsFile
<1> QED BY <1>1, <1>2

-----------------------------------------------------------------------------
\* The page of settings.

Forms == [initial : {"nothing", "blank", "default"}, required : BOOLEAN]
Stored == [S!Tabs -> S!Values]
Ports == S!Values \cup {None, "fallback"}
Gets == [got : Stored \cup {None}, old : BOOLEAN]
Puts == [form : S!Tabs, value : S!Values, typed : BOOLEAN]
Proxies == [port : Ports, lost : SUBSET Ports, down : BOOLEAN]
Orders == [what : {"start", "stop"}, port : Ports, done : BOOLEAN]
Checks == [got : BOOLEAN \cup {None}, old : BOOLEAN]

\* Types, of the requests too.
Types ==
  /\ extra \in Forms /\ tab \in mounted /\ mounted \subseteq S!Tabs /\ touched \subseteq mounted
  /\ contents \in [S!Tabs -> S!Values \cup {"nothing"}]
  /\ \A t \in S!Tabs \ mounted : contents[t] = S!Initials[t]
  /\ props \in Stored
  /\ gets \subseteq Gets /\ puts \subseteq Puts /\ orders \subseteq Orders
  /\ checks \subseteq Checks /\ proxy \in Proxies
  /\ status \in BOOLEAN /\ known \in S!Values \cup {None}

\* An answer is what is stored, unless it is old.
AnswersAreTrue ==
  /\ \A g \in gets : g.got # None /\ ~g.old => g.got = props
  /\ \A s \in checks : s.got # None /\ ~s.old => s.got = (proxy.port # None)

\* A form that is neither empty nor typed into shows what is stored; only a save
\* of typed text, which stays typed, changes what is stored, and no two saves
\* under way are of one form.
FormsKept ==
  /\ \A t \in S!Tabs \ touched : known = None \/ contents[t] \in {S!Initials[t], props[t]}
  /\ \A p \in puts : \/ p.value = props[p.form]
                     \/ p.typed /\ (known = None \/ p.form \in touched)
  /\ \A p, q \in puts : p.form = q.form => p = q
FormsAreTrue == harm \cap {"blank", "crossed"} = {} => FormsKept

\* While the port is not saved, what is read, and ordered, is what is stored.
PortIsTrue ==
  harm \cap {"blank", "crossed", "saved"} = {} =>
    /\ \A p \in puts : p.form # "proxy"
    /\ known \in {None, props.proxy}
    /\ \A c \in orders : c.what = "start" => c.port \in {props.proxy, "fallback"}

\* The status is true or will be asked for.
StatusComes ==
  harm \cap {"twice", "late", "failed"} = {} =>
    /\ ~proxy.down /\ proxy.lost = {}
    /\ tab = "proxy" => \/ status = (proxy.port # None) \/ orders # {}
                        \/ \E s \in checks : ~s.old

SettingsInv == Types /\ AnswersAreTrue /\ FormsAreTrue /\ PortIsTrue /\ StatusComes

-----------------------------------------------------------------------------
\* What forms hold before they are filled.
LEMMA InitialTypes ==
  ASSUME extra \in Forms
  PROVE  /\ \A t \in S!Tabs : S!FormOf(t) \in Forms /\ S!Initials[t] = S!FormOf(t).initial
         /\ S!Initials \in [S!Tabs -> S!Values \cup {"nothing"}]
<1>1. S!BaseForm \in Forms /\ S!ProxyForm \in Forms
  BY DEF S!BaseForm, S!ProxyForm, S!Form, Forms
<1>2. \A t \in S!Tabs : S!FormOf(t) \in Forms
  BY <1>1 DEF S!FormOf, S!Tabs
<1>3. \A t \in S!Tabs : S!FormOf(t).initial \in {"nothing", "blank", "default"}
  BY <1>2 DEF Forms
<1> QED BY <1>2, <1>3 DEF S!Initials, S!Values

LEMMA SettingsInit == S!Init => SettingsInv
<1> SUFFICES ASSUME S!Init PROVE SettingsInv
  OBVIOUS
<1>1. extra \in Forms
  <2>1. {S!MailForm, S!LogForm, S!LdapForm, S!AiForm, S!OtherForm} \subseteq Forms
    <3>1. S!Form \in Forms
      BY DEF S!Form, Forms
    <3> QED BY <3>1 DEF S!MailForm, S!LogForm, S!LdapForm, S!AiForm, S!OtherForm, Forms
  <2> QED BY <2>1 DEF S!Init
<1>2. S!Initials \in [S!Tabs -> S!Values \cup {"nothing"}]
  BY <1>1, InitialTypes
<1>3. props \in Stored
  BY DEF S!Init, Stored, S!Values
<1>4. Types
  <2>1. props.proxy \in S!Values
    BY <1>3 DEF Stored, S!Tabs
  <2>2. gets \subseteq Gets
    BY DEF S!Init, S!Asked, S!Get, Gets
  <2>3. proxy \in Proxies
    <3>1. ASSUME NEW x \in S!Values
          PROVE  [port : {None, x}, lost : {{}}, down : {FALSE}] \subseteq Proxies
      BY DEF Proxies, Ports
    <3> QED BY <2>1, <3>1 DEF S!Init
  <2>4. /\ tab \in mounted /\ mounted \subseteq S!Tabs /\ touched = {}
        /\ contents = S!Initials /\ known = None /\ status = FALSE
        /\ puts = {} /\ orders = {} /\ checks = {}
    BY DEF S!Init, S!Tabs
  <2> QED BY <1>1, <1>2, <1>3, <2>2, <2>3, <2>4 DEF Types
<1>5. AnswersAreTrue /\ FormsAreTrue /\ PortIsTrue
  BY DEF S!Init, AnswersAreTrue, FormsAreTrue, FormsKept, PortIsTrue, S!Asked, S!Get
<1>6. StatusComes
  BY DEF S!Init, StatusComes
<1> QED BY <1>4, <1>5, <1>6 DEF SettingsInv
-----------------------------------------------------------------------------
\* Nothing changes what forms hold before they are filled.
LEMMA InitialsStay == extra' = extra => S!Initials' = S!Initials
BY DEF S!Initials, S!FormOf

\* Requests for the properties and the status, one more or one fewer.
LEMMA AskedTypes ==
  /\ \A gs \in SUBSET Gets : S!Asked(gs) \subseteq Gets /\ S!Outdated(gs) \subseteq Gets
  /\ \A cs \in SUBSET Checks : S!Asked(cs) \subseteq Checks /\ S!Outdated(cs) \subseteq Checks
<1>1. S!Get \in Gets /\ S!Get \in Checks
  BY DEF S!Get, Gets, Checks
<1>2. ASSUME NEW b \in BOOLEAN
      PROVE  /\ \A g \in Gets : [g EXCEPT !.old = b] \in Gets
             /\ \A s \in Checks : [s EXCEPT !.old = b] \in Checks
  BY DEF Gets, Checks
<1>3. \A gs \in SUBSET Gets : S!Outdated(gs) \subseteq Gets
  BY <1>2 DEF S!Outdated
<1>4. \A cs \in SUBSET Checks : S!Outdated(cs) \subseteq Checks
  BY <1>2 DEF S!Outdated
<1> QED BY <1>1, <1>3, <1>4 DEF S!Asked

\* What was asked for just now is not old.
LEMMA AskedIsFresh == \A rs : \E r \in S!Asked(rs) : ~r.old
<1>1. ~S!Get.old
  BY DEF S!Get
<1> QED BY <1>1 DEF S!Asked

\* What has an answer, and was not changed since, is not old.
LEMMA OutdatedIsOld ==
  ASSUME NEW rs, rs \in SUBSET Gets \/ rs \in SUBSET Checks,
         NEW r \in S!Outdated(rs), r.got # None
  PROVE  r.old
BY DEF S!Outdated, Gets, Checks

LEMMA SettingsStep == SettingsInv /\ [S!Next]_S!vars => SettingsInv'
<1> SUFFICES ASSUME SettingsInv, [S!Next]_S!vars PROVE SettingsInv'
  OBVIOUS
<1> USE DEF SettingsInv
<1>0. CASE UNCHANGED S!vars
  <2>1. UNCHANGED <<extra, tab, mounted, contents, touched, known, props, gets, puts,
                    proxy, status, cooling, orders, checks, harm>>
    BY <1>0 DEF S!vars, S!form, S!button
  <2> QED BY <2>1, InitialsStay DEF Types, AnswersAreTrue, FormsAreTrue, FormsKept,
                                    PortIsTrue, StatusComes
<1>1. ASSUME NEW t \in S!Tabs, S!Choose(t) PROVE SettingsInv'
  <2>1. /\ UNCHANGED <<extra, contents, touched, known, props, puts, proxy, status, orders, harm>>
        /\ tab' = t /\ mounted' = mounted \cup {t}
        /\ gets' = S!Asked(gets)
        /\ checks' = IF t = "proxy" THEN S!Asked(checks) ELSE checks
    BY <1>1 DEF S!Choose, S!button
  <2>2. Types'
    BY <2>1, InitialsStay, AskedTypes DEF Types
  <2>3. AnswersAreTrue'
    BY <2>1 DEF AnswersAreTrue, S!Asked, S!Get
  <2>4. FormsAreTrue' /\ PortIsTrue'
    BY <2>1, InitialsStay DEF FormsAreTrue, FormsKept, PortIsTrue
  <2>5. StatusComes'
    BY <2>1, AskedIsFresh DEF StatusComes
  <2> QED BY <2>2, <2>3, <2>4, <2>5
<1>2. CASE S!ChangeLanguage
  <2>1. /\ UNCHANGED <<extra, props, gets, puts, proxy, status, orders, checks, harm>>
        /\ tab' = "base" /\ mounted' = {"base"} /\ contents' = S!Initials
        /\ touched' = {} /\ known' = None
    BY <1>2 DEF S!ChangeLanguage, S!button
  <2>2. Types'
    BY <2>1, InitialsStay, InitialTypes DEF Types, S!Tabs
  <2>3. AnswersAreTrue' /\ FormsAreTrue' /\ PortIsTrue' /\ StatusComes'
    BY <2>1 DEF AnswersAreTrue, FormsAreTrue, FormsKept, PortIsTrue, StatusComes
  <2> QED BY <2>2, <2>3
<1>3. ASSUME NEW text \in Texts, S!Type(text) PROVE SettingsInv'
  <2>1. /\ UNCHANGED <<extra, tab, mounted, known, props, gets, puts, proxy, status, orders,
                       checks, harm>>
        /\ contents' = [contents EXCEPT ![tab] = text] /\ touched' = touched \cup {tab}
    BY <1>3 DEF S!Type, S!button
  <2>2. Types'
    BY <2>1, InitialsStay DEF Types, S!Values
  <2>3. FormsAreTrue'
    BY <2>1, InitialsStay DEF FormsAreTrue, FormsKept, Types
  <2>4. AnswersAreTrue' /\ PortIsTrue' /\ StatusComes'
    BY <2>1 DEF AnswersAreTrue, PortIsTrue, StatusComes
  <2> QED BY <2>2, <2>3, <2>4
<1>4. CASE S!Submit
  <2> DEFINE p == [form |-> tab, value |-> contents[tab], typed |-> tab \in touched]
  <2>1. /\ UNCHANGED <<extra, tab, mounted, contents, touched, known, props, gets, proxy,
                       status, orders, checks>>
        /\ puts' = puts \cup {p} /\ contents[tab] # "nothing"
        /\ harm \subseteq harm'
        /\ known = None \/ contents[tab] = S!FormOf(tab).initial => "blank" \in harm'
        /\ (\E q \in puts : q.form = tab) => "crossed" \in harm'
        /\ tab = "proxy" => "saved" \in harm'
    BY <1>4 DEF S!Submit, S!form, S!button
  <2>2. p \in Puts
    BY <2>1 DEF Types, Puts
  <2>3. Types'
    BY <2>1, <2>2, InitialsStay DEF Types
  <2>4. FormsAreTrue'
    <3>1. S!FormOf(tab).initial = S!Initials[tab]
      BY InitialTypes DEF Types
    <3>2. p.form = tab /\ p.value = contents[tab] /\ p.typed = (tab \in touched)
      OBVIOUS
    <3> SUFFICES ASSUME harm' \cap {"blank", "crossed"} = {} PROVE FormsAreTrue'
      BY DEF FormsAreTrue, FormsKept
    <3>3. FormsKept /\ known # None /\ contents[tab] # S!Initials[tab] /\ tab \in S!Tabs
      BY <2>1, <3>1 DEF FormsAreTrue, FormsKept, Types
    <3>4. p.typed \/ p.value = props[p.form]
      BY <3>2, <3>3 DEF FormsKept
    <3>5. \A q \in puts : q.form # p.form
      BY <2>1, <3>2
    <3> HIDE DEF p
    <3> QED BY <2>1, <3>2, <3>3, <3>4, <3>5, InitialsStay DEF FormsAreTrue, FormsKept
  <2>5. AnswersAreTrue' /\ PortIsTrue' /\ StatusComes'
    BY <2>1 DEF AnswersAreTrue, PortIsTrue, StatusComes
  <2> QED BY <2>3, <2>4, <2>5
<1>5. ASSUME NEW p \in puts, S!Saved(p) PROVE SettingsInv'
  <2>1. /\ UNCHANGED <<extra, tab, mounted, contents, touched, known, proxy, status, orders,
                       checks, harm>>
        /\ puts' = puts \ {p} /\ props' = [props EXCEPT ![p.form] = p.value]
        /\ gets' = S!Outdated(gets)
    BY <1>5 DEF S!Saved, S!form, S!button
  <2>2. p.form \in S!Tabs /\ p.value \in S!Values /\ p.typed \in BOOLEAN
    BY DEF Types, Puts
  <2>3. props' \in Stored
    BY <2>1, <2>2 DEF Types, Stored
  <2>4. Types'
    BY <2>1, <2>3, InitialsStay, AskedTypes DEF Types
  <2>5. AnswersAreTrue'
    BY <2>1, OutdatedIsOld DEF AnswersAreTrue, Types
  <2>6. FormsAreTrue'
    <3>1. \A t \in S!Tabs : props'[t] = IF t = p.form THEN p.value ELSE props[t]
      BY <2>1 DEF Types, Stored
    <3>2. \A q \in puts' : q.form \in S!Tabs
      BY <2>1 DEF Types, Puts
    <3> QED BY <2>1, <2>2, <3>1, <3>2, InitialsStay DEF FormsAreTrue, FormsKept
  <2>7. PortIsTrue'
    BY <2>1 DEF PortIsTrue, Types, Stored
  <2>8. StatusComes'
    BY <2>1 DEF StatusComes
  <2> QED BY <2>4, <2>5, <2>6, <2>7, <2>8
<1>6. ASSUME NEW g \in gets, S!Read(g) PROVE SettingsInv'
  <2>1. /\ UNCHANGED <<extra, tab, mounted, contents, touched, known, props, puts, proxy,
                       status, orders, checks, harm>>
        /\ gets' = (gets \ {g}) \cup {[g EXCEPT !.got = props]}
    BY <1>6 DEF S!Read, S!form, S!button
  <2>2. [g EXCEPT !.got = props] \in Gets /\ [g EXCEPT !.got = props].got = props
    BY DEF Types, Gets
  <2>3. Types'
    BY <2>1, <2>2, InitialsStay DEF Types
  <2>4. AnswersAreTrue'
    BY <2>1, <2>2 DEF AnswersAreTrue
  <2>5. FormsAreTrue' /\ PortIsTrue' /\ StatusComes'
    BY <2>1, InitialsStay DEF FormsAreTrue, FormsKept, PortIsTrue, StatusComes
  <2> QED BY <2>3, <2>4, <2>5
<1>7. ASSUME NEW g \in gets, S!Got(g) PROVE SettingsInv'
  <2>1. /\ UNCHANGED <<extra, tab, mounted, props, puts, proxy, status, orders, checks>>
        /\ g.got # None /\ gets' = gets \ {g}
        /\ contents' = [t \in S!Tabs |-> IF t \in mounted THEN g.got[t] ELSE contents[t]]
        /\ touched' = {} /\ known' = g.got.proxy
        /\ harm \subseteq harm' /\ (g.old \/ puts # {} => "crossed" \in harm')
    BY <1>7 DEF S!Got, S!Filled, S!button
  <2>2. g.got \in Stored
    BY <2>1 DEF Types, Gets
  <2>3. known' \in S!Values /\ \A t \in S!Tabs : g.got[t] \in S!Values
    BY <2>1, <2>2 DEF Stored, S!Tabs
  <2>4. contents' \in [S!Tabs -> S!Values \cup {"nothing"}]
    BY <2>1, <2>3 DEF Types
  <2>5. \A t \in S!Tabs \ mounted' : contents'[t] = S!Initials'[t]
    BY <2>1, InitialsStay DEF Types
  <2>6. Types'
    BY <2>1, <2>3, <2>4, <2>5 DEF Types
  <2>7. "crossed" \notin harm' => g.got = props /\ puts = {}
    BY <2>1 DEF AnswersAreTrue
  <2>8. FormsAreTrue'
    BY <2>1, <2>5, <2>7 DEF FormsAreTrue, FormsKept
  <2>9. AnswersAreTrue' /\ PortIsTrue' /\ StatusComes'
    BY <2>1, <2>7 DEF AnswersAreTrue, PortIsTrue, StatusComes
  <2> QED BY <2>6, <2>8, <2>9
<1>8. CASE S!Start \/ S!StopProxy
  <2>1. PICK what \in {"start", "stop"}, port \in {S!Port, None} :
          S!Call(what, port) /\ port = IF what = "start" THEN S!Port ELSE None
    BY <1>8 DEF S!Start, S!StopProxy
  <2> DEFINE c == [what |-> what, port |-> port, done |-> FALSE]
  <2>2. /\ UNCHANGED <<extra, tab, mounted, contents, touched, known, props, gets, puts, proxy,
                       status, checks, harm>>
        /\ orders' = orders \cup {c}
    BY <2>1 DEF S!Call, S!form
  <2>3. c \in Orders
    BY <2>1 DEF Types, Orders, Ports, S!Port
  <2>4. Types'
    BY <2>2, <2>3, InitialsStay DEF Types
  <2>5. AnswersAreTrue' /\ FormsAreTrue' /\ StatusComes'
    BY <2>2, InitialsStay DEF AnswersAreTrue, FormsAreTrue, FormsKept, StatusComes
  <2>6. PortIsTrue'
    BY <2>1, <2>2 DEF PortIsTrue, S!Port
  <2> QED BY <2>4, <2>5, <2>6
<1>9. CASE S!Cool
  <2>1. UNCHANGED <<extra, tab, mounted, contents, touched, known, props, gets, puts, proxy,
                    status, orders, checks, harm>>
    BY <1>9 DEF S!Cool, S!form
  <2> QED BY <2>1, InitialsStay DEF Types, AnswersAreTrue, FormsAreTrue, FormsKept,
                                    PortIsTrue, StatusComes
<1>10. ASSUME NEW c \in orders, S!Execute(c) PROVE SettingsInv'
  <2> DEFINE d == [c EXCEPT !.done = TRUE]
  <2>1. /\ UNCHANGED <<extra, tab, mounted, contents, touched, known, props, gets, puts, status>>
        /\ orders' = (orders \ {c}) \cup {d} /\ checks' = S!Outdated(checks)
        /\ harm \subseteq harm'
    BY <1>10 DEF S!Execute, S!form
  <2>2. d \in Orders /\ d.what = c.what /\ d.port = c.port /\ c.port \in Ports
    BY DEF Types, Orders
  <2>3. proxy' \in Proxies
    <3>1. CASE c.what = "stop"
      BY <1>10, <3>1 DEF S!Execute, Types, Proxies, Ports
    <3>2. CASE c.what # "stop" /\ c.port \in S!Listens
      BY <1>10, <3>2 DEF S!Execute, Types, Proxies
    <3>3. CASE c.what # "stop" /\ c.port \notin S!Listens
      <4>1. S!Listens \in SUBSET Ports
        BY DEF S!Listens, Types, Proxies
      <4> QED BY <1>10, <2>2, <3>3, <4>1 DEF S!Execute, Types, Proxies
    <3> QED BY <3>1, <3>2, <3>3
  <2>4. Types'
    BY <2>1, <2>2, <2>3, AskedTypes, InitialsStay DEF Types
  <2>5. AnswersAreTrue'
    BY <2>1, OutdatedIsOld DEF AnswersAreTrue, Types
  <2>6. FormsAreTrue' /\ PortIsTrue'
    BY <2>1, <2>2, InitialsStay DEF FormsAreTrue, FormsKept, PortIsTrue
  <2>7. StatusComes'
    <3>1. SUFFICES ASSUME harm' \cap {"twice", "late", "failed"} = {}
                   PROVE  ~proxy'.down /\ proxy'.lost = {}
      BY <2>1 DEF StatusComes
    <3>2. ~proxy.down /\ proxy.lost = {}
      BY <2>1, <3>1 DEF StatusComes
    <3>3. CASE c.what = "stop"
      BY <1>10, <3>2, <3>3 DEF S!Execute, Types, Proxies
    <3>4. CASE c.what # "stop"
      <4>1. proxy.port = None
        BY <1>10, <3>1, <3>4 DEF S!Execute
      <4>2. S!Listens = {}
        BY <3>2, <4>1 DEF S!Listens
      <4> QED BY <1>10, <3>2, <3>4, <4>2 DEF S!Execute, Types, Proxies
    <3> QED BY <3>3, <3>4
  <2> QED BY <2>4, <2>5, <2>6, <2>7
<1>11. ASSUME NEW c \in orders, S!Answered(c) PROVE SettingsInv'
  <2>1. /\ UNCHANGED <<extra, tab, mounted, contents, touched, known, props, gets, puts, proxy,
                       status, harm>>
        /\ orders' = orders \ {c} /\ checks' = S!Asked(checks)
    BY <1>11 DEF S!Answered, S!Followed, S!form
  <2>2. Types'
    BY <2>1, AskedTypes, InitialsStay DEF Types
  <2>3. AnswersAreTrue'
    BY <2>1 DEF AnswersAreTrue, S!Asked, S!Get
  <2>4. FormsAreTrue' /\ PortIsTrue' /\ StatusComes'
    BY <2>1, AskedIsFresh, InitialsStay DEF FormsAreTrue, FormsKept, PortIsTrue, StatusComes
  <2> QED BY <2>2, <2>3, <2>4
<1>12. ASSUME NEW s \in checks, S!Check(s) PROVE SettingsInv'
  <2> DEFINE r == [s EXCEPT !.got = proxy.port # None]
  <2>1. /\ UNCHANGED <<extra, tab, mounted, contents, touched, known, props, gets, puts, proxy,
                       status, orders, harm>>
        /\ checks' = (checks \ {s}) \cup {r}
    BY <1>12 DEF S!Check, S!form, S!button
  <2>2. r \in Checks /\ r.got = (proxy.port # None) /\ r.old = s.old
    BY DEF Types, Checks
  <2>3. Types'
    BY <2>1, <2>2, InitialsStay DEF Types
  <2>4. AnswersAreTrue' /\ StatusComes'
    BY <2>1, <2>2 DEF AnswersAreTrue, StatusComes
  <2>5. FormsAreTrue' /\ PortIsTrue'
    BY <2>1, InitialsStay DEF FormsAreTrue, FormsKept, PortIsTrue
  <2> QED BY <2>3, <2>4, <2>5
<1>13. ASSUME NEW s \in checks, S!Checked(s) PROVE SettingsInv'
  <2>1. /\ UNCHANGED <<extra, tab, mounted, contents, touched, known, props, gets, puts, proxy,
                       orders>>
        /\ s.got # None /\ checks' = checks \ {s} /\ status' = s.got
        /\ harm \subseteq harm'
        /\ s.old /\ orders = {} /\ (\A r \in checks' : r.old) => "late" \in harm'
    BY <1>13 DEF S!Checked, S!form
  <2>2. s.got \in BOOLEAN /\ \A r \in checks : r.old \in BOOLEAN
    BY <2>1 DEF Types, Checks
  <2>3. Types'
    BY <2>1, <2>2, InitialsStay DEF Types
  <2>4. AnswersAreTrue' /\ StatusComes'
    BY <2>1, <2>2 DEF AnswersAreTrue, StatusComes
  <2>5. FormsAreTrue' /\ PortIsTrue'
    BY <2>1, InitialsStay DEF FormsAreTrue, FormsKept, PortIsTrue
  <2> QED BY <2>3, <2>4, <2>5
<1>14. CASE S!Lost
  <2>1. /\ UNCHANGED <<extra, tab, mounted, contents, touched, known, props, proxy, status>>
        /\ gets' \subseteq gets /\ puts' \subseteq puts /\ orders' \subseteq orders
        /\ checks' \subseteq checks /\ harm \subseteq harm'
        /\ (orders' = orders /\ checks' = checks) \/ "failed" \in harm'
    BY <1>14 DEF S!Lost, S!form
  <2>2. Types'
    BY <2>1, InitialsStay DEF Types
  <2>3. AnswersAreTrue' /\ StatusComes'
    BY <2>1 DEF AnswersAreTrue, StatusComes
  <2>4. FormsAreTrue' /\ PortIsTrue'
    BY <2>1, InitialsStay DEF FormsAreTrue, FormsKept, PortIsTrue
  <2> QED BY <2>2, <2>3, <2>4
<1> QED BY <1>0, <1>1, <1>2, <1>3, <1>4, <1>5, <1>6, <1>7, <1>8, <1>9, <1>10, <1>11, <1>12,
           <1>13, <1>14 DEF S!Next, S!Step

\* Every mishap is one of Harms.
HarmTypes == harm \subseteq S!Harms /\ cooling \in BOOLEAN

LEMMA HarmTypesInit == S!Init => HarmTypes
BY DEF S!Init, HarmTypes

LEMMA HarmTypesStep == HarmTypes /\ [S!Next]_S!vars => HarmTypes'
<1> SUFFICES ASSUME HarmTypes, [S!Next]_S!vars PROVE HarmTypes'
  OBVIOUS
<1> USE DEF HarmTypes, S!button
<1>0. {"blank", "crossed", "saved", "twice", "late", "failed"} = S!Harms
  BY DEF S!Harms
<1>1. CASE UNCHANGED S!vars
  BY <1>1 DEF S!vars
<1>2. ASSUME NEW t \in S!Tabs, S!Choose(t) PROVE HarmTypes'
  BY <1>2 DEF S!Choose
<1>3. ASSUME NEW text \in Texts, S!Type(text) PROVE HarmTypes'
  BY <1>3 DEF S!Type
<1>4. CASE S!ChangeLanguage \/ S!Start \/ S!StopProxy \/ S!Cool
  BY <1>4 DEF S!ChangeLanguage, S!Start, S!StopProxy, S!Call, S!Cool
<1>5. CASE S!Submit
  BY <1>0, <1>5 DEF S!Submit
<1>6. CASE S!Lost
  BY <1>0, <1>6 DEF S!Lost
<1>7. ASSUME NEW p \in puts, S!Saved(p) PROVE HarmTypes'
  BY <1>7 DEF S!Saved
<1>8. ASSUME NEW g \in gets, S!Read(g) \/ S!Got(g) PROVE HarmTypes'
  BY <1>0, <1>8 DEF S!Read, S!Got
<1>9. ASSUME NEW c \in orders, S!Execute(c) \/ S!Answered(c) PROVE HarmTypes'
  BY <1>0, <1>9 DEF S!Execute, S!Answered
<1>10. ASSUME NEW s \in checks, S!Check(s) \/ S!Checked(s) PROVE HarmTypes'
  BY <1>0, <1>10 DEF S!Check, S!Checked
<1> QED BY <1>1, <1>2, <1>3, <1>4, <1>5, <1>6, <1>7, <1>8, <1>9, <1>10 DEF S!Next, S!Step

LEMMA SettingsTypes == SettingsInv /\ HarmTypes => S!TypeOK
BY DEF SettingsInv, Types, Puts, Stored, HarmTypes, S!TypeOK

LEMMA SettingsHolds == S!Spec => []SettingsInv
BY SettingsInit, SettingsStep, PTL DEF S!Spec

\* A save leaves the properties that nobody typed as they are (changeProperties),
\* for any texts and any number of saves.
THEOREM UntouchedKept == S!Spec => []S!UntouchedIsKept
<1>1. SettingsInv => S!UntouchedIsKept
  BY DEF SettingsInv, FormsAreTrue, FormsKept, S!UntouchedIsKept
<1> QED BY <1>1, SettingsHolds, PTL

\* The proxy is started at the port that is stored (startMariaDBServer), for any
\* number of starts.
THEOREM StartedAsStored == S!Spec => []S!StartsAsStored
<1>1. SettingsInv => S!StartsAsStored
  BY DEF SettingsInv, PortIsTrue, S!StartsAsStored
<1> QED BY <1>1, SettingsHolds, PTL

\* The page tells whether the proxy runs, and no listener is left that it cannot
\* stop (statusMariaDBServer), for any number of starts and stops.
THEOREM StatusTold == S!Spec => []S!StatusIsTrue
<1>1. SettingsInv => S!StatusIsTrue
  BY DEF SettingsInv, StatusComes, S!StatusIsTrue
<1> QED BY <1>1, SettingsHolds, PTL

-----------------------------------------------------------------------------
\* The whole: a behaviour is about one of the four.

OnePage ==
  /\ page = None \/ table = None
  /\ page = None \/ dir = None
  /\ page = None \/ extra = None
  /\ table = None \/ dir = None
  /\ table = None \/ extra = None
  /\ dir = None \/ extra = None

\* Of the four, the one there is keeps its invariant; nothing is saved where there is
\* no form.
PagesInv ==
  /\ OnePage
  /\ page # None => TypeOK /\ TypedInv /\ MeantInv
  /\ page = None => last = None
  /\ table # None => T!TypeOK /\ TableInv
  /\ dir # None => FilesInv
  /\ extra # None => SettingsInv /\ HarmTypes

pages == <<db, harm, formOnly, formOrFiles, tableOnly, filesOnly, settingsOnly>>

LEMMA PageStays == Next => page' = page
<1> SUFFICES ASSUME Next PROVE page' = page
  OBVIOUS
<1>1. ASSUME NEW what, NEW k, Open(what, k) PROVE page' = page
  BY <1>1 DEF Open
<1>2. ASSUME NEW k \in Ids, Other(k) \/ Delete(k) \/ Arrive(k) PROVE page' = page
  BY <1>2 DEF Other, Delete, Arrive
<1>3. CASE Refocus \/ Refuse \/ Ok \/ Cancel
  BY <1>3 DEF Refocus, Refuse, Ok, Cancel
<1>4. ASSUME NEW b \in BOOLEAN, Type(b) \/ Saved(b) PROVE page' = page
  BY <1>4 DEF Type, Saved
<1> QED BY <1>1, <1>2, <1>3, <1>4 DEF Next, Step, New, Edit, Copy

LEMMA PagesInit == InitOfAny => PagesInv
<1>1. ASSUME Init, NoTable, NoFiles, NoSettings PROVE PagesInv
  <2>1. TypeOK /\ TypedInv /\ MeantInv
    BY <1>1, FormTypesInit, TypedInit, MeantInit
  <2>2. table = None /\ dir = None /\ extra = None
    BY <1>1 DEF NoTable, NoFiles, NoSettings
  <2>3. last = None
    BY <1>1 DEF Init
  <2> QED BY <2>1, <2>2, <2>3 DEF PagesInv, OnePage
<1>2. ASSUME T!Init, NoForm, NoFiles, NoSettings PROVE PagesInv
  <2>1. T!TypeOK /\ TableInv
    BY <1>2, TableTypesInit, TableInit
  <2>2. page = None /\ last = None /\ dir = None /\ extra = None
    BY <1>2 DEF NoForm, NoFiles, NoSettings
  <2> QED BY <2>1, <2>2 DEF PagesInv, OnePage
<1>3. ASSUME B!Init, NoForm, NoTable, NoSettings PROVE PagesInv
  <2>1. FilesInv
    BY <1>3, FilesInit
  <2>2. page = None /\ last = None /\ table = None /\ extra = None
    BY <1>3 DEF NoForm, NoTable, NoSettings
  <2> QED BY <2>1, <2>2 DEF PagesInv, OnePage
<1>4. ASSUME S!Init, NoForm, NoTable, NoFiles PROVE PagesInv
  <2>1. SettingsInv /\ HarmTypes
    BY <1>4, SettingsInit, HarmTypesInit
  <2>2. page = None /\ last = None /\ table = None /\ dir = None
    BY <1>4 DEF NoForm, NoTable, NoFiles
  <2> QED BY <2>1, <2>2 DEF PagesInv, OnePage
<1> QED BY <1>1, <1>2, <1>3, <1>4 DEF InitOfAny

LEMMA PagesStep == PagesInv /\ [NextOfAny]_pages => PagesInv'
<1> SUFFICES ASSUME PagesInv, [NextOfAny]_pages PROVE PagesInv'
  OBVIOUS
<1>1. CASE page # None /\ Next /\ UNCHANGED <<tableOnly, filesOnly, settingsOnly>>
  <2>1. table' = None /\ dir' = None /\ extra' = None /\ page' # None
    BY <1>1, PageStays DEF PagesInv, OnePage, tableOnly, filesOnly, settingsOnly
  <2>2. (TypeOK /\ TypedInv /\ MeantInv)'
    BY <1>1, FormTypesStep, TypedStep, MeantStep DEF PagesInv
  <2> QED BY <2>1, <2>2 DEF PagesInv, OnePage
<1>2. CASE table # None /\ T!Next /\ UNCHANGED <<formOnly, formOrFiles, filesOnly, settingsOnly>>
  <2>1. page' = None /\ last' = None /\ dir' = None /\ extra' = None
    BY <1>2 DEF PagesInv, OnePage, formOnly, filesOnly, settingsOnly
  <2>2. (T!TypeOK /\ TableInv)'
    BY <1>2, TableTypesStep, TableStep DEF PagesInv
  <2> QED BY <2>1, <2>2 DEF PagesInv, OnePage
<1>3. CASE dir # None /\ B!Next /\ UNCHANGED <<formOnly, db, tableOnly, settingsOnly>>
  <2>1. page' = None /\ last' = None /\ table' = None /\ extra' = None
    BY <1>3 DEF PagesInv, OnePage, formOnly, tableOnly, settingsOnly
  <2>2. FilesInv'
    BY <1>3, FilesStep DEF PagesInv
  <2> QED BY <2>1, <2>2 DEF PagesInv, OnePage
<1>4. CASE extra # None /\ S!Next
           /\ UNCHANGED <<db, formOnly, formOrFiles, tableOnly, filesOnly>>
  <2>1. page' = None /\ last' = None /\ table' = None /\ dir' = None
    BY <1>4 DEF PagesInv, OnePage, formOnly, tableOnly, filesOnly
  <2>2. (SettingsInv /\ HarmTypes)'
    BY <1>4, SettingsStep, HarmTypesStep DEF PagesInv
  <2> QED BY <2>1, <2>2 DEF PagesInv, OnePage
<1>5. CASE UNCHANGED pages
  <2>1. /\ UNCHANGED <<page, table, dir, extra, last>>
        /\ UNCHANGED vars /\ UNCHANGED T!vars /\ UNCHANGED B!vars /\ UNCHANGED S!vars
    BY <1>5 DEF pages, formOnly, formOrFiles, tableOnly, filesOnly, settingsOnly, vars, T!vars,
                B!vars, B!listing, B!dialogs, S!vars, S!form, S!button
  <2>2. page # None => (TypeOK /\ TypedInv /\ MeantInv)'
    BY <2>1, FormTypesStep, TypedStep, MeantStep DEF PagesInv
  <2>3. table # None => (T!TypeOK /\ TableInv)'
    BY <2>1, TableTypesStep, TableStep DEF PagesInv
  <2>4. dir # None => FilesInv'
    BY <2>1, FilesStep DEF PagesInv
  <2>5. extra # None => (SettingsInv /\ HarmTypes)'
    BY <2>1, SettingsStep, HarmTypesStep DEF PagesInv
  <2> QED BY <2>1, <2>2, <2>3, <2>4, <2>5 DEF PagesInv, OnePage
<1> QED BY <1>1, <1>2, <1>3, <1>4, <1>5 DEF NextOfAny

LEMMA PagesInvariant == SpecOfAny => []PagesInv
BY PagesInit, PagesStep, PTL DEF SpecOfAny, pages

\* The variables of forms, tables, the file browser and the page of settings keep
\* their types, whatever is pressed and however requests are answered.
THEOREM PagesTypes == SpecOfAny => []TypesOK
<1>1. PagesInv => TypesOK
  BY FilesAreTrue, SettingsTypes DEF PagesInv, TypesOK
<1> QED BY <1>1, PagesInvariant, PTL

\* The dialog of a page saves the record it was opened for, a copy and a new record as
\* a new one, and an edited record as no new one, up to the excuses that the pages
\* have (Misled, and a save before the answer): on every page of FormPages.
THEOREM PagesSaveAsMeant == SpecOfAny => []SavesAsMeant
<1>1. PagesInv => SavesAsMeant
  <2>1. last = None => SavesAsMeant
    BY DEF SavesAsMeant, WritesItsRecord, NewCreates, EditUpdates
  <2> QED BY <2>1, MeantIsMeant DEF PagesInv
<1> QED BY <1>1, PagesInvariant, PTL

\* What a user types into the dialog of a page is in what is saved, and nothing else
\* saves anything.
THEOREM PagesSaveTyped == SpecOfAny => []TypedIsSaved
<1>1. PagesInv => TypedIsSaved
  BY DEF PagesInv, TypedInv, SaveHasIt, Overtyped, Emptied, TypedIsSaved, Excused
<1> QED BY <1>1, PagesInvariant, PTL

\* The rows of a table are the records there are once nothing is under way, on every
\* page of TablePages that waits for its answers.
THEOREM TablesAreTrue == SpecOfAny => []QuietTableIsTrue
<1>1. PagesInv => QuietTableIsTrue
  BY DEF PagesInv, TableInv, Excuse, Remedy, QuietTableIsTrue, T!QuietTableIsTrue, T!Quiet
<1> QED BY <1>1, PagesInvariant, PTL

\* The file browser shows what its directory holds once everything was answered
\* (loadFiles follows every change but a save), for any directories and names.
THEOREM ListingsAreTrue == SpecOfAny => []QuietListingIsTrue
<1>1. PagesInv => QuietListingIsTrue
  BY FilesAreTrue DEF PagesInv, QuietListingIsTrue
<1> QED BY <1>1, PagesInvariant, PTL

\* What is typed into the editor of the file browser stays in it until it is saved or
\* given up, for any number of calls.
THEOREM EditorsKeepText == SpecOfAny => []TextIsKept
<1>1. PagesInv => TextIsKept
  BY FilesAreTrue DEF PagesInv, TextIsKept
<1> QED BY <1>1, PagesInvariant, PTL

\* The file browser renames the file it was asked to (currentFileKey), within its
\* directory, for any number of calls.
THEOREM RenamesAreMeant == SpecOfAny => []RenamesItsFile
<1>1. PagesInv => RenamesItsFile
  BY FilesAreTrue DEF PagesInv, RenamesItsFile
<1> QED BY <1>1, PagesInvariant, PTL

\* The page of settings keeps what nobody typed, starts the proxy at the port stored
\* and knows whether it runs, for any texts and any number of buttons pressed.
THEOREM SettingsAreTrue == SpecOfAny => []SettingsHold
<1>1. PagesInv => SettingsHold
  BY DEF PagesInv, SettingsInv, FormsAreTrue, FormsKept, PortIsTrue, StatusComes,
         SettingsHold, S!UntouchedIsKept, S!StartsAsStored, S!StatusIsTrue
<1> QED BY <1>1, PagesInvariant, PTL
=============================================================================
