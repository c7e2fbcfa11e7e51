----------------------------- MODULE AdminPages -----------------------------
(***************************************************************************)
(* The pages that keep records: what tells them apart.  All are written    *)
(* along one pattern, a table and a modal dialog with a form, and each     *)
(* departs from it somewhere.  A page is a record of these departures;     *)
(* RecordForm and RecordTable say what the pattern does with them.         *)
(***************************************************************************)

(* Dialogs.                                                                *)
(*   query   the record is fetched by useQuery under a key without its id, *)
(*           not by an effect                                              *)
(*   resets  the form is emptied when the dialog closes                    *)
(*   empties the form is emptied before the values are saved               *)
(*   joins   a list in the form is replaced by a string before the values  *)
(*           are validated                                                 *)
Dialog == [query |-> FALSE, resets |-> FALSE, empties |-> FALSE, joins |-> FALSE]
Resetting(d) == [d EXCEPT !.resets = TRUE]
Emptying(d) == [d EXCEPT !.empties = TRUE]
Joining(d) == [d EXCEPT !.joins = TRUE]
Query == [Dialog EXCEPT !.query = TRUE]

CredentialModal == Resetting(Dialog)
AccessGatewayModal == Resetting(Dialog)
CommandModal == Resetting(Dialog)
AssetSensitiveCommandModal == Resetting(Dialog)
SensitiveCommandModal == Resetting(Dialog)
TriggerCommandModal == Resetting(Dialog)
SensitiveCommandGroupModal == Resetting(Dialog)
TriggerCommandGroupModal == Resetting(Dialog)
SqlsModal == Resetting(Dialog)
LoginPolicyModal == Dialog
SecurityModal == Dialog
StrategyModal == Dialog
RoleModal == Query
UserGroupModal == Query
UserModal == Query
StorageModal == Query
JobModal == Emptying(Query)
GitModal == Joining(Resetting(Dialog))
WebhookModal == Joining(Resetting(Dialog))
BuildModal == Joining(Dialog)
AssetModal == Emptying(Dialog)
DBMAssetModal == Emptying(Dialog)

-----------------------------------------------------------------------------
(* Forms of pages.                                                         *)
(*   clears  the key of the chosen record is cleared after a save, be it   *)
(*           refused; the other pages clear it when a dialog is cancelled  *)
(*   copies  a record can be copied                                        *)
(*   other   another dialog uses the key of the chosen record, and when it *)
(*           is closed "clears" or "leaves" it; "no" when there is none    *)
(*   adds    there is a button for new records                             *)
Form(d) == [dialog |-> d, clears |-> FALSE, copies |-> FALSE, other |-> "no",
            adds |-> TRUE]
WithOther(p) == [p EXCEPT !.other = "clears"]

CredentialPage == Form(CredentialModal)
AccessGatewayPage == Form(AccessGatewayModal)
CommandPage == WithOther(Form(CommandModal))
AssetSensitiveCommandPage == Form(AssetSensitiveCommandModal)
SensitiveCommandPage == Form(SensitiveCommandModal)
TriggerCommandPage == Form(TriggerCommandModal)
SensitiveCommandGroupPage == Form(SensitiveCommandGroupModal)
TriggerCommandGroupPage == Form(TriggerCommandGroupModal)
MyCommandPage == Form(CommandModal)
LoginPolicyPage == Form(LoginPolicyModal)
SecurityPage == Form(SecurityModal)
StrategyPage == Form(StrategyModal)
RolePage == Form(RoleModal)
UserGroupPage == Form(UserGroupModal)
UserPage == Form(UserModal)
JobPage == WithOther(Form(JobModal))
StoragePage == WithOther(Form(StorageModal))
SqlsPage == [Form(SqlsModal) EXCEPT !.adds = FALSE]
GitPage == WithOther(Form(GitModal))
WebhookPage == WithOther(Form(WebhookModal))
BuildPage == WithOther(Form(BuildModal))
AssetPage == [Form(AssetModal) EXCEPT !.clears = TRUE, !.copies = TRUE]
DBMAssetPage ==
  [Form(DBMAssetModal) EXCEPT !.clears = TRUE, !.copies = TRUE, !.other = "leaves"]

FormPages ==
  {CredentialPage, AccessGatewayPage, CommandPage, AssetSensitiveCommandPage,
   SensitiveCommandPage, TriggerCommandPage, SensitiveCommandGroupPage,
   TriggerCommandGroupPage, MyCommandPage, LoginPolicyPage, SecurityPage,
   StrategyPage, RolePage, UserGroupPage, UserPage, JobPage, StoragePage,
   SqlsPage, GitPage, WebhookPage, BuildPage, AssetPage, DBMAssetPage}

-----------------------------------------------------------------------------
(* Tables of pages.                                                        *)
(*   adds    the page has a dialog, or an import, that adds records        *)
(*   links   each row has a link that deletes it                           *)
(*   selects the rows can be selected and deleted together                 *)
(*   wipes   there is a button that deletes all: "no", "keeps" (the        *)
(*           selection) or "resets"                                        *)
(*   tests   the page keeps the rows itself, and tests connections         *)
(*   loose   records are added without waiting for the answer              *)
Table == [adds |-> FALSE, links |-> TRUE, selects |-> FALSE, wipes |-> "no",
          tests |-> FALSE, loose |-> FALSE]
Selecting(w) == [Table EXCEPT !.selects = TRUE, !.wipes = w]
Testing == [Selecting("no") EXCEPT !.adds = TRUE, !.tests = TRUE]
Loose == [Table EXCEPT !.adds = TRUE, !.loose = TRUE]

LoginLogTable == Selecting("keeps")
OperLogTable == Selecting("keeps")
SqlLogTable == Selecting("keeps")
WebhookPushLogTable == Selecting("keeps")
JobLogTable == [Table EXCEPT !.links = FALSE, !.wipes = "keeps"]
OfflineSessionTable == Selecting("resets")
OnlineSessionTable == Table
AssetTable == Testing
DBMAssetTable == Testing
UserAssetTable == Loose
AssetUserTable == Loose
AssetUserGroupTable == Loose
LoginPolicyUserTable == [Table EXCEPT !.adds = TRUE]
UserLoginPolicyTable == Table
TriggerCommandGroupTable == Table
SensitiveCommandGroupTable == Table
WebhookRefTable == Table

TablePages ==
  {LoginLogTable, OperLogTable, SqlLogTable, WebhookPushLogTable, JobLogTable,
   OfflineSessionTable, OnlineSessionTable, AssetTable, DBMAssetTable,
   UserAssetTable, AssetUserTable, AssetUserGroupTable, LoginPolicyUserTable,
   UserLoginPolicyTable, TriggerCommandGroupTable, SensitiveCommandGroupTable,
   WebhookRefTable}
=============================================================================
