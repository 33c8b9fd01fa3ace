------------------------------ MODULE AccountAdmin ------------------------------
(***************************************************************************)
(* Accounts and user groups: the page of accounts, with the drawer that    *)
(* edits one and the dialog that creates one, the list of groups and the   *)
(* page of a group (apps/admin/src/pages/System/Settings), over the        *)
(* handlers of internal/api/users.go, internal/auth/service.go and         *)
(* internal/exam/user_group.go.  An account is a row and, in the           *)
(* authorisation tables, roles: a handler changes the row, then each role  *)
(* by a statement of its own, and never learns that one of these failed.   *)
(* The console offers the roles ADMIN, TEACHER and STUDENT; the policies   *)
(* are for admin and client.                                               *)
(***************************************************************************)
EXTENDS Naturals, FiniteSets

CONSTANTS
  Accounts,     \* accounts there are or can be created
  Super,        \* the default administrator
  UserGroups,
  Offered,      \* roles the forms offer: all of RoleKeys in the code
  Slots,        \* bound: requests a page waits for at the same time
  MaxWishes     \* bound: requests the administrator makes

VARIABLES
  account, \* [Accounts -> status of the row, "none" before there is one]
  roles,   \* [Accounts -> roles in the authorisation tables]
  members, \* [UserGroups -> accounts in it, "gone" once deleted]
  office,  \* the pages: drawer and dialogs, the rows ticked for a joining
  wish,    \* [Slots -> request under way]
  sure,    \* history: accounts the last handler came through at, and alone
  due,     \* history: the roles it gave them
  crowded, \* history: groups deleted while a joining had found them
  hasty,   \* the drawer or a dialog was once closed while it was saving
  wishes   \* how many requests were made, for the bound

accountVars == <<account, roles, members, office, wish, due, sure, crowded, hasty, wishes>>

RoleKeys   == {"ADMIN", "TEACHER", "STUDENT"}
RoleNames  == RoleKeys \cup {"admin", "client"}

ASSUME AccountAssumption ==
  /\ Super \in Accounts /\ Slots # {} /\ MaxWishes \in Nat
  /\ "closed" \notin Accounts /\ {"ADMIN", "STUDENT"} \subseteq Offered /\ Offered \subseteq RoleKeys

Still      == [op |-> "none", who |-> {}, role |-> "STUDENT", group |-> "none", phase |-> "none", had |-> {},
               alone |-> TRUE]
Closed     == [drawer |-> "closed", role |-> "STUDENT", dialog |-> FALSE, joining |-> FALSE,
               saving |-> FALSE, ticked |-> {}]

AccountTypeOK ==
  /\ account \in [Accounts -> {"none", "ACTIVE", "gone"}] /\ roles \in [Accounts -> SUBSET RoleNames]
  /\ \A g \in UserGroups : members[g].here \in BOOLEAN /\ members[g].users \subseteq Accounts
  /\ office.drawer \in Accounts \cup {"closed"} /\ office.role \in RoleKeys
  /\ due \in [Accounts -> SUBSET RoleNames] /\ sure \subseteq Accounts /\ crowded \subseteq UserGroups
  /\ {office.dialog, office.joining, office.saving, hasty} \subseteq BOOLEAN
  /\ office.ticked \subseteq Accounts /\ wishes \in 0..MaxWishes
  /\ \A i \in Slots : /\ wish[i].op \in {"none", "save", "create", "delete", "join", "leave", "drop"}
                      /\ wish[i].phase \in {"none", "sent", "row", "roles", "done", "failed"}
                      /\ wish[i].who \subseteq Accounts /\ wish[i].had \subseteq RoleNames
                      /\ wish[i].alone \in BOOLEAN

AccountInit ==
  /\ \E here \in SUBSET Accounts :
       /\ Super \in here
       /\ account = [a \in Accounts |-> IF a \in here THEN "ACTIVE" ELSE "none"]
       /\ roles = [a \in Accounts |-> IF a = Super THEN {"admin"} ELSE IF a \in here THEN {"client"} ELSE {}]
  /\ members = [g \in UserGroups |-> [here |-> TRUE, users |-> {}]]
  /\ office = Closed /\ wish = [i \in Slots |-> Still]
  /\ due = roles /\ sure = Accounts /\ crowded = {} /\ hasty = FALSE /\ wishes = 0

-----------------------------------------------------------------------------
(* The pages.  Their rows can be old: any account may still be in a list.  *)

Histories       == <<due, sure, crowded>>
StoresUnchanged == UNCHANGED <<account, roles, members, Histories>>

Wishes(op, who, role, g) ==
  /\ wishes < MaxWishes /\ wishes' = wishes + 1
  /\ \E i \in Slots :
       /\ wish[i] = Still /\ \A j \in Slots : wish[j] = Still => i <= j
       /\ wish' = [wish EXCEPT ![i] = [Still EXCEPT !.op = op, !.who = who, !.role = role, !.group = g,
                                                    !.phase = "sent"]]

PagesUncovered == office.drawer = "closed" /\ ~office.dialog /\ ~office.joining

(* normalizeRole, as the form shows the first of an account's roles.       *)
FormRole(r) == IF r \in {"admin", "ADMIN"} THEN "ADMIN" ELSE IF r = "client" THEN "STUDENT" ELSE r

ShownRole(a) == {FormRole(r) : r \in roles[a]}

OpenEdit_Modeless(a) ==
  /\ ~office.dialog /\ ~office.joining
  /\ \E r \in IF ShownRole(a) = {} THEN Offered ELSE ShownRole(a) :
       office' = [office EXCEPT !.drawer = a, !.role = r]
  /\ StoresUnchanged /\ UNCHANGED <<wish, hasty, wishes>>

(* openEdit, openCreate, openJoinGroup                                     *)
OpenEdit(a) ==
  /\ PagesUncovered
  /\ \E r \in IF ShownRole(a) = {} THEN Offered ELSE ShownRole(a) :
       office' = [office EXCEPT !.drawer = a, !.role = r]
  /\ StoresUnchanged /\ UNCHANGED <<wish, hasty, wishes>>

OpenCreate ==
  /\ PagesUncovered
  /\ office' = [office EXCEPT !.dialog = TRUE]
  /\ StoresUnchanged /\ UNCHANGED <<wish, hasty, wishes>>

(* The rows ticked by then: any, until the answer to a joining unticks all.*)
OpenJoin(who) ==
  /\ PagesUncovered /\ who # {}
  /\ office' = [office EXCEPT !.joining = TRUE, !.ticked = who]
  /\ StoresUnchanged /\ UNCHANGED <<wish, hasty, wishes>>

(* The role field of the form.                                             *)
ChooseRole(r) ==
  /\ office.drawer # "closed" /\ r # office.role
  /\ office' = [office EXCEPT !.role = r]
  /\ StoresUnchanged /\ UNCHANGED <<wish, hasty, wishes>>

(* onClose of the drawer and onCancel of the dialogs: what is being saved  *)
(* goes on.  The drawer resets saving, the dialog that creates does when   *)
(* it is closed by its cross, the one that joins never does.               *)
CloseForms ==
  /\ ~PagesUncovered
  /\ \E reset \in BOOLEAN :
       /\ office.drawer # "closed" => reset
       /\ office.joining => ~reset
       /\ office' = [Closed EXCEPT !.saving = office.saving /\ ~reset]
  /\ hasty' = (hasty \/ office.saving)
  /\ StoresUnchanged /\ UNCHANGED <<wish, wishes>>

(* saveUser, and onFinish of the dialog: not while the button is loading.  *)
SaveUser ==
  /\ office.drawer # "closed" /\ ~office.saving
  /\ Wishes("save", {office.drawer}, office.role, "none")
  /\ office' = [office EXCEPT !.saving = TRUE]
  /\ StoresUnchanged /\ UNCHANGED hasty

CreateUser(a, r) ==
  /\ office.dialog /\ ~office.saving
  /\ Wishes("create", {a}, r, "none")
  /\ office' = [office EXCEPT !.saving = TRUE]
  /\ StoresUnchanged /\ UNCHANGED hasty

(* confirmDelete, whose dialog waits by itself.                            *)
DeleteUser(a) ==
  /\ PagesUncovered /\ Wishes("delete", {a}, "STUDENT", "none")
  /\ StoresUnchanged /\ UNCHANGED <<office, hasty>>

(* joinGroup of the accounts page, addMembers of the group's page: the     *)
(* ticked rows may be gone by now.                                         *)
JoinGroup(g) ==
  /\ office.joining /\ ~office.saving /\ office.ticked # {}
  /\ Wishes("join", office.ticked, "STUDENT", g)
  /\ office' = [office EXCEPT !.saving = TRUE]
  /\ StoresUnchanged /\ UNCHANGED hasty

(* removeMember of the group's page, deleteGroup of the list of groups.    *)
RemoveMember(g, a) ==
  /\ PagesUncovered /\ Wishes("leave", {a}, "STUDENT", g)
  /\ StoresUnchanged /\ UNCHANGED <<office, hasty>>

DeleteGroup(g) ==
  /\ PagesUncovered /\ Wishes("drop", {}, "STUDENT", g)
  /\ StoresUnchanged /\ UNCHANGED <<office, hasty>>

-----------------------------------------------------------------------------
(* The server: the steps of each handler, one store access each.           *)

Doing(i, op, phase) == wish[i].op = op /\ wish[i].phase = phase
PassTo(i, phase)    == wish' = [wish EXCEPT ![i].phase = phase]
Whom(i)             == CHOOSE a \in Accounts : a \in wish[i].who

(* A handler is between its statements about the account.                  *)
AtIt(i, a) ==
  /\ wish[i].op \in {"save", "create", "delete"} /\ wish[i].phase \in {"row", "roles"}
  /\ wish[i].who = {a}

(* One comes to it: neither it nor any that is there is alone then.        *)
ComesTo(i, a, phase) ==
  /\ wish' = [j \in Slots |->
       IF j = i THEN [wish[i] EXCEPT !.phase = phase, !.alone = \A k \in Slots : ~AtIt(k, a)]
       ELSE [wish[j] EXCEPT !.alone = @ /\ ~AtIt(j, a)]]
  /\ sure' = sure \ {a} /\ due' = [due EXCEPT ![a] = {}]
  /\ UNCHANGED crowded

(* updateUser: the row is read and written,                                *)
SaveRow(i) ==
  /\ Doing(i, "save", "sent") /\ account[Whom(i)] = "ACTIVE"
  /\ ComesTo(i, Whom(i), "row")
  /\ UNCHANGED <<account, roles, members>>

(* createUser: the row is inserted, its name being unique,                 *)
CreateRow(i) ==
  /\ Doing(i, "create", "sent") /\ account[Whom(i)] = "none"
  /\ account' = [account EXCEPT ![Whom(i)] = "ACTIVE"]
  /\ ComesTo(i, Whom(i), "roles")
  /\ UNCHANGED <<roles, members>>

(* deleteUser: the row is deleted, the default administrator's never,      *)
DeleteRow(i) ==
  /\ Doing(i, "delete", "sent") /\ account[Whom(i)] = "ACTIVE" /\ Whom(i) # Super
  /\ account' = [account EXCEPT ![Whom(i)] = "gone"]
  /\ ComesTo(i, Whom(i), "row")
  /\ UNCHANGED <<roles, members>>

ReadRoles_Shown(i) ==
  /\ wish[i].op \in {"save", "delete"} /\ wish[i].phase = "row"
  /\ \E had \in SUBSET roles[Whom(i)] :
       /\ Cardinality(had) = IF roles[Whom(i)] = {} THEN 0 ELSE 1
       /\ wish' = [wish EXCEPT ![i].phase = "roles", ![i].had = had]
  /\ UNCHANGED <<account, roles, members, Histories>>

(* then those of updateUser and deleteUser read its roles                  *)
ReadRoles(i) ==
  /\ wish[i].op \in {"save", "delete"} /\ wish[i].phase = "row"
  /\ wish' = [wish EXCEPT ![i].phase = "roles", ![i].had = roles[Whom(i)]]
  /\ UNCHANGED <<account, roles, members, Histories>>

(* and take them away, a statement for each; one that fails is passed over *)
DropRole(i) ==
  /\ wish[i].phase = "roles"
  /\ \E r \in wish[i].had, works \in BOOLEAN :
       /\ roles' = IF works THEN [roles EXCEPT ![Whom(i)] = @ \ {r}] ELSE roles
       /\ wish' = [wish EXCEPT ![i].had = @ \ {r}, ![i].alone = @ /\ works]
  /\ UNCHANGED <<account, members, Histories>>

(* and updateUser and createUser add the one of the request, which may     *)
(* fail in the same way.                                                   *)
Given(i) == IF wish[i].op = "delete" THEN {} ELSE {wish[i].role}

GiveRole(i) ==
  /\ wish[i].phase = "roles" /\ wish[i].had = {}
  /\ \E works \in BOOLEAN :
       /\ roles' = IF works THEN [roles EXCEPT ![Whom(i)] = @ \cup Given(i)] ELSE roles
       /\ IF wish[i].alone /\ works
          THEN due' = [due EXCEPT ![Whom(i)] = Given(i)] /\ sure' = sure \cup {Whom(i)}
          ELSE UNCHANGED <<due, sure>>
  /\ wish' = [wish EXCEPT ![i].phase = "done", ![i].alone = TRUE]
  /\ UNCHANGED <<account, members, crowded>>

(* AddUserGroupMembers looks for the group, then inserts the members;      *)
(* whether the accounts exist nobody asks.                                 *)
FindGroup(i) ==
  /\ Doing(i, "join", "sent") /\ members[wish[i].group].here
  /\ PassTo(i, "row")
  /\ UNCHANGED <<account, roles, members, Histories>>

AddMembers(i) ==
  /\ Doing(i, "join", "row")
  /\ \/ /\ members' = [members EXCEPT ![wish[i].group].users = @ \cup wish[i].who]
        /\ PassTo(i, "done")
     \/ PassTo(i, "failed") /\ UNCHANGED members
  /\ UNCHANGED <<account, roles, Histories>>

(* RemoveUserGroupMember; DeleteUserGroup, in one transaction.             *)
TakeMember(i) ==
  /\ Doing(i, "leave", "sent")
  /\ members' = [members EXCEPT ![wish[i].group].users = @ \ wish[i].who]
  /\ PassTo(i, "done")
  /\ UNCHANGED <<account, roles, Histories>>

DropGroup(i) ==
  /\ Doing(i, "drop", "sent")
  /\ members' = [members EXCEPT ![wish[i].group] = [here |-> FALSE, users |-> {}]]
  /\ crowded' = crowded \cup {g \in {wish[i].group} :
                               \E j \in Slots : Doing(j, "join", "row") /\ wish[j].group = g}
  /\ PassTo(i, "done")
  /\ UNCHANGED <<account, roles, due, sure>>

(* Any request can fail before its first write; one for what is not there, *)
(* or for what is forbidden, does.                                         *)
Refuse(i) ==
  /\ wish[i].phase = "sent" /\ PassTo(i, "failed")
  /\ StoresUnchanged

Handles(i) ==
  /\ \/ SaveRow(i) \/ CreateRow(i) \/ DeleteRow(i)
     \/ ReadRoles(i) \/ DropRole(i) \/ GiveRole(i)
     \/ FindGroup(i) \/ AddMembers(i) \/ TakeMember(i) \/ DropGroup(i) \/ Refuse(i)
  /\ UNCHANGED <<office, hasty, wishes>>

-----------------------------------------------------------------------------
(* The answers, as the page takes them: the answer to a save closes the    *)
(* drawer, whoever is in it by now, the one to a creation the dialog, the  *)
(* one to a joining the dialog and clears the selection; each resets       *)
(* saving.                                                                 *)
Page(i) ==
  LET ok == wish[i].phase = "done" IN
  CASE wish[i].op = "save"   -> [office EXCEPT !.saving = FALSE, !.drawer = IF ok THEN "closed" ELSE @]
    [] wish[i].op = "create" -> [office EXCEPT !.saving = FALSE, !.dialog = @ /\ ~ok]
    [] wish[i].op = "join"   -> [office EXCEPT !.saving = FALSE, !.joining = @ /\ ~ok,
                                               !.ticked = IF ok THEN {} ELSE @]
    [] OTHER -> office

Answers(i) ==
  /\ wish[i].phase \in {"done", "failed"}
  /\ office' = Page(i) /\ wish' = [wish EXCEPT ![i] = Still]
  /\ StoresUnchanged /\ UNCHANGED <<hasty, wishes>>

(* The server stops, whatever it is at, and starts again: the pages learn  *)
(* of no answer, and init gives the default administrator the role admin.  *)
StartServer ==
  /\ wish' = [i \in Slots |-> IF wish[i].phase \in {"sent", "row", "roles"}
                              THEN [wish[i] EXCEPT !.phase = "failed", !.had = {}, !.alone = TRUE]
                              ELSE wish[i]]
  /\ roles' = [roles EXCEPT ![Super] = @ \cup {"admin"}]
  /\ due' = [due EXCEPT ![Super] = @ \cup {"admin"}]
  /\ UNCHANGED <<account, members, office, sure, crowded, hasty, wishes>>

OfficeActs ==
  \/ \E a \in Accounts : OpenEdit(a) \/ DeleteUser(a)
  \/ \E who \in SUBSET Accounts : OpenJoin(who)
  \/ \E a \in Accounts, r \in Offered : CreateUser(a, r)
  \/ \E g \in UserGroups : JoinGroup(g) \/ DeleteGroup(g)
  \/ \E g \in UserGroups, a \in Accounts : RemoveMember(g, a)
  \/ \E r \in Offered : ChooseRole(r)
  \/ OpenCreate \/ CloseForms \/ SaveUser

AccountNext == OfficeActs \/ StartServer \/ \E i \in Slots : Handles(i) \/ Answers(i)

AccountSpec == AccountInit /\ [][AccountNext]_accountVars

-----------------------------------------------------------------------------
(* Properties.                                                             *)

(* Whatever handlers that overlapped, statements that failed and stops of  *)
(* the server have left of an account's roles, a handler that comes        *)
(* through alone puts them right: it leaves the roles it gives, none for   *)
(* an account that is gone, and the default administrator's beside what a  *)
(* restart gives him.  A group that is gone has no members, unless a       *)
(* joining had found it.                                                   *)
LastHandlerDecides ==
  /\ \A a \in sure : /\ roles[a] = due[a]
                     /\ account[a] = "ACTIVE" <=> roles[a] # {}
  /\ \A g \in UserGroups \ crowded : ~members[g].here => members[g].users = {}

(* An administrator who waits for his saves never has the drawer closed    *)
(* under another account than the one that was saved.                      *)
DrawerClosesForItsOwn ==
  [][/\ ~hasty /\ office.drawer # "closed" /\ office'.drawer = "closed" /\ office.saving
     => \E i \in Slots : \/ wish[i].who = {office.drawer} /\ wish[i].phase = "done"
                         \/ hasty']_accountVars

(* The page says that it sets the roles of administrators: an account that *)
(* is shown as an administrator's can administer, which takes the role     *)
(* admin of the policies.                                                  *)
Untouched(a) == \A i \in Slots : ~AtIt(i, a)

AdministratorsAdminister ==
  \A a \in Accounts :
    (account[a] = "ACTIVE" /\ Untouched(a) /\ ShownRole(a) = {"ADMIN"}) => "admin" \in roles[a]
=============================================================================
