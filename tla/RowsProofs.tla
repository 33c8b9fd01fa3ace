------------------------------- MODULE RowsProofs -------------------------------
(***************************************************************************)
(* What several administrators do to the same rows, for any of them.       *)
(*                                                                         *)
(* AccountAdmin: a handler about an account leaves row and roles apart     *)
(* between its statements, and the invariant says what a handler that has  *)
(* been alone so far may rely on (AloneKnows), what the last of them has   *)
(* left (SureHold) and whose members a group may have (GroupsHold).  The   *)
(* pages know no more of a request than that they wait: which form waits   *)
(* for which request is the other half (FormsAgree).                       *)
(* At the end the subjects one beside the other, as MCAdminRows has them.  *)
(***************************************************************************)
EXTENDS MCAdminRows, OptionsEditorProofs, ContentListsProofs, ExamConsoleProofs, FiniteSetTheorems, TLAPS

WishRows ==
  [op : {"none", "save", "create", "delete", "join", "leave", "drop"}, who : SUBSET Accounts, role : RoleKeys,
   group : UserGroups \cup {"none"}, phase : {"none", "sent", "row", "roles", "done", "failed"},
   had : SUBSET RoleNames, alone : BOOLEAN]
GroupRows  == [here : BOOLEAN, users : SUBSET Accounts]
OfficeRows ==
  [drawer : Accounts \cup {"closed"}, role : RoleKeys, dialog : BOOLEAN, joining : BOOLEAN,
   saving : BOOLEAN, ticked : SUBSET Accounts]

StoreTyped ==
  /\ account \in [Accounts -> {"none", "ACTIVE", "gone"}] /\ roles \in [Accounts -> SUBSET RoleNames]
  /\ members \in [UserGroups -> GroupRows]
  /\ due \in [Accounts -> SUBSET RoleNames] /\ sure \in SUBSET Accounts /\ crowded \in SUBSET UserGroups
PagesTyped ==
  /\ office \in OfficeRows /\ hasty \in BOOLEAN /\ wishes \in 0..MaxWishes

OnAccounts == {"save", "create", "delete"}
OnGroups   == {"join", "leave", "drop"}

(* A request about an account names one, one about groups a group; and     *)
(* only those of several statements are ever between two of them.          *)
WellFormed(r) ==
  /\ r.op \in OnAccounts => \E a \in Accounts : r.who = {a}
  /\ r.op \in OnGroups => r.group \in UserGroups
  /\ r.phase = "row" => r.op \in OnAccounts \cup {"join"}
  /\ r.phase = "roles" => r.op \in OnAccounts
  /\ r.phase = "sent" => r.had = {}

WishesTyped == wish \in [Slots -> WishRows] /\ \A i \in Slots : WellFormed(wish[i])

Busy(i) == wish[i].phase \in {"row", "roles"}

(* A handler that has been alone at the account knows all its roles once   *)
(* it has read them, and that the row is as it left it.                    *)
AloneKnows ==
  \A i \in Slots, a \in Accounts : (AtIt(i, a) /\ wish[i].alone) =>
    /\ \A j \in Slots : AtIt(j, a) => j = i
    /\ account[a] = IF wish[i].op = "delete" THEN "gone" ELSE "ACTIVE"
    /\ wish[i].phase = "roles" => roles[a] \subseteq wish[i].had

(* Nobody is at an account that is sure, and roles go with the row.        *)
SureHold ==
  \A a \in sure : /\ \A i \in Slots : ~AtIt(i, a)
                  /\ roles[a] = due[a]
                  /\ account[a] = "ACTIVE" <=> roles[a] # {}

(* An account that is yet to be created has no roles and no handler.       *)
FreshHold ==
  \A a \in Accounts : account[a] = "none" => roles[a] = {} /\ \A i \in Slots : ~AtIt(i, a)

(* Members come to a group that is gone by a joining that had found it.    *)
GroupsHold ==
  \A g \in UserGroups \ crowded : ~members[g].here =>
    /\ members[g].users = {}
    /\ \A i \in Slots : ~(Doing(i, "join", "row") /\ wish[i].group = g)

ServerHolds == account[Super] = "ACTIVE" /\ AloneKnows /\ SureHold /\ FreshHold /\ GroupsHold

(* One form is open at a time, and until one is closed while it is saving, *)
(* the request it waits for is the only one made by a form, and its own.   *)
FromForm(i) == wish[i].op \in {"save", "create", "join"}

FormsAgree ==
  /\ office.drawer # "closed" => ~office.dialog /\ ~office.joining
  /\ office.dialog => ~office.joining
  /\ ~hasty =>
       /\ \A i, j \in Slots : FromForm(i) /\ FromForm(j) => i = j
       /\ \A i \in Slots : FromForm(i) =>
            /\ office.saving
            /\ wish[i].op = "save"   => office.drawer # "closed" /\ wish[i].who = {office.drawer}
            /\ wish[i].op = "create" => office.dialog
            /\ wish[i].op = "join"   => office.joining

AccountInv == StoreTyped /\ PagesTyped /\ WishesTyped /\ ServerHolds /\ FormsAgree

-----------------------------------------------------------------------------
(* The pages.                                                              *)

(* The stores and what handlers rely on stay, while no handler takes a     *)
(* step.                                                                   *)
LEMMA ServerKept ==
  ASSUME AccountInv, StoresUnchanged, WishesTyped', PagesTyped',
         \A i \in Slots : wish'[i] = wish[i] \/ (~Busy(i) /\ ~Busy(i)')
  PROVE  StoreTyped' /\ ServerHolds'
<1>1. \A i \in Slots : (Busy(i)' <=> Busy(i)) /\ (Busy(i) => wish'[i] = wish[i])
  BY DEF Busy
<1>2. \A i \in Slots, a \in Accounts : AtIt(i, a)' <=> AtIt(i, a)
  BY <1>1 DEF AtIt, Busy
<1>3. \A i \in Slots, a \in Accounts : AtIt(i, a) => wish'[i] = wish[i]
  BY <1>1 DEF AtIt, Busy
<1>4. \A i \in Slots : Doing(i, "join", "row")' => Doing(i, "join", "row") /\ wish'[i] = wish[i]
  BY <1>1 DEF Doing, Busy
<1>5. UNCHANGED <<account, roles, members, due, sure, crowded>>
  BY DEF StoresUnchanged, Histories
<1>6. AloneKnows' /\ SureHold' /\ FreshHold'
  BY <1>2, <1>3, <1>5 DEF AccountInv, ServerHolds, AloneKnows, SureHold, FreshHold, StoreTyped
<1>7. GroupsHold'
  BY <1>4, <1>5 DEF AccountInv, ServerHolds, GroupsHold
<1>8. QED
  BY <1>5, <1>6, <1>7 DEF AccountInv, StoreTyped, ServerHolds

(* A request that is made is one that has been sent.                       *)
LEMMA WishMade ==
  ASSUME AccountInv, NEW op \in OnAccounts \cup OnGroups, NEW who \in SUBSET Accounts, NEW role \in RoleKeys,
         NEW g \in UserGroups \cup {"none"}, Wishes(op, who, role, g),
         op \in OnAccounts => \E a \in Accounts : who = {a}, op \in OnGroups => g \in UserGroups
  PROVE  /\ WishesTyped' /\ wishes' \in 0..MaxWishes
         /\ \A i \in Slots : wish'[i] = wish[i] \/ (~Busy(i) /\ ~Busy(i)')
         /\ \E i \in Slots : /\ wish'[i].op = op /\ wish'[i].who = who
                            /\ \A j \in Slots \ {i} : wish'[j] = wish[j]
<1>0. wish \in [Slots -> WishRows] /\ \A i \in Slots : WellFormed(wish[i])
  BY DEF AccountInv, WishesTyped
<1>1. PICK i \in Slots :
        /\ wish[i] = Still
        /\ wish' = [wish EXCEPT ![i] = [Still EXCEPT !.op = op, !.who = who, !.role = role, !.group = g,
                                                   !.phase = "sent"]]
  BY DEF Wishes
<1>2. PICK r : r = [Still EXCEPT !.op = op, !.who = who, !.role = role, !.group = g, !.phase = "sent"]
  OBVIOUS
<1>3. r \in WishRows /\ r.op = op /\ r.who = who /\ r.group = g /\ r.phase = "sent"
  <2>1. Still \in WishRows
    BY DEF Still, WishRows, RoleKeys, RoleNames
  <2>2. QED
    BY <1>2, <2>1 DEF WishRows, OnAccounts, OnGroups
<1>4. WellFormed(r)
  BY <1>1, <1>2, <1>3 DEF WellFormed, Still
<1>5. wish'[i] = r /\ \A j \in Slots \ {i} : wish'[j] = wish[j]
  BY <1>0, <1>1, <1>2
<1>6. WishesTyped'
  BY <1>0, <1>1, <1>2, <1>3, <1>4, <1>5 DEF WishesTyped, WellFormed
<1>7. ~Busy(i) /\ ~Busy(i)'
  BY <1>1, <1>3, <1>5 DEF Busy, Still
<1>8. wishes' \in 0..MaxWishes
  BY AccountAssumption DEF Wishes, AccountInv, PagesTyped
<1>9. QED
  BY <1>3, <1>5, <1>6, <1>7, <1>8

(* Whatever an administrator does on the pages.                            *)
LEMMA OfficeKeeps ==
  ASSUME AccountInv, OfficeActs
  PROVE  AccountInv'
<1>0. StoreTyped /\ PagesTyped /\ WishesTyped /\ FormsAgree /\ office \in OfficeRows
  BY DEF AccountInv, PagesTyped
<1>1. ASSUME StoresUnchanged, UNCHANGED wish, PagesTyped', FormsAgree'
      PROVE  AccountInv'
  <2>1. WishesTyped'
    BY <1>0, <1>1 DEF WishesTyped, WellFormed
  <2>2. StoreTyped' /\ ServerHolds'
    BY <1>1, <2>1, ServerKept
  <2>3. QED
    BY <1>1, <2>1, <2>2 DEF AccountInv
<1>2. ASSUME StoresUnchanged, NEW op \in OnAccounts \cup OnGroups, NEW who \in SUBSET Accounts,
             NEW role \in RoleKeys, NEW g \in UserGroups \cup {"none"}, Wishes(op, who, role, g),
             op \in OnAccounts => \E a \in Accounts : who = {a}, op \in OnGroups => g \in UserGroups,
             office' \in OfficeRows, hasty' = hasty, office'.drawer = office.drawer,
             office'.dialog = office.dialog, office'.joining = office.joining,
             \/ op \in {"save", "create", "join"} /\ ~office.saving /\ office'.saving
             \/ op \notin {"save", "create", "join"} /\ office'.saving = office.saving,
             op = "save"   => office.drawer # "closed" /\ who = {office.drawer},
             op = "create" => office.dialog,
             op = "join"   => office.joining
      PROVE  AccountInv'
  <2>1. PICK i \in Slots : /\ wish'[i].op = op /\ wish'[i].who = who
                           /\ \A j \in Slots \ {i} : wish'[j] = wish[j]
    BY <1>2, WishMade
  <2>2. WishesTyped' /\ wishes' \in 0..MaxWishes
    BY <1>2, WishMade
  <2>3. \A j \in Slots : wish'[j] = wish[j] \/ (~Busy(j) /\ ~Busy(j)')
    BY <1>2, WishMade
  <2>4. PagesTyped'
    BY <1>0, <1>2, <2>2 DEF PagesTyped, StoresUnchanged
  <2>5. StoreTyped' /\ ServerHolds'
    BY <1>2, <2>2, <2>3, <2>4, ServerKept
  <2>6. FormsAgree'
    <3>1. CASE op \in {"save", "create", "join"}
      <4>1. ~hasty => \A j \in Slots : ~FromForm(j)
        BY <1>0, <1>2, <3>1 DEF FormsAgree
      <4>2. ~hasty => \A j \in Slots : FromForm(j)' => j = i
        BY <2>1, <4>1 DEF FromForm
      <4>3. QED
        BY <1>0, <1>2, <2>1, <3>1, <4>2 DEF FormsAgree
    <3>2. CASE op \notin {"save", "create", "join"}
      BY <1>0, <1>2, <2>1, <3>2 DEF FormsAgree, FromForm
    <3>3. QED
      BY <3>1, <3>2
  <2>7. QED
    BY <2>2, <2>4, <2>5, <2>6 DEF AccountInv
<1>. USE DEF OfficeRows
<1>3. PagesUncovered /\ ~hasty => \A i \in Slots : ~FromForm(i)
  BY <1>0 DEF FormsAgree, PagesUncovered, FromForm
<1>4. ASSUME NEW a \in Accounts, OpenEdit(a)
      PROVE  AccountInv'
  <2>1. PICK r \in RoleKeys : office' = [office EXCEPT !.drawer = a, !.role = r]
    <3>1. Offered \subseteq RoleKeys /\ ShownRole(a) \subseteq RoleKeys
      BY <1>0, AccountAssumption DEF ShownRole, FormRole, StoreTyped, RoleNames, RoleKeys
    <3>2. QED
      BY <1>4, <3>1 DEF OpenEdit
  <2>2. PagesTyped'
    BY <1>0, <1>4, <2>1 DEF PagesTyped, OpenEdit
  <2>3. FormsAgree'
    BY <1>0, <1>3, <1>4, <2>1 DEF FormsAgree, OpenEdit, FromForm, PagesUncovered
  <2>4. QED
    BY <1>1, <1>4, <2>2, <2>3 DEF OpenEdit
<1>5. CASE OpenCreate
  <2>1. PagesTyped'
    BY <1>0, <1>5 DEF PagesTyped, OpenCreate, StoresUnchanged
  <2>2. FormsAgree'
    BY <1>0, <1>3, <1>5 DEF FormsAgree, OpenCreate, FromForm, PagesUncovered
  <2>3. QED
    BY <1>1, <1>5, <2>1, <2>2 DEF OpenCreate
<1>6. ASSUME NEW who \in SUBSET Accounts, OpenJoin(who)
      PROVE  AccountInv'
  <2>1. PagesTyped'
    BY <1>0, <1>6 DEF PagesTyped, OpenJoin, StoresUnchanged
  <2>2. FormsAgree'
    BY <1>0, <1>3, <1>6 DEF FormsAgree, OpenJoin, FromForm, PagesUncovered
  <2>3. QED
    BY <1>1, <1>6, <2>1, <2>2 DEF OpenJoin
<1>7. ASSUME NEW r \in Offered, ChooseRole(r)
      PROVE  AccountInv'
  <2>1. PagesTyped'
    BY <1>0, <1>7, AccountAssumption DEF PagesTyped, ChooseRole, StoresUnchanged
  <2>2. FormsAgree'
    BY <1>0, <1>7 DEF FormsAgree, ChooseRole, FromForm
  <2>3. QED
    BY <1>1, <1>7, <2>1, <2>2 DEF ChooseRole
<1>8. CASE CloseForms
  <2>1. PICK reset \in BOOLEAN :
          office' = [Closed EXCEPT !.saving = office.saving /\ ~reset]
    BY <1>8 DEF CloseForms
  <2>2. Closed \in OfficeRows /\ Closed.drawer = "closed" /\ ~Closed.dialog /\ ~Closed.joining
    BY DEF Closed, RoleKeys
  <2>3. hasty' = (hasty \/ office.saving) /\ StoresUnchanged /\ UNCHANGED <<wish, wishes>>
    BY <1>8 DEF CloseForms
  <2>4. hasty' \in BOOLEAN /\ office' \in OfficeRows /\ office'.drawer = "closed" /\ ~office'.dialog /\ ~office'.joining
    BY <1>0, <2>1, <2>2, <2>3
  <2>5. PagesTyped'
    BY <1>0, <2>3, <2>4 DEF PagesTyped
  <2>6. ~hasty' => ~hasty /\ ~office.saving
    BY <1>0, <2>3
  <2>7. FormsAgree'
    BY <1>0, <2>3, <2>4, <2>6 DEF FormsAgree, FromForm
  <2>8. QED
    BY <1>1, <2>3, <2>5, <2>7 DEF StoresUnchanged
<1>9. CASE SaveUser
  BY <1>0, <1>2, <1>9 DEF SaveUser, OnAccounts, OnGroups
<1>10. ASSUME NEW a \in Accounts, NEW r \in Offered, CreateUser(a, r)
       PROVE  AccountInv'
  BY <1>0, <1>2, <1>10, AccountAssumption DEF CreateUser, OnAccounts, OnGroups
<1>11. ASSUME NEW a \in Accounts, DeleteUser(a)
       PROVE  AccountInv'
  BY <1>0, <1>2, <1>11 DEF DeleteUser, OnAccounts, OnGroups, RoleKeys
<1>12. ASSUME NEW g \in UserGroups, JoinGroup(g)
       PROVE  AccountInv'
  BY <1>0, <1>2, <1>12 DEF JoinGroup, OnAccounts, OnGroups, RoleKeys
<1>13. ASSUME NEW g \in UserGroups, NEW a \in Accounts, RemoveMember(g, a)
       PROVE  AccountInv'
  BY <1>0, <1>2, <1>13 DEF RemoveMember, OnAccounts, OnGroups, RoleKeys
<1>14. ASSUME NEW g \in UserGroups, DeleteGroup(g)
       PROVE  AccountInv'
  BY <1>0, <1>2, <1>14 DEF DeleteGroup, OnAccounts, OnGroups, RoleKeys
<1>15. QED
  BY <1>4, <1>5, <1>6, <1>7, <1>8, <1>9, <1>10, <1>11, <1>12, <1>13, <1>14 DEF OfficeActs

-----------------------------------------------------------------------------
(* The server.                                                             *)

(* Requests that go on are the same to the pages.                          *)
LEMMA GoesOn ==
  ASSUME AccountInv, UNCHANGED <<office, hasty, wishes>>, wish' \in [Slots -> WishRows],
         \A j \in Slots : wish'[j].op = wish[j].op /\ wish'[j].who = wish[j].who /\ WellFormed(wish'[j])
  PROVE  WishesTyped' /\ PagesTyped' /\ FormsAgree'
<1>1. WishesTyped'
  BY DEF WishesTyped, WellFormed
<1>2. FormsAgree'
  BY DEF AccountInv, FormsAgree, FromForm
<1>3. QED
  BY <1>1, <1>2 DEF AccountInv, PagesTyped

(* One of them changes.                                                    *)
LEMMA OneGoesOn ==
  ASSUME AccountInv, NEW i \in Slots, UNCHANGED <<office, hasty, wishes>>,
         NEW r \in WishRows, wish' = [wish EXCEPT ![i] = r], WellFormed(r),
         r.op = wish[i].op, r.who = wish[i].who
  PROVE  /\ WishesTyped' /\ PagesTyped' /\ FormsAgree' /\ wish'[i] = r
         /\ \A j \in Slots \ {i} : wish'[j] = wish[j]
<1>1. wish'[i] = r /\ \A j \in Slots \ {i} : wish'[j] = wish[j]
  BY DEF AccountInv, WishesTyped
<1>2. wish' \in [Slots -> WishRows]
  BY DEF AccountInv, WishesTyped
<1>3. \A j \in Slots : wish'[j].op = wish[j].op /\ wish'[j].who = wish[j].who /\ WellFormed(wish'[j])
  BY <1>1 DEF AccountInv, WishesTyped
<1>4. QED
  BY <1>1, <1>2, <1>3, GoesOn

(* Its phase changes, and nothing else.                                    *)
LEMMA Passes ==
  ASSUME AccountInv, NEW i \in Slots, NEW phase \in {"row", "done", "failed"}, PassTo(i, phase),
         phase = "row" => wish[i].op \in OnAccounts \cup {"join"},
         UNCHANGED <<office, hasty, wishes>>
  PROVE  /\ WishesTyped' /\ PagesTyped' /\ FormsAgree'
         /\ wish'[i].op = wish[i].op /\ wish'[i].who = wish[i].who /\ wish'[i].group = wish[i].group
         /\ wish'[i].phase = phase
         /\ \A j \in Slots \ {i} : wish'[j] = wish[j]
<1>1. wish \in [Slots -> WishRows] /\ wish[i] \in WishRows /\ WellFormed(wish[i])
  BY DEF AccountInv, WishesTyped
<1>2. PICK r : r = [wish[i] EXCEPT !.phase = phase]
  OBVIOUS
<1>3. /\ r \in WishRows /\ r.op = wish[i].op /\ r.who = wish[i].who /\ r.group = wish[i].group
      /\ r.phase = phase
  BY <1>1, <1>2 DEF WishRows
<1>4. WellFormed(r)
  BY <1>1, <1>3 DEF WellFormed
<1>5. wish' = [wish EXCEPT ![i] = r]
  BY <1>1, <1>2 DEF PassTo
<1>6. QED
  BY <1>3, <1>4, <1>5, OneGoesOn

(* The account a request is about.                                         *)
LEMMA WhomIs ==
  ASSUME AccountInv, NEW i \in Slots, wish[i].op \in OnAccounts
  PROVE  \E a \in Accounts : wish[i].who = {a} /\ Whom(i) = a
BY DEF AccountInv, WishesTyped, WellFormed, Whom

(* A handler comes to an account: one that was alone there is no longer.   *)
LEMMA Comes ==
  ASSUME AccountInv, NEW i \in Slots, NEW a \in Accounts, NEW phase \in {"row", "roles"},
         wish[i].op \in OnAccounts, wish[i].phase = "sent", wish[i].who = {a},
         ComesTo(i, a, phase), UNCHANGED <<office, hasty, wishes>>
  PROVE  /\ WishesTyped' /\ PagesTyped' /\ FormsAgree'
         /\ due' \in [Accounts -> SUBSET RoleNames] /\ \A b \in Accounts \ {a} : due'[b] = due[b]
         /\ sure' = sure \ {a} /\ crowded' = crowded
         /\ wish'[i].op = wish[i].op /\ wish'[i].phase = phase /\ wish'[i].had = {}
         /\ wish'[i].alone => \A j \in Slots : ~AtIt(j, a)
         /\ \A b \in Accounts : AtIt(i, b)' <=> b = a
         /\ \A j \in Slots \ {i}, b \in Accounts :
              /\ AtIt(j, b)' <=> AtIt(j, b)
              /\ AtIt(j, b)' /\ wish'[j].alone => b # a /\ wish'[j] = wish[j]
         /\ \A j \in Slots : Doing(j, "join", "row")' => Doing(j, "join", "row") /\ wish'[j].group = wish[j].group
<1>1. wish \in [Slots -> WishRows] /\ \A j \in Slots : wish[j] \in WishRows /\ WellFormed(wish[j])
  BY DEF AccountInv, WishesTyped
<1>2. PICK r : r = [wish[i] EXCEPT !.phase = phase, !.alone = \A k \in Slots : ~AtIt(k, a)]
  OBVIOUS
<1>3. /\ r \in WishRows /\ r.op = wish[i].op /\ r.who = {a} /\ r.phase = phase /\ r.had = {}
      /\ r.alone = (\A k \in Slots : ~AtIt(k, a))
  <2>1. wish[i] \in WishRows /\ WellFormed(wish[i])
    BY <1>1
  <2>2. (\A k \in Slots : ~AtIt(k, a)) \in BOOLEAN
    OBVIOUS
  <2>3. PICK al \in BOOLEAN : al = (\A k \in Slots : ~AtIt(k, a))
    BY <2>2
  <2>4. r = [wish[i] EXCEPT !.phase = phase, !.alone = al]
    BY <1>2, <2>3
  <2>5. /\ r \in WishRows /\ r.op = wish[i].op /\ r.who = wish[i].who /\ r.phase = phase
        /\ r.had = wish[i].had /\ r.alone = al
    BY <2>1, <2>4 DEF WishRows
  <2>6. QED
    BY <2>1, <2>3, <2>5 DEF WellFormed
<1>4. WellFormed(r)
  BY <1>3 DEF WellFormed, OnAccounts, OnGroups
<1>5. wish'[i] = r
  BY <1>2 DEF ComesTo
<1>6. ASSUME NEW j \in Slots \ {i}
      PROVE  /\ wish'[j] \in WishRows /\ WellFormed(wish'[j])
             /\ wish'[j].op = wish[j].op /\ wish'[j].who = wish[j].who /\ wish'[j].group = wish[j].group
             /\ wish'[j].phase = wish[j].phase
             /\ AtIt(j, a) => ~wish'[j].alone
             /\ ~AtIt(j, a) => wish'[j] = wish[j]
  <2>1. wish'[j] = [wish[j] EXCEPT !.alone = wish[j].alone /\ ~AtIt(j, a)]
    BY DEF ComesTo
  <2>2. wish[j] \in WishRows /\ WellFormed(wish[j])
    BY <1>1
  <2>3. PICK al \in BOOLEAN : al = (wish[j].alone /\ ~AtIt(j, a))
    OBVIOUS
  <2>4. wish'[j] = [wish[j] EXCEPT !.alone = al]
    BY <2>1, <2>3
  <2>5. /\ wish'[j] \in WishRows /\ wish'[j].op = wish[j].op /\ wish'[j].who = wish[j].who
        /\ wish'[j].group = wish[j].group /\ wish'[j].phase = wish[j].phase /\ wish'[j].had = wish[j].had
        /\ wish'[j].alone = al
    BY <2>2, <2>4 DEF WishRows
  <2>6. ~AtIt(j, a) => wish'[j] = wish[j]
    <3>1. ~AtIt(j, a) => al = wish[j].alone
      BY <2>2, <2>3 DEF WishRows
    <3>2. QED
      BY <2>2, <2>4, <3>1 DEF WishRows
  <2>7. QED
    BY <2>2, <2>3, <2>5, <2>6 DEF WellFormed
<1>7. wish' \in [Slots -> WishRows]
  <2>1. \A j \in Slots : wish'[j] \in WishRows
    BY <1>3, <1>5, <1>6
  <2>2. wish' = [j \in Slots |-> wish'[j]]
    BY DEF ComesTo
  <2>3. QED
    BY <2>1, <2>2
<1>8. WishesTyped' /\ PagesTyped' /\ FormsAgree'
  BY <1>3, <1>4, <1>5, <1>6, <1>7, GoesOn
<1>9. sure' = sure \ {a} /\ crowded' = crowded /\ due' = [due EXCEPT ![a] = {}]
  BY DEF ComesTo
<1>10. due' \in [Accounts -> SUBSET RoleNames] /\ \A b \in Accounts \ {a} : due'[b] = due[b]
  BY <1>9 DEF AccountInv, StoreTyped
<1>11. \A b \in Accounts : AtIt(i, b)' <=> b = a
  BY <1>3, <1>5 DEF AtIt, OnAccounts
<1>12. \A j \in Slots \ {i}, b \in Accounts :
         /\ AtIt(j, b)' <=> AtIt(j, b)
         /\ AtIt(j, b)' /\ wish'[j].alone => b # a /\ wish'[j] = wish[j]
  BY <1>6 DEF AtIt
<1>13. \A j \in Slots : Doing(j, "join", "row")' => Doing(j, "join", "row") /\ wish'[j].group = wish[j].group
  BY <1>3, <1>5, <1>6 DEF Doing, OnAccounts
<1>14. QED
  BY <1>3, <1>5, <1>8, <1>9, <1>10, <1>11, <1>12, <1>13

(* The first statement of a handler about an account: what it finds there  *)
(* is what it left, and any that was there before may no longer know.      *)
LEMMA RowStatement ==
  ASSUME AccountInv, NEW i \in Slots, NEW a \in Accounts, NEW phase \in {"row", "roles"},
         wish[i].op \in OnAccounts, wish[i].phase = "sent", wish[i].who = {a},
         ComesTo(i, a, phase), UNCHANGED <<office, hasty, wishes, roles, members>>,
         account' \in [Accounts -> {"none", "ACTIVE", "gone"}],
         \A b \in Accounts \ {a} : account'[b] = account[b],
         account'[a] = IF wish[i].op = "delete" THEN "gone" ELSE "ACTIVE",
         a = Super => account'[a] = "ACTIVE",
         phase = "roles" => account[a] = "none"
  PROVE  AccountInv'
<1>0. StoreTyped /\ ServerHolds /\ Super \in Accounts
  BY AccountAssumption DEF AccountInv
<1>1. /\ WishesTyped' /\ PagesTyped' /\ FormsAgree'
      /\ due' \in [Accounts -> SUBSET RoleNames] /\ \A b \in Accounts \ {a} : due'[b] = due[b]
      /\ sure' = sure \ {a} /\ crowded' = crowded
      /\ wish'[i].op = wish[i].op /\ wish'[i].phase = phase /\ wish'[i].had = {}
      /\ wish'[i].alone => \A j \in Slots : ~AtIt(j, a)
  BY Comes
<1>2. /\ \A b \in Accounts : AtIt(i, b)' <=> b = a
      /\ \A j \in Slots \ {i}, b \in Accounts :
           /\ AtIt(j, b)' <=> AtIt(j, b)
           /\ AtIt(j, b)' /\ wish'[j].alone => b # a /\ wish'[j] = wish[j]
  BY Comes
<1>3. \A j \in Slots : Doing(j, "join", "row")' => Doing(j, "join", "row") /\ wish'[j].group = wish[j].group
  BY Comes
<1>4. StoreTyped'
  BY <1>0, <1>1 DEF StoreTyped
<1>5. AloneKnows'
  <2> SUFFICES ASSUME NEW k \in Slots, NEW b \in Accounts, AtIt(k, b)', wish'[k].alone
               PROVE  /\ \A j \in Slots : AtIt(j, b)' => j = k
                      /\ account'[b] = IF wish'[k].op = "delete" THEN "gone" ELSE "ACTIVE"
                      /\ wish'[k].phase = "roles" => roles'[b] \subseteq wish'[k].had
    BY DEF AloneKnows
  <2>1. CASE k = i
    <3>1. b = a /\ \A j \in Slots : ~AtIt(j, a)
      BY <1>1, <1>2, <2>1
    <3>2. phase = "roles" => roles[a] = {}
      BY <1>0 DEF ServerHolds, FreshHold
    <3>3. QED
      BY <1>1, <1>2, <2>1, <3>1, <3>2
  <2>2. CASE k # i
    <3>1. AtIt(k, b) /\ b # a /\ wish'[k] = wish[k]
      BY <1>2, <2>2
    <3>2. /\ \A j \in Slots : AtIt(j, b) => j = k
          /\ account[b] = IF wish[k].op = "delete" THEN "gone" ELSE "ACTIVE"
          /\ wish[k].phase = "roles" => roles[b] \subseteq wish[k].had
      BY <1>0, <3>1 DEF ServerHolds, AloneKnows
    <3>3. QED
      BY <1>2, <3>1, <3>2
  <2>3. QED
    BY <2>1, <2>2
<1>6. SureHold'
  BY <1>0, <1>1, <1>2 DEF ServerHolds, SureHold, StoreTyped
<1>7. FreshHold'
  BY <1>0, <1>2 DEF ServerHolds, FreshHold
<1>8. GroupsHold'
  BY <1>0, <1>1, <1>3 DEF ServerHolds, GroupsHold
<1>9. QED
  BY <1>0, <1>1, <1>4, <1>5, <1>6, <1>7, <1>8 DEF AccountInv, ServerHolds

(* The statements after it, to the roles: only those of the account change,*)
(* and of the handlers there only this one goes on.                        *)
LEMMA RolesStatement ==
  ASSUME AccountInv, NEW i \in Slots, NEW a \in Accounts, AtIt(i, a),
         NEW r \in WishRows, wish' = [wish EXCEPT ![i] = r], WellFormed(r),
         r.op = wish[i].op, r.who = wish[i].who, r.phase \in {"roles", "done"},
         UNCHANGED <<office, hasty, wishes, account, members, crowded>>,
         roles' \in [Accounts -> SUBSET RoleNames], due' \in [Accounts -> SUBSET RoleNames],
         \A b \in Accounts \ {a} : roles'[b] = roles[b] /\ due'[b] = due[b],
         r.phase = "roles" /\ r.alone => wish[i].alone /\ roles'[a] \subseteq r.had,
         \/ sure' = sure
         \/ /\ sure' = sure \cup {a} /\ r.phase = "done" /\ wish[i].alone
            /\ roles'[a] = due'[a] /\ (account[a] = "ACTIVE" <=> roles'[a] # {})
  PROVE  AccountInv'
<1>0. StoreTyped /\ ServerHolds
  BY DEF AccountInv
<1>1. /\ WishesTyped' /\ PagesTyped' /\ FormsAgree' /\ wish'[i] = r
      /\ \A j \in Slots \ {i} : wish'[j] = wish[j]
  BY OneGoesOn
<1>2. \A j \in Slots, b \in Accounts : AtIt(j, b)' => AtIt(j, b)
  BY <1>1 DEF AtIt
<1>3. r.phase = "done" => \A b \in Accounts : ~AtIt(i, b)'
  BY <1>1 DEF AtIt
<1>4. a \notin sure /\ account[a] # "none" /\ \A b \in Accounts : AtIt(i, b) => b = a
  BY <1>0 DEF ServerHolds, SureHold, FreshHold, AtIt
<1>5. \A j \in Slots \ {i} : ~AtIt(j, a) \/ ~wish[j].alone
  BY <1>0 DEF ServerHolds, AloneKnows
<1>6. StoreTyped'
  BY <1>0 DEF StoreTyped
<1>7. AloneKnows'
  <2> SUFFICES ASSUME NEW k \in Slots, NEW b \in Accounts, AtIt(k, b)', wish'[k].alone
               PROVE  /\ \A j \in Slots : AtIt(j, b)' => j = k
                      /\ account'[b] = IF wish'[k].op = "delete" THEN "gone" ELSE "ACTIVE"
                      /\ wish'[k].phase = "roles" => roles'[b] \subseteq wish'[k].had
    BY DEF AloneKnows
  <2>1. CASE k = i
    <3>1. b = a /\ r.phase = "roles" /\ r.alone
      BY <1>1, <1>2, <1>3, <1>4, <2>1
    <3>2. wish[i].alone /\ roles'[a] \subseteq r.had
      BY <3>1
    <3>3. QED
      BY <1>0, <1>1, <1>2, <2>1, <3>1, <3>2 DEF ServerHolds, AloneKnows
  <2>2. CASE k # i
    <3>1. AtIt(k, b) /\ wish'[k] = wish[k] /\ b # a
      BY <1>1, <1>2, <1>5, <2>2
    <3>2. QED
      BY <1>0, <1>2, <3>1 DEF ServerHolds, AloneKnows
  <2>3. QED
    BY <2>1, <2>2
<1>8. SureHold'
  <2> SUFFICES ASSUME NEW b \in sure'
               PROVE  /\ \A j \in Slots : ~AtIt(j, b)'
                      /\ roles'[b] = due'[b] /\ (account'[b] = "ACTIVE" <=> roles'[b] # {})
    BY DEF SureHold
  <2>1. CASE b \in sure
    BY <1>0, <1>2, <1>4, <2>1 DEF ServerHolds, SureHold, StoreTyped
  <2>2. CASE b \notin sure
    <3>1. b = a /\ r.phase = "done" /\ wish[i].alone
      BY <2>2
    <3>2. \A j \in Slots \ {i} : ~AtIt(j, a)
      BY <1>0, <3>1 DEF ServerHolds, AloneKnows
    <3>3. QED
      BY <1>2, <1>3, <2>2, <3>1, <3>2
  <2>3. QED
    BY <2>1, <2>2
<1>9. FreshHold'
  BY <1>0, <1>2, <1>4 DEF ServerHolds, FreshHold
<1>10. GroupsHold'
  <2>1. \A j \in Slots : Doing(j, "join", "row")' => Doing(j, "join", "row") /\ wish'[j] = wish[j]
    BY <1>1 DEF Doing
  <2>2. QED
    BY <1>0, <2>1 DEF ServerHolds, GroupsHold
<1>11. QED
  BY <1>0, <1>1, <1>6, <1>7, <1>8, <1>9, <1>10 DEF AccountInv, ServerHolds

(* A statement to a group: its rows change, or the request of a joining.   *)
LEMMA GroupStatement ==
  ASSUME AccountInv, NEW i \in Slots, wish[i].op \in OnGroups, WishesTyped', PagesTyped', FormsAgree',
         wish'[i].op = wish[i].op, \A j \in Slots \ {i} : wish'[j] = wish[j],
         UNCHANGED <<account, roles, due, sure>>, members' \in [UserGroups -> GroupRows],
         crowded' \in SUBSET UserGroups, GroupsHold'
  PROVE  AccountInv'
<1>0. StoreTyped /\ ServerHolds
  BY DEF AccountInv
<1>1. \A j \in Slots, b \in Accounts : /\ AtIt(j, b)' <=> AtIt(j, b)
                                       /\ AtIt(j, b) => wish'[j] = wish[j]
  BY DEF AtIt, OnGroups
<1>2. AloneKnows' /\ SureHold' /\ FreshHold'
  BY <1>0, <1>1 DEF ServerHolds, AloneKnows, SureHold, FreshHold, StoreTyped
<1>3. QED
  BY <1>0, <1>2 DEF AccountInv, StoreTyped, ServerHolds

(* Each statement of each handler.                                         *)
LEMMA HandlesKeeps ==
  ASSUME AccountInv, NEW i \in Slots, Handles(i)
  PROVE  AccountInv'
<1>0. /\ StoreTyped /\ PagesTyped /\ WishesTyped /\ FormsAgree /\ ServerHolds
      /\ wish[i] \in WishRows /\ WellFormed(wish[i]) /\ Super \in Accounts
      /\ UNCHANGED <<office, hasty, wishes>>
  BY AccountAssumption DEF AccountInv, WishesTyped, Handles
<1>1. CASE SaveRow(i)
  <2>1. PICK a \in Accounts : wish[i].who = {a} /\ Whom(i) = a
    BY <1>1, WhomIs DEF SaveRow, Doing, OnAccounts
  <2>2. /\ wish[i].op = "save" /\ wish[i].phase = "sent" /\ account[a] = "ACTIVE"
        /\ ComesTo(i, a, "row") /\ UNCHANGED <<account, roles, members>>
    BY <1>1, <2>1 DEF SaveRow, Doing
  <2>3. QED
    BY <1>0, <2>1, <2>2, RowStatement DEF OnAccounts, StoreTyped
<1>2. CASE CreateRow(i)
  <2>1. PICK a \in Accounts : wish[i].who = {a} /\ Whom(i) = a
    BY <1>2, WhomIs DEF CreateRow, Doing, OnAccounts
  <2>2. /\ wish[i].op = "create" /\ wish[i].phase = "sent" /\ account[a] = "none"
        /\ account' = [account EXCEPT ![a] = "ACTIVE"]
        /\ ComesTo(i, a, "roles") /\ UNCHANGED <<roles, members>>
    BY <1>2, <2>1 DEF CreateRow, Doing
  <2>3. /\ account' \in [Accounts -> {"none", "ACTIVE", "gone"}] /\ account'[a] = "ACTIVE"
        /\ \A b \in Accounts \ {a} : account'[b] = account[b]
    BY <1>0, <2>2 DEF StoreTyped
  <2>4. QED
    BY <1>0, <2>1, <2>2, <2>3, RowStatement DEF OnAccounts
<1>3. CASE DeleteRow(i)
  <2>1. PICK a \in Accounts : wish[i].who = {a} /\ Whom(i) = a
    BY <1>3, WhomIs DEF DeleteRow, Doing, OnAccounts
  <2>2. /\ wish[i].op = "delete" /\ wish[i].phase = "sent" /\ a # Super
        /\ account' = [account EXCEPT ![a] = "gone"]
        /\ ComesTo(i, a, "row") /\ UNCHANGED <<roles, members>>
    BY <1>3, <2>1 DEF DeleteRow, Doing
  <2>3. /\ account' \in [Accounts -> {"none", "ACTIVE", "gone"}] /\ account'[a] = "gone"
        /\ \A b \in Accounts \ {a} : account'[b] = account[b]
    BY <1>0, <2>2 DEF StoreTyped
  <2>4. QED
    BY <1>0, <2>1, <2>2, <2>3, RowStatement DEF OnAccounts
<1>4. CASE ReadRoles(i)
  <2>1. PICK a \in Accounts : wish[i].who = {a} /\ Whom(i) = a
    BY <1>4, WhomIs DEF ReadRoles, OnAccounts
  <2>2. AtIt(i, a)
    BY <1>4, <2>1 DEF AtIt, ReadRoles
  <2>3. PICK r : r = [wish[i] EXCEPT !.phase = "roles", !.had = roles[a]]
    OBVIOUS
  <2>4. /\ r \in WishRows /\ r.op = wish[i].op /\ r.who = wish[i].who
        /\ r.phase = "roles" /\ r.had = roles[a] /\ r.alone = wish[i].alone
    <3>1. roles[a] \in SUBSET RoleNames
      BY <1>0 DEF StoreTyped
    <3>2. QED
      BY <1>0, <2>3, <3>1 DEF WishRows
  <2>5. WellFormed(r)
    BY <1>0, <1>4, <2>4 DEF WellFormed, ReadRoles, OnAccounts, OnGroups
  <2>6. wish' = [wish EXCEPT ![i] = r] /\ UNCHANGED <<account, roles, members, due, sure, crowded>>
    BY <1>0, <1>4, <2>1, <2>3 DEF ReadRoles, Histories, WishesTyped
  <2>7. QED
    BY <1>0, <2>2, <2>4, <2>5, <2>6, RolesStatement DEF StoreTyped
<1>5. CASE DropRole(i)
  <2>1. wish[i].phase = "roles" /\ wish[i].op \in OnAccounts
    BY <1>0, <1>5 DEF DropRole, WellFormed
  <2>2. PICK a \in Accounts : wish[i].who = {a} /\ Whom(i) = a
    BY <2>1, WhomIs
  <2>3. AtIt(i, a)
    BY <2>1, <2>2 DEF AtIt, OnAccounts
  <2>4. PICK n \in wish[i].had, works \in BOOLEAN :
          /\ roles' = IF works THEN [roles EXCEPT ![a] = roles[a] \ {n}] ELSE roles
          /\ wish' = [wish EXCEPT ![i].had = wish[i].had \ {n}, ![i].alone = wish[i].alone /\ works]
    BY <1>0, <1>5, <2>2 DEF DropRole, WishesTyped, WishRows, StoreTyped
  <2>5. UNCHANGED <<account, members, due, sure, crowded>>
    BY <1>5 DEF DropRole, Histories
  <2>6. PICK al \in BOOLEAN : al = (wish[i].alone /\ works)
    OBVIOUS
  <2>7. PICK had \in SUBSET RoleNames : had = wish[i].had \ {n}
    BY <1>0 DEF WishRows
  <2>8. PICK r : r = [wish[i] EXCEPT !.had = had, !.alone = al]
    OBVIOUS
  <2>9. /\ r \in WishRows /\ r.op = wish[i].op /\ r.who = wish[i].who /\ r.group = wish[i].group
        /\ r.phase = "roles" /\ r.had = had /\ r.alone = al
    BY <1>0, <2>1, <2>8 DEF WishRows
  <2>10. WellFormed(r)
    BY <1>0, <2>1, <2>9 DEF WellFormed
  <2>11. wish' = [wish EXCEPT ![i] = r]
    BY <1>0, <2>4, <2>6, <2>7, <2>8 DEF WishesTyped, WishRows
  <2>12. /\ roles' \in [Accounts -> SUBSET RoleNames]
         /\ \A b \in Accounts \ {a} : roles'[b] = roles[b]
         /\ works => roles'[a] = roles[a] \ {n}
    BY <1>0, <2>4 DEF StoreTyped
  <2>13. al => wish[i].alone /\ roles'[a] \subseteq had
    <3> SUFFICES ASSUME al PROVE wish[i].alone /\ roles'[a] \subseteq had
      OBVIOUS
    <3>1. wish[i].alone /\ works
      BY <2>6
    <3>2. roles[a] \subseteq wish[i].had
      BY <1>0, <2>1, <2>3, <3>1 DEF ServerHolds, AloneKnows
    <3>3. QED
      BY <2>7, <2>12, <3>1, <3>2
  <2>14. QED
    BY <1>0, <2>3, <2>5, <2>9, <2>10, <2>11, <2>12, <2>13, RolesStatement DEF StoreTyped
<1>6. CASE GiveRole(i)
  <2>1. wish[i].phase = "roles" /\ wish[i].op \in OnAccounts /\ wish[i].had = {}
    BY <1>0, <1>6 DEF GiveRole, WellFormed
  <2>2. PICK a \in Accounts : wish[i].who = {a} /\ Whom(i) = a
    BY <2>1, WhomIs
  <2>3. AtIt(i, a)
    BY <2>1, <2>2 DEF AtIt, OnAccounts
  <2>4. PICK given \in SUBSET RoleNames :
          given = Given(i) /\ (given = {} <=> wish[i].op = "delete")
    <3>1. wish[i].role \in RoleNames
      BY <1>0 DEF WishRows, RoleNames
    <3>2. CASE wish[i].op = "delete"
      BY <3>2 DEF Given
    <3>3. CASE wish[i].op # "delete"
      BY <3>1, <3>3 DEF Given
    <3>4. QED
      BY <3>2, <3>3
  <2>5. PICK works \in BOOLEAN :
          /\ roles' = IF works THEN [roles EXCEPT ![a] = roles[a] \cup given] ELSE roles
          /\ IF wish[i].alone /\ works
             THEN due' = [due EXCEPT ![a] = given] /\ sure' = sure \cup {a}
             ELSE UNCHANGED <<due, sure>>
    BY <1>0, <1>6, <2>2, <2>4 DEF GiveRole, StoreTyped
  <2>6. UNCHANGED <<account, members, crowded>>
    BY <1>6 DEF GiveRole
  <2>7. PICK r : r = [wish[i] EXCEPT !.phase = "done", !.alone = TRUE]
    OBVIOUS
  <2>8. /\ r \in WishRows /\ r.op = wish[i].op /\ r.who = wish[i].who /\ r.group = wish[i].group
        /\ r.phase = "done"
    BY <1>0, <2>7 DEF WishRows
  <2>9. WellFormed(r)
    BY <1>0, <2>8 DEF WellFormed
  <2>10. wish' = [wish EXCEPT ![i] = r]
    BY <1>0, <1>6, <2>7 DEF GiveRole, WishesTyped, WishRows
  <2>11. /\ roles' \in [Accounts -> SUBSET RoleNames] /\ due' \in [Accounts -> SUBSET RoleNames]
         /\ \A b \in Accounts \ {a} : roles'[b] = roles[b] /\ due'[b] = due[b]
    BY <1>0, <2>5 DEF StoreTyped
  <2>12. ASSUME wish[i].alone, works
         PROVE  /\ sure' = sure \cup {a} /\ roles'[a] = due'[a]
                /\ account[a] = "ACTIVE" <=> roles'[a] # {}
    <3>1. /\ roles[a] = {}
          /\ account[a] = IF wish[i].op = "delete" THEN "gone" ELSE "ACTIVE"
      BY <1>0, <2>1, <2>3, <2>12 DEF ServerHolds, AloneKnows
    <3>2. roles'[a] = given /\ due'[a] = given /\ sure' = sure \cup {a}
      BY <1>0, <2>5, <2>12, <3>1 DEF StoreTyped
    <3>3. QED
      BY <2>4, <3>1, <3>2
  <2>13. ASSUME ~(wish[i].alone /\ works)
         PROVE  sure' = sure
    BY <2>5, <2>13
  <2>14. QED
    BY <1>0, <2>3, <2>6, <2>8, <2>9, <2>10, <2>11, <2>12, <2>13, RolesStatement
<1>7. CASE FindGroup(i)
  <2>1. /\ wish[i].op = "join" /\ wish[i].phase = "sent" /\ members[wish[i].group].here
        /\ PassTo(i, "row") /\ UNCHANGED <<account, roles, members, due, sure, crowded>>
    BY <1>7 DEF FindGroup, Doing, Histories
  <2>2. /\ WishesTyped' /\ PagesTyped' /\ FormsAgree'
        /\ wish'[i].op = wish[i].op /\ wish'[i].group = wish[i].group /\ wish'[i].phase = "row"
        /\ \A j \in Slots \ {i} : wish'[j] = wish[j]
    BY <1>0, <2>1, Passes
  <2>3. GroupsHold'
    BY <1>0, <2>1, <2>2 DEF ServerHolds, GroupsHold, Doing
  <2>4. QED
    BY <1>0, <2>1, <2>2, <2>3, GroupStatement DEF OnGroups, StoreTyped
<1>8. CASE AddMembers(i)
  <2>1. /\ wish[i].op = "join" /\ wish[i].phase = "row" /\ wish[i].group \in UserGroups
        /\ wish[i].who \subseteq Accounts /\ UNCHANGED <<account, roles, due, sure, crowded>>
    BY <1>0, <1>8 DEF AddMembers, Doing, WellFormed, OnGroups, WishRows, Histories
  <2>2. PICK phase \in {"done", "failed"} : PassTo(i, phase)
    BY <1>8 DEF AddMembers
  <2>3. /\ WishesTyped' /\ PagesTyped' /\ FormsAgree' /\ wish'[i].op = wish[i].op /\ wish'[i].phase = phase
        /\ \A j \in Slots \ {i} : wish'[j] = wish[j]
    BY <1>0, <2>2, Passes
  <2>4. PICK g \in UserGroups : g = wish[i].group
    BY <2>1
  <2>5. PICK row : row = [members[g] EXCEPT !.users = members[g].users \cup wish[i].who]
    OBVIOUS
  <2>6. row \in GroupRows /\ row.here = members[g].here
    BY <1>0, <2>1, <2>5 DEF StoreTyped, GroupRows
  <2>7. members' = [members EXCEPT ![g] = row] \/ members' = members
    BY <1>0, <1>8, <2>4, <2>5 DEF AddMembers, StoreTyped, GroupRows
  <2>8. /\ members' \in [UserGroups -> GroupRows] /\ members'[g].here = members[g].here
        /\ \A h \in UserGroups \ {g} : members'[h] = members[h]
    BY <1>0, <2>6, <2>7 DEF StoreTyped
  <2>9. members[g].here \/ g \in crowded
    BY <1>0, <2>1, <2>4 DEF ServerHolds, GroupsHold, Doing
  <2>10. \A j \in Slots : Doing(j, "join", "row")' => Doing(j, "join", "row") /\ wish'[j] = wish[j]
    BY <2>3 DEF Doing
  <2>11. GroupsHold'
    BY <1>0, <2>1, <2>8, <2>9, <2>10 DEF ServerHolds, GroupsHold
  <2>12. QED
    BY <1>0, <2>1, <2>3, <2>8, <2>11, GroupStatement DEF OnGroups, StoreTyped
<1>9. CASE TakeMember(i)
  <2>1. /\ wish[i].op = "leave" /\ wish[i].phase = "sent" /\ wish[i].group \in UserGroups
        /\ PassTo(i, "done") /\ UNCHANGED <<account, roles, due, sure, crowded>>
    BY <1>0, <1>9 DEF TakeMember, Doing, WellFormed, OnGroups, Histories
  <2>2. /\ WishesTyped' /\ PagesTyped' /\ FormsAgree' /\ wish'[i].op = wish[i].op /\ wish'[i].phase = "done"
        /\ \A j \in Slots \ {i} : wish'[j] = wish[j]
    BY <1>0, <2>1, Passes
  <2>3. PICK g \in UserGroups : g = wish[i].group
    BY <2>1
  <2>4. PICK row : row = [members[g] EXCEPT !.users = members[g].users \ wish[i].who]
    OBVIOUS
  <2>5. row \in GroupRows /\ row.here = members[g].here /\ row.users \subseteq members[g].users
    BY <1>0, <2>4 DEF StoreTyped, GroupRows
  <2>6. members' = [members EXCEPT ![g] = row]
    BY <1>0, <1>9, <2>3, <2>4 DEF TakeMember, StoreTyped, GroupRows
  <2>7. /\ members' \in [UserGroups -> GroupRows]
        /\ \A h \in UserGroups : members'[h].here = members[h].here /\ members'[h].users \subseteq members[h].users
    BY <1>0, <2>5, <2>6 DEF StoreTyped
  <2>8. \A j \in Slots : Doing(j, "join", "row")' => Doing(j, "join", "row") /\ wish'[j] = wish[j]
    BY <2>2 DEF Doing
  <2>9. GroupsHold'
    BY <1>0, <2>1, <2>7, <2>8 DEF ServerHolds, GroupsHold
  <2>10. QED
    BY <1>0, <2>1, <2>2, <2>7, <2>9, GroupStatement DEF OnGroups, StoreTyped
<1>10. CASE DropGroup(i)
  <2>1. /\ wish[i].op = "drop" /\ wish[i].phase = "sent" /\ wish[i].group \in UserGroups
        /\ PassTo(i, "done") /\ UNCHANGED <<account, roles, due, sure>>
    BY <1>0, <1>10 DEF DropGroup, Doing, WellFormed, OnGroups
  <2>2. /\ WishesTyped' /\ PagesTyped' /\ FormsAgree' /\ wish'[i].op = wish[i].op /\ wish'[i].phase = "done"
        /\ \A j \in Slots \ {i} : wish'[j] = wish[j]
    BY <1>0, <2>1, Passes
  <2>3. PICK g \in UserGroups : g = wish[i].group
    BY <2>1
  <2>4. /\ members' = [members EXCEPT ![g] = [here |-> FALSE, users |-> {}]]
        /\ crowded' = crowded \cup {h \in {g} : \E j \in Slots : Doing(j, "join", "row") /\ wish[j].group = h}
    BY <1>10, <2>3 DEF DropGroup
  <2>5. /\ members' \in [UserGroups -> GroupRows] /\ members'[g].users = {}
        /\ \A h \in UserGroups \ {g} : members'[h] = members[h]
    BY <1>0, <2>4 DEF StoreTyped, GroupRows
  <2>6. /\ crowded' \in SUBSET UserGroups /\ crowded \subseteq crowded'
        /\ g \notin crowded' => \A j \in Slots : ~(Doing(j, "join", "row") /\ wish[j].group = g)
    BY <1>0, <2>4 DEF StoreTyped
  <2>7. \A j \in Slots : Doing(j, "join", "row")' => Doing(j, "join", "row") /\ wish'[j] = wish[j]
    BY <2>2 DEF Doing
  <2>8. GroupsHold'
    BY <1>0, <2>5, <2>6, <2>7 DEF ServerHolds, GroupsHold
  <2>9. QED
    BY <1>0, <2>1, <2>2, <2>5, <2>6, <2>8, GroupStatement DEF OnGroups
<1>11. CASE Refuse(i)
  <2>1. wish[i].phase = "sent" /\ PassTo(i, "failed") /\ StoresUnchanged
    BY <1>11 DEF Refuse
  <2>2. /\ WishesTyped' /\ PagesTyped' /\ FormsAgree' /\ wish'[i].phase = "failed"
        /\ \A j \in Slots \ {i} : wish'[j] = wish[j]
    BY <1>0, <2>1, Passes
  <2>3. \A j \in Slots : wish'[j] = wish[j] \/ (~Busy(j) /\ ~Busy(j)')
    BY <2>1, <2>2 DEF Busy
  <2>4. QED
    BY <2>1, <2>2, <2>3, ServerKept DEF AccountInv
<1>12. QED
  BY <1>1, <1>2, <1>3, <1>4, <1>5, <1>6, <1>7, <1>8, <1>9, <1>10, <1>11 DEF Handles

-----------------------------------------------------------------------------
(* The answers.                                                            *)

(* A slot is free again; what the page makes of the answer is its affair.  *)
LEMMA SlotFreed ==
  ASSUME AccountInv, NEW i \in Slots, Answers(i)
  PROVE  /\ WishesTyped' /\ wish[i].phase \in {"done", "failed"} /\ wish'[i] = Still
         /\ \A j \in Slots \ {i} : wish'[j] = wish[j]
         /\ \A j \in Slots : wish'[j] = wish[j] \/ (~Busy(j) /\ ~Busy(j)')
<1>1. wish \in [Slots -> WishRows] /\ \A j \in Slots : WellFormed(wish[j])
  BY DEF AccountInv, WishesTyped
<1>2. wish' = [wish EXCEPT ![i] = Still] /\ wish[i].phase \in {"done", "failed"}
  BY DEF Answers
<1>3. Still \in WishRows /\ Still.op = "none" /\ Still.phase = "none" /\ WellFormed(Still)
  BY DEF Still, WishRows, RoleKeys, RoleNames, WellFormed, OnAccounts, OnGroups
<1>4. wish'[i] = Still /\ \A j \in Slots \ {i} : wish'[j] = wish[j]
  BY <1>1, <1>2
<1>5. WishesTyped'
  BY <1>1, <1>2, <1>3, <1>4 DEF WishesTyped, WellFormed
<1>6. ~Busy(i) /\ ~Busy(i)'
  BY <1>2, <1>3, <1>4 DEF Busy
<1>7. QED
  BY <1>2, <1>4, <1>5, <1>6

(* Only the answer to a request of a form closes it or ends its saving.    *)
LEMMA PageIs ==
  ASSUME office \in OfficeRows, NEW i \in Slots, NEW page, page = Page(i)
  PROVE  /\ page \in OfficeRows
         /\ ~FromForm(i) => page = office
         /\ page.drawer = (IF wish[i].op = "save" /\ wish[i].phase = "done" THEN "closed" ELSE office.drawer)
         /\ page.dialog => office.dialog
         /\ page.joining => office.joining
<1> USE DEF OfficeRows, Page, FromForm
<1>1. CASE wish[i].op = "save"
  BY <1>1
<1>2. CASE wish[i].op = "create"
  BY <1>2
<1>3. CASE wish[i].op = "join"
  BY <1>3
<1>4. CASE wish[i].op \notin {"save", "create", "join"}
  BY <1>4
<1>5. QED
  BY <1>1, <1>2, <1>3, <1>4

LEMMA AnswersKeeps ==
  ASSUME AccountInv, NEW i \in Slots, Answers(i)
  PROVE  AccountInv'
<1>1. PagesTyped /\ FormsAgree /\ office \in OfficeRows
  BY DEF AccountInv, PagesTyped
<1>2. office' = Page(i) /\ StoresUnchanged /\ UNCHANGED <<hasty, wishes>>
  BY DEF Answers
<1>3. /\ WishesTyped' /\ wish'[i] = Still
      /\ \A j \in Slots \ {i} : wish'[j] = wish[j]
      /\ \A j \in Slots : wish'[j] = wish[j] \/ (~Busy(j) /\ ~Busy(j)')
  BY SlotFreed
<1>4. PICK page : page = Page(i)
  OBVIOUS
<1>5. /\ page \in OfficeRows
      /\ ~FromForm(i) => page = office
      /\ page.drawer \in {"closed", office.drawer}
      /\ page.dialog => office.dialog
      /\ page.joining => office.joining
  BY <1>1, <1>4, PageIs
<1>6. PagesTyped'
  BY <1>1, <1>2, <1>4, <1>5 DEF PagesTyped
<1>7. StoreTyped' /\ ServerHolds'
  BY <1>2, <1>3, <1>6, ServerKept
<1>8. FormsAgree'
  <2>1. ~FromForm(i)'
    BY <1>3 DEF FromForm, Still
  <2>2. CASE FromForm(i)
    <3>1. ~hasty => \A j \in Slots : ~FromForm(j)'
      BY <1>1, <1>3, <2>1, <2>2 DEF FormsAgree, FromForm
    <3>2. QED
      BY <1>1, <1>2, <1>4, <1>5, <3>1 DEF FormsAgree
  <2>3. CASE ~FromForm(i)
    <3>1. \A j \in Slots : FromForm(j)' => FromForm(j) /\ wish'[j] = wish[j]
      BY <1>3, <2>1 DEF FromForm
    <3>2. office' = office
      BY <1>2, <1>4, <1>5, <2>3
    <3>3. QED
      BY <1>1, <1>2, <3>1, <3>2 DEF FormsAgree
  <2>4. QED
    BY <2>2, <2>3
<1>9. QED
  BY <1>3, <1>6, <1>7, <1>8 DEF AccountInv

-----------------------------------------------------------------------------
(* What holds of accounts, groups and pages.                               *)

(* A stop of the server leaves every handler where it was, and nobody at   *)
(* any account.                                                            *)
LEMMA RestartKeeps ==
  ASSUME AccountInv, StartServer
  PROVE  AccountInv'
<1>0. StoreTyped /\ WishesTyped /\ ServerHolds /\ Super \in Accounts
  BY AccountAssumption DEF AccountInv
<1>1. /\ UNCHANGED <<account, members, office, sure, crowded, hasty, wishes>>
      /\ roles' = [roles EXCEPT ![Super] = roles[Super] \cup {"admin"}]
      /\ due' = [due EXCEPT ![Super] = due[Super] \cup {"admin"}]
  BY <1>0 DEF StartServer, StoreTyped
<1>2. ASSUME NEW j \in Slots
      PROVE  /\ wish'[j] \in WishRows /\ WellFormed(wish'[j]) /\ ~Busy(j)'
             /\ wish'[j].op = wish[j].op /\ wish'[j].who = wish[j].who
  <2>1. wish[j] \in WishRows /\ WellFormed(wish[j])
    BY <1>0 DEF WishesTyped
  <2>2. CASE wish[j].phase \in {"sent", "row", "roles"}
    <3>1. PICK r : r = [wish[j] EXCEPT !.phase = "failed", !.had = {}, !.alone = TRUE]
      OBVIOUS
    <3>2. wish'[j] = r
      BY <2>2, <3>1 DEF StartServer
    <3>3. r \in WishRows /\ r.op = wish[j].op /\ r.who = wish[j].who /\ r.group = wish[j].group /\ r.phase = "failed"
      BY <2>1, <3>1 DEF WishRows
    <3>4. QED
      BY <2>1, <3>2, <3>3 DEF WellFormed, Busy
  <2>3. CASE wish[j].phase \notin {"sent", "row", "roles"}
    <3>1. wish'[j] = wish[j]
      BY <2>3 DEF StartServer
    <3>2. QED
      BY <2>1, <2>3, <3>1 DEF Busy
  <2>4. QED
    BY <2>2, <2>3
<1>3. wish' \in [Slots -> WishRows]
  <2>1. wish' = [j \in Slots |-> wish'[j]]
    BY DEF StartServer
  <2>2. QED
    BY <1>2, <2>1
<1>4. WishesTyped' /\ PagesTyped' /\ FormsAgree'
  BY <1>1, <1>2, <1>3, GoesOn
<1>5. /\ roles' \in [Accounts -> SUBSET RoleNames] /\ roles'[Super] = roles[Super] \cup {"admin"}
      /\ due' \in [Accounts -> SUBSET RoleNames] /\ due'[Super] = due[Super] \cup {"admin"}
      /\ \A a \in Accounts \ {Super} : roles'[a] = roles[a] /\ due'[a] = due[a]
  BY <1>0, <1>1 DEF StoreTyped, RoleNames
<1>6. \A j \in Slots, a \in Accounts : ~AtIt(j, a)' /\ ~Doing(j, "join", "row")'
  BY <1>2 DEF AtIt, Busy, Doing
<1>7. StoreTyped'
  BY <1>0, <1>1, <1>5 DEF StoreTyped
<1>8. AloneKnows'
  BY <1>6 DEF AloneKnows
<1>9. SureHold'
  BY <1>0, <1>1, <1>5, <1>6 DEF ServerHolds, SureHold, StoreTyped
<1>10. FreshHold'
  BY <1>0, <1>1, <1>5, <1>6 DEF ServerHolds, FreshHold
<1>11. GroupsHold'
  BY <1>0, <1>1, <1>2 DEF ServerHolds, GroupsHold, Doing, Busy
<1>12. QED
  BY <1>0, <1>1, <1>4, <1>7, <1>8, <1>9, <1>10, <1>11 DEF AccountInv, ServerHolds

LEMMA AccountStart == AccountInit => AccountInv
<1> SUFFICES ASSUME AccountInit PROVE AccountInv
  OBVIOUS
<1> USE AccountAssumption
<1>1. PICK here \in SUBSET Accounts :
        /\ Super \in here
        /\ account = [a \in Accounts |-> IF a \in here THEN "ACTIVE" ELSE "none"]
        /\ roles = [a \in Accounts |-> IF a = Super THEN {"admin"} ELSE IF a \in here THEN {"client"} ELSE {}]
  BY DEF AccountInit
<1>2. /\ members = [g \in UserGroups |-> [here |-> TRUE, users |-> {}]]
      /\ office = Closed /\ wish = [i \in Slots |-> Still]
      /\ due = roles /\ sure = Accounts /\ crowded = {} /\ hasty = FALSE /\ wishes = 0
  BY DEF AccountInit
<1>3. StoreTyped /\ account[Super] = "ACTIVE"
  BY <1>1, <1>2 DEF StoreTyped, RoleNames, GroupRows
<1>4. PagesTyped
  <2>1. Closed \in OfficeRows
    BY DEF Closed, OfficeRows, RoleKeys
  <2>2. wishes \in 0..MaxWishes
    BY <1>2, AccountAssumption
  <2>3. QED
    BY <1>2, <2>1, <2>2 DEF PagesTyped
<1>5. Still \in WishRows /\ Still.op = "none" /\ Still.phase = "none"
  BY DEF Still, WishRows, RoleKeys, RoleNames
<1>6. WishesTyped /\ \A i \in Slots : wish[i].phase = "none" /\ ~FromForm(i)
  <2>1. WellFormed(Still)
    BY <1>5 DEF WellFormed, OnAccounts, OnGroups
  <2>2. QED
    BY <1>2, <1>5, <2>1 DEF WishesTyped, WellFormed, FromForm
<1>7. \A i \in Slots, a \in Accounts : ~AtIt(i, a)
  BY <1>6 DEF AtIt
<1>8. ServerHolds
  BY <1>1, <1>2, <1>3, <1>7 DEF ServerHolds, AloneKnows, SureHold, FreshHold, GroupsHold
<1>9. FormsAgree
  BY <1>2, <1>6 DEF FormsAgree, Closed
<1>10. QED
  BY <1>3, <1>4, <1>6, <1>8, <1>9 DEF AccountInv

LEMMA AccountStep == AccountInv /\ [AccountNext]_accountVars => AccountInv'
<1> SUFFICES ASSUME AccountInv, [AccountNext]_accountVars PROVE AccountInv'
  OBVIOUS
<1>1. CASE UNCHANGED accountVars
  <2>1. StoresUnchanged /\ UNCHANGED <<office, wish, hasty, wishes>>
    BY <1>1 DEF accountVars, StoresUnchanged, Histories
  <2>2. WishesTyped' /\ PagesTyped' /\ FormsAgree'
    BY <2>1 DEF AccountInv, WishesTyped, WellFormed, PagesTyped, FormsAgree, FromForm
  <2>3. QED
    BY <2>1, <2>2, ServerKept DEF AccountInv
<1>2. QED
  BY <1>1, OfficeKeeps, RestartKeeps, HandlesKeeps, AnswersKeeps DEF AccountNext

(* However handlers interleave with each other and with what is done on    *)
(* the pages: a handler finds what it left as long as it is alone, and     *)
(* each form waits for its own request until it is closed in haste.        *)
THEOREM AccountInvariant == AccountSpec => []AccountInv
BY AccountStart, AccountStep, PTL DEF AccountSpec

LEMMA AccountTyped == AccountInv => AccountTypeOK
BY DEF AccountInv, StoreTyped, PagesTyped, WishesTyped, AccountTypeOK, WishRows, GroupRows, OfficeRows

(* The types of the rows, of the pages and of the requests.                *)
THEOREM AccountTypes == AccountSpec => []AccountTypeOK
BY AccountTyped, AccountInvariant, PTL

(* A handler that comes through alone leaves an account with the roles it  *)
(* gives and no other, whatever handlers that overlapped, role statements  *)
(* that failed unseen and stops of the server had left before; and only a  *)
(* joining that had found it brings members to a group that is gone.       *)
THEOREM LastHandlerIsObeyed == AccountSpec => []LastHandlerDecides
<1>1. AccountInv => LastHandlerDecides
  BY DEF AccountInv, ServerHolds, SureHold, GroupsHold, LastHandlerDecides
<1>2. QED
  BY <1>1, AccountInvariant, PTL

(* The drawer is closed by the answer to its own save, or in haste.        *)
THEOREM DrawerKeepsToItsAccount == AccountSpec => DrawerClosesForItsOwn
<1> DEFINE ItsOwn ==
      ~hasty /\ office.drawer # "closed" /\ office'.drawer = "closed" /\ office.saving
        => \E i \in Slots : \/ wish[i].who = {office.drawer} /\ wish[i].phase = "done"
                            \/ hasty'
<1>1. AccountInv /\ [AccountNext]_accountVars => [ItsOwn]_accountVars
  <2> SUFFICES ASSUME AccountInv, AccountNext,
                      ~hasty, office.drawer # "closed", office'.drawer = "closed", office.saving
               PROVE  \E i \in Slots : \/ wish[i].who = {office.drawer} /\ wish[i].phase = "done"
                                      \/ hasty'
    OBVIOUS
  <2>1. office \in OfficeRows /\ FormsAgree /\ office.drawer \in Accounts
    BY DEF AccountInv, PagesTyped, OfficeRows
  <2>2. ASSUME NEW i \in Slots, Answers(i)
        PROVE  wish[i].who = {office.drawer} /\ wish[i].phase = "done"
    <3>1. PICK page : page = Page(i)
      OBVIOUS
    <3>2. page.drawer = (IF wish[i].op = "save" /\ wish[i].phase = "done" THEN "closed" ELSE office.drawer)
      BY <2>1, <3>1, PageIs
    <3>3. office' = page
      BY <2>2, <3>1 DEF Answers
    <3>4. wish[i].op = "save" /\ wish[i].phase = "done"
      BY <3>2, <3>3
    <3>5. QED
      BY <2>1, <3>4 DEF FormsAgree, FromForm
  <2>3. CASE CloseForms
    BY <2>3, AccountAssumption DEF CloseForms
  <2>4. CASE OfficeActs /\ ~CloseForms
    <3>1. office'.drawer = office.drawer \/ office'.drawer \in Accounts
      BY <2>1, <2>4 DEF OfficeActs, OpenEdit, DeleteUser, OpenJoin, CreateUser, JoinGroup, DeleteGroup,
           RemoveMember, ChooseRole, OpenCreate, SaveUser, OfficeRows
    <3>2. QED
      BY <3>1, AccountAssumption
  <2>5. ASSUME StartServer \/ \E i \in Slots : Handles(i)
        PROVE  office' = office
    BY <2>5 DEF StartServer, Handles
  <2>6. QED
    BY <2>2, <2>3, <2>4, <2>5 DEF AccountNext
<1>. HIDE DEF ItsOwn
<1>2. AccountSpec => [][ItsOwn]_accountVars
  BY <1>1, AccountInvariant, PTL DEF AccountSpec
<1>3. QED
  BY <1>2, PTL DEF DrawerClosesForItsOwn, ItsOwn

-----------------------------------------------------------------------------
(***************************************************************************)
(* One subject beside the others.                                          *)
(***************************************************************************)
(* The rows of a subject that is not worked on stay as they are; those of  *)
(* the one that is are changed by its own steps only.                      *)
EachSubject == OptionsInv /\ ListsInv /\ ConsoleInv /\ AccountInv

LEMMA RowsStart == RowsInit => EachSubject
BY OptionsStart, ListsStart, ConsoleStart, AccountStart DEF RowsInit, EachSubject

LEMMA RowsStep == EachSubject /\ [RowsNext]_rowVars => EachSubject'
<1> SUFFICES ASSUME EachSubject, [RowsNext]_rowVars PROVE EachSubject'
  OBVIOUS
<1>1. /\ [OptionsNext]_optionVars /\ [ListsNext]_listVars
      /\ [ConsoleNext]_consoleVars /\ [AccountNext]_accountVars
  <2>1. CASE RowsNext
    BY <2>1 DEF RowsNext
  <2>2. CASE UNCHANGED rowVars
    BY <2>2 DEF rowVars
  <2>3. QED
    BY <2>1, <2>2
<1>2. QED
  BY <1>1, OptionsStep, ListsStep, ConsoleStep, AccountStep DEF EachSubject

(* For any constants at once: options, lists, exam and accounts, one       *)
(* beside the other, keep all that each keeps on its own.                  *)
THEOREM RowsInvariant == RowsSpec => []EachSubject
BY RowsStart, RowsStep, PTL DEF RowsSpec

(* Whichever rows are worked on, they, the pages and the requests about    *)
(* them stay of their types.                                               *)
THEOREM RowsTypes == RowsSpec => []RowsTypeOK
<1>1. EachSubject => RowsTypeOK
  BY ListsTyped, AccountTyped DEF EachSubject, OptionsInv, ConsoleInv, RowsTypeOK
<1>2. QED
  BY <1>1, RowsInvariant, PTL
=============================================================================
