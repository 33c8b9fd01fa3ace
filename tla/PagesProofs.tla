----------------------------- MODULE PagesProofs -----------------------------
(***************************************************************************)
(* The pages of the console, for any questions, exams, entries and bounds. *)
(* Each page is a form beside requests that are on their way, and its      *)
(* properties are about the form; the invariants say what the requests on  *)
(* their way carry, whom they are for and what the server has made of them *)
(* so far.                                                                 *)
(***************************************************************************)
EXTENDS MCAdminPages, OptionsEditorProofs, FiniteSetTheorems, SequenceTheorems, TLAPS

(***************************************************************************)
(* Signing in.  A page acts as the user it shows, for any number of tabs,  *)
(* people and logins.  The invariant follows the token of a tab from the   *)
(* request for its user to the requests for data (TabAgrees); a step       *)
(* concerns one tab, and no login changes the owner of an older token      *)
(* (OthersKept).                                                           *)
(***************************************************************************)
(* The user a tab shows is the owner of its copy of the token; the request *)
(* for the user was made with that copy, by a page that shows nobody yet   *)
(* and asks for nothing else; and so were the requests for data.           *)
UserAgrees(t) ==
  visit[t].user # Nobody => visit[t].token # 0 /\ owner[visit[t].token] = visit[t].user

MeAgrees(t) ==
  call[t].op = "me" =>
    /\ visit[t].at = "checking" /\ work[t] = Silent
    /\ call[t].token = visit[t].token /\ visit[t].token # 0
    /\ call[t].reply = "ok" => call[t].who = owner[visit[t].token]

DataAgrees(t) ==
  work[t].op = "data" /\ visit[t].user # Nobody /\ visit[t].at \in {"home", "barred"} =>
    work[t].token # 0 /\ owner[work[t].token] = visit[t].user

(* A request to sign in carries a name.                                    *)
LoginAgrees(t) == call[t].op = "login" => call[t].who \in People

TabAgrees(t) == UserAgrees(t) /\ MeAgrees(t) /\ LoginAgrees(t) /\ DataAgrees(t)

AuthInv == AuthTypeOK /\ \A t \in AuthTabs : TabAgrees(t)

-----------------------------------------------------------------------------
(* Steps of one tab.                                                       *)

(* The owners of the tokens issued so far stay.                            *)
OwnersKept ==
  /\ owner' \in Seq(People) /\ Len(owner') >= Len(owner)
  /\ \A k \in 1..Len(owner) : owner'[k] = owner[k]

(* Nothing of another tab changes.                                         *)
OthersKept(t) ==
  \A u \in AuthTabs \ {t} : visit'[u] = visit[u] /\ call'[u] = call[u] /\ work'[u] = work[u]

(* The other tabs agree with their tokens as before.                       *)
LEMMA OthersAgree ==
  ASSUME AuthInv, NEW t \in AuthTabs, OwnersKept, OthersKept(t), NEW u \in AuthTabs \ {t}
  PROVE  TabAgrees(u)'
<1>1. TabAgrees(u) /\ visit[u].token \in 0..Len(owner) /\ work[u].token \in 0..Len(owner)
  BY DEF AuthInv, AuthTypeOK, Visits, TokenCalls
<1>2. visit'[u] = visit[u] /\ call'[u] = call[u] /\ work'[u] = work[u]
  BY DEF OthersKept
<1>3. Len(owner) \in Nat
  BY DEF AuthInv, AuthTypeOK
<1>4. \A k \in 0..Len(owner) : k # 0 => owner'[k] = owner[k]
  BY <1>3 DEF OwnersKept
<1>5. QED
  BY <1>1, <1>2, <1>4 DEF TabAgrees, UserAgrees, MeAgrees, LoginAgrees, DataAgrees

(* A step of one tab keeps the invariant, if it keeps the types and that   *)
(* tab's agreement.                                                        *)
LEMMA TabStep ==
  ASSUME AuthInv, NEW t \in AuthTabs, AuthTypeOK', OwnersKept, OthersKept(t), TabAgrees(t)'
  PROVE  AuthInv'
<1>1. ASSUME NEW u \in AuthTabs
      PROVE  TabAgrees(u)'
  <2>1. CASE u = t
    BY <2>1
  <2>2. CASE u # t
    BY <2>2, OthersAgree
  <2>3. QED
    BY <2>1, <2>2
<1>2. QED
  BY <1>1 DEF AuthInv

(* Where no token is issued, every owner stays.                            *)
LEMMA SameOwners ==
  ASSUME AuthInv, owner' = owner
  PROVE  OwnersKept
BY DEF AuthInv, AuthTypeOK, OwnersKept

(* Typing of a step that issues no token: one page and its requests.       *)
LEMMA TypesKept ==
  ASSUME AuthInv, NEW t \in AuthTabs, owner' = owner,
         spent' \in SUBSET (1..Len(owner)), stored' \in 0..Len(owner),
         NEW v \in Visits(Len(owner)), visit' = [visit EXCEPT ![t] = v],
         NEW c \in TokenCalls(Len(owner)), call' = [call EXCEPT ![t] = c],
         NEW w \in TokenCalls(Len(owner)), work' = [work EXCEPT ![t] = w]
  PROVE  /\ AuthTypeOK' /\ OwnersKept /\ OthersKept(t)
         /\ visit'[t] = v /\ call'[t] = c /\ work'[t] = w
BY SameOwners DEF AuthInv, AuthTypeOK, OthersKept

(* The records of a tab.                                                   *)
LEMMA TabTyped ==
  ASSUME AuthInv, NEW t \in AuthTabs
  PROVE  /\ visit[t] \in Visits(Len(owner)) /\ visit = [visit EXCEPT ![t] = visit[t]]
         /\ call[t] \in TokenCalls(Len(owner)) /\ call = [call EXCEPT ![t] = call[t]]
         /\ work[t] \in TokenCalls(Len(owner)) /\ work = [work EXCEPT ![t] = work[t]]
         /\ Silent \in TokenCalls(Len(owner)) /\ AtLogin \in Visits(Len(owner))
         /\ Len(owner) \in Nat /\ stored \in 0..Len(owner) /\ spent \in SUBSET (1..Len(owner))
         /\ AccessToken(t) \in 0..Len(owner)
BY DEF AuthInv, AuthTypeOK, Visits, TokenCalls, Silent, AtLogin, Persons, AccessToken

(* A tab that shows nobody and has no request of its own agrees with       *)
(* anything.                                                               *)
LEMMA NobodyAgrees ==
  ASSUME NEW t \in AuthTabs, visit'[t].user = Nobody, call'[t].op \notin {"me", "login"}
  PROVE  TabAgrees(t)'
BY DEF TabAgrees, UserAgrees, MeAgrees, LoginAgrees, DataAgrees

-----------------------------------------------------------------------------
(* The page.                                                               *)

(* A page is loaded: it shows nobody and asks who its token's user is.     *)
LEMMA LoadKeeps ==
  ASSUME AuthInv, NEW t \in AuthTabs, LoadPage(t)
  PROVE  AuthInv'
<1>1. CASE stored = 0
  <2>1. /\ visit' = [visit EXCEPT ![t] = AtLogin] /\ call' = [call EXCEPT ![t] = Silent]
        /\ work' = [work EXCEPT ![t] = Silent] /\ UNCHANGED <<owner, spent, stored>>
    BY <1>1 DEF LoadPage
  <2>2. /\ AuthTypeOK' /\ OwnersKept /\ OthersKept(t)
        /\ visit'[t] = AtLogin /\ call'[t] = Silent
    BY <2>1, TabTyped, TypesKept
  <2>3. QED
    BY <2>2, NobodyAgrees, TabStep DEF AtLogin, Silent
<1>2. CASE stored # 0
  <2>1. DEFINE v == [at |-> "checking", token |-> stored, user |-> Nobody]
               c == [op |-> "me", token |-> stored, who |-> Nobody, reply |-> "none"]
  <2>2. /\ visit' = [visit EXCEPT ![t] = v] /\ call' = [call EXCEPT ![t] = c]
        /\ work' = [work EXCEPT ![t] = Silent] /\ UNCHANGED <<owner, spent, stored>>
    BY <1>2 DEF LoadPage, Sends
  <2>3. v \in Visits(Len(owner)) /\ c \in TokenCalls(Len(owner))
    BY TabTyped DEF Visits, TokenCalls, Persons
  <2>. HIDE DEF v, c
  <2>4. stored' \in 0..Len(owner) /\ spent' \in SUBSET (1..Len(owner)) /\ owner' = owner
    BY <2>2, TabTyped
  <2>5. /\ AuthTypeOK' /\ OwnersKept /\ OthersKept(t)
        /\ visit'[t] = v /\ call'[t] = c /\ work'[t] = Silent
    BY <2>2, <2>3, <2>4, TabTyped, TypesKept
  <2>6. TabAgrees(t)'
    BY <1>2, <2>5 DEF v, c, TabAgrees, UserAgrees, MeAgrees, LoginAgrees, DataAgrees
  <2>7. QED
    BY <2>5, <2>6, TabStep
<1>3. QED
  BY <1>1, <1>2

(* The ways to the login page, and out of it.                              *)
LEMMA LoginPageKeeps ==
  ASSUME AuthInv, NEW t \in AuthTabs,
         \/ VisitLogin(t) \/ LogoutReturns(t) \/ LoginReturns(t) \/ \E p \in People : SubmitLogin(t, p)
  PROVE  AuthInv'
<1>1. CASE VisitLogin(t) \/ LogoutReturns(t)
  <2>1. /\ visit' = [visit EXCEPT ![t] = AtLogin] /\ call' = [call EXCEPT ![t] = Silent]
        /\ work' = [work EXCEPT ![t] = Silent] /\ owner' = owner /\ spent' = spent
        /\ stored' \in 0..Len(owner)
    BY <1>1, TabTyped DEF VisitLogin, LogoutReturns
  <2>2. /\ AuthTypeOK' /\ OwnersKept /\ OthersKept(t)
        /\ visit'[t] = AtLogin /\ call'[t] = Silent
    BY <2>1, TabTyped, TypesKept
  <2>3. QED
    BY <2>2, NobodyAgrees, TabStep DEF AtLogin, Silent
<1>2. ASSUME NEW p \in People, SubmitLogin(t, p)
      PROVE  AuthInv'
  <2>1. DEFINE c == [op |-> "login", token |-> 0, who |-> p, reply |-> "none"]
  <2>2. /\ call' = [call EXCEPT ![t] = c] /\ UNCHANGED <<owner, spent, stored, visit, work>>
    BY <1>2 DEF SubmitLogin, Sends
  <2>3. c \in TokenCalls(Len(owner))
    BY TabTyped DEF TokenCalls, Persons
  <2>4. /\ AuthTypeOK' /\ OwnersKept /\ OthersKept(t)
        /\ visit'[t] = visit[t] /\ call'[t] = c /\ work'[t] = work[t]
    BY <2>2, <2>3, TabTyped, TypesKept
  <2>5. TabAgrees(t)'
    BY <2>2, <2>4 DEF AuthInv, TabAgrees, UserAgrees, MeAgrees, LoginAgrees, DataAgrees
  <2>6. QED
    BY <2>4, <2>5, TabStep
<1>3. CASE LoginReturns(t)
  <2>1. DEFINE v == IF call[t].reply = "ok"
                    THEN [at |-> "entering", token |-> call[t].token, user |-> Nobody] ELSE visit[t]
  <2>2. /\ visit' = [visit EXCEPT ![t] = v] /\ call' = [call EXCEPT ![t] = Silent]
        /\ stored' \in 0..Len(owner) /\ UNCHANGED <<owner, spent, work>>
    BY <1>3, TabTyped DEF LoginReturns, TokenCalls
  <2>3. v \in Visits(Len(owner))
    BY TabTyped DEF Visits, TokenCalls, Persons
  <2>4. /\ AuthTypeOK' /\ OwnersKept /\ OthersKept(t)
        /\ visit'[t] = v /\ call'[t] = Silent /\ work'[t] = work[t]
    BY <2>2, <2>3, TabTyped, TypesKept
  <2>5. TabAgrees(t)'
    BY <2>2, <2>4 DEF AuthInv, TabAgrees, UserAgrees, MeAgrees, LoginAgrees, DataAgrees, Silent
  <2>6. QED
    BY <2>4, <2>5, TabStep
<1>4. QED
  BY <1>1, <1>2, <1>3

(* The answer about the user: it is the owner of the token, or nobody.     *)
LEMMA MeReturnsKeeps ==
  ASSUME AuthInv, NEW t \in AuthTabs, MeReturns(t)
  PROVE  AuthInv'
<1>1. PICK at \in {"login", "barred", "home"} :
        visit' = [visit EXCEPT ![t].at = at, ![t].user = IF call[t].reply = "ok" THEN call[t].who ELSE Nobody]
  BY DEF MeReturns
<1>2. DEFINE v == [visit[t] EXCEPT !.at = at, !.user = IF call[t].reply = "ok" THEN call[t].who ELSE Nobody]
<1>3. v \in Visits(Len(owner)) /\ v.token = visit[t].token
      /\ v.user = IF call[t].reply = "ok" THEN call[t].who ELSE Nobody
  BY TabTyped DEF Visits, TokenCalls, Persons
<1>4. visit' = [visit EXCEPT ![t] = v]
  BY <1>1, TabTyped
<1>. HIDE DEF v
<1>5. /\ call' = [call EXCEPT ![t] = Silent] /\ work' = work /\ owner' = owner
      /\ stored' \in 0..Len(owner) /\ spent' \in SUBSET (1..Len(owner))
  BY TabTyped DEF MeReturns
<1>6. /\ AuthTypeOK' /\ OwnersKept /\ OthersKept(t)
      /\ visit'[t] = v /\ call'[t] = Silent /\ work'[t] = work[t]
  BY <1>3, <1>4, <1>5, TabTyped, TypesKept
<1>7. MeAgrees(t) /\ call[t].op = "me"
  BY DEF MeReturns, AuthInv, TabAgrees
<1>8. TabAgrees(t)'
  BY <1>3, <1>5, <1>6, <1>7 DEF TabAgrees, UserAgrees, MeAgrees, LoginAgrees, DataAgrees, Silent
<1>9. QED
  BY <1>6, <1>8, TabStep

(* A request for data is made with the copy of the token.                  *)
LEMMA DataKeeps ==
  ASSUME AuthInv, NEW t \in AuthTabs, AskForData(t) \/ DataReturns(t)
  PROVE  AuthInv'
<1>1. TabAgrees(t)
  BY DEF AuthInv
<1>2. CASE AskForData(t)
  <2>1. DEFINE w == [op |-> "data", token |-> AccessToken(t), who |-> Nobody, reply |-> "none"]
  <2>2. w \in TokenCalls(Len(owner))
    BY TabTyped DEF TokenCalls, Persons
  <2>3. work' = [work EXCEPT ![t] = w]
    BY <1>2 DEF AskForData
  <2>. HIDE DEF w
  <2>4. /\ visit' = visit /\ call' = call /\ owner' = owner
        /\ stored' \in 0..Len(owner) /\ spent' \in SUBSET (1..Len(owner))
    BY <1>2, TabTyped DEF AskForData
  <2>5. /\ AuthTypeOK' /\ OwnersKept /\ OthersKept(t)
        /\ visit'[t] = visit[t] /\ call'[t] = call[t] /\ work'[t] = w
    BY <2>2, <2>3, <2>4, TabTyped, TypesKept
  <2>6. visit[t].at = "home"
    BY <1>2 DEF AskForData
  <2>7. visit[t].user # Nobody => AccessToken(t) # 0 /\ owner[AccessToken(t)] = visit[t].user
    BY <1>1 DEF TabAgrees, UserAgrees, AccessToken
  <2>8. w.token = AccessToken(t)
    BY DEF w
  <2>9. TabAgrees(t)'
    BY <1>1, <2>4, <2>5, <2>6, <2>7, <2>8 DEF TabAgrees, UserAgrees, MeAgrees, LoginAgrees, DataAgrees
  <2>10. QED
    BY <2>5, <2>9, TabStep
<1>3. CASE DataReturns(t)
  <2>1. /\ work' = [work EXCEPT ![t] = Silent] /\ owner' = owner
        /\ stored' \in 0..Len(owner) /\ spent' \in SUBSET (1..Len(owner))
    BY <1>3, TabTyped DEF DataReturns
  <2>2. CASE visit' = visit /\ call' = call
    <3>1. /\ AuthTypeOK' /\ OwnersKept /\ OthersKept(t)
          /\ visit'[t] = visit[t] /\ call'[t] = call[t] /\ work'[t] = Silent
      BY <2>1, <2>2, TabTyped, TypesKept
    <3>2. TabAgrees(t)'
      BY <1>1, <2>1, <3>1 DEF TabAgrees, UserAgrees, MeAgrees, LoginAgrees, DataAgrees, Silent
    <3>3. QED
      BY <3>1, <3>2, TabStep
  <2>3. CASE visit' = [visit EXCEPT ![t] = AtLogin] /\ call' = [call EXCEPT ![t] = Silent]
    <3>1. /\ AuthTypeOK' /\ OwnersKept /\ OthersKept(t)
          /\ visit'[t] = AtLogin /\ call'[t] = Silent
      BY <2>1, <2>3, TabTyped, TypesKept
    <3>2. QED
      BY <3>1, NobodyAgrees, TabStep DEF AtLogin, Silent
  <2>4. QED
    BY <1>3, <2>2, <2>3 DEF DataReturns
<1>4. QED
  BY <1>2, <1>3

(* The token to revoke is the copy again; the user may be dropped.         *)
LEMMA AskToLogoutKeeps ==
  ASSUME AuthInv, NEW t \in AuthTabs, AskToLogout(t)
  PROVE  AuthInv'
<1>1. DEFINE v == [visit[t] EXCEPT !.at = "leaving", !.user = IF visit[t].at = "home" THEN Nobody ELSE @]
             c == [op |-> "logout", token |-> AccessToken(t), who |-> Nobody, reply |-> "none"]
<1>2. /\ v \in Visits(Len(owner)) /\ v.at = "leaving" /\ v.token = visit[t].token
      /\ v.user \in {Nobody, visit[t].user}
  BY TabTyped DEF Visits, Persons
<1>3. c \in TokenCalls(Len(owner)) /\ c.op = "logout"
  BY TabTyped DEF TokenCalls, Persons
<1>4. visit' = [visit EXCEPT ![t] = v]
  BY TabTyped DEF AskToLogout, AuthInv, AuthTypeOK
<1>5. call' = [call EXCEPT ![t] = c]
  BY DEF AskToLogout, Sends
<1>. HIDE DEF v, c
<1>6. /\ work' = work /\ owner' = owner
      /\ stored' \in 0..Len(owner) /\ spent' \in SUBSET (1..Len(owner))
  BY TabTyped DEF AskToLogout
<1>7. /\ AuthTypeOK' /\ OwnersKept /\ OthersKept(t)
      /\ visit'[t] = v /\ call'[t] = c /\ work'[t] = work[t]
  BY <1>2, <1>3, <1>4, <1>5, <1>6, TabTyped, TypesKept
<1>8. TabAgrees(t)'
  BY <1>2, <1>3, <1>6, <1>7 DEF AuthInv, TabAgrees, UserAgrees, MeAgrees, LoginAgrees, DataAgrees
<1>9. QED
  BY <1>7, <1>8, TabStep

-----------------------------------------------------------------------------
(* The server and the network: a request is answered, its token stays.     *)

(* A request of the page's own is answered.                                *)
LEMMA CallAnswered ==
  ASSUME AuthInv, NEW t \in AuthTabs, UNCHANGED <<owner, stored, visit, work>>,
         spent' \in SUBSET (1..Len(owner)),
         NEW c \in TokenCalls(Len(owner)), call' = [call EXCEPT ![t] = c],
         c.op = call[t].op, c.token = call[t].token,
         c.op = "me" /\ c.reply = "ok" => c.who = owner[c.token],
         c.op = "login" => c.who = call[t].who
  PROVE  AuthInv'
<1>1. /\ AuthTypeOK' /\ OwnersKept /\ OthersKept(t)
      /\ visit'[t] = visit[t] /\ call'[t] = c /\ work'[t] = work[t]
  BY TabTyped, TypesKept
<1>2. TabAgrees(t)'
  BY <1>1 DEF AuthInv, TabAgrees, UserAgrees, MeAgrees, LoginAgrees, DataAgrees
<1>3. QED
  BY <1>1, <1>2, TabStep

(* A request for data is answered.                                         *)
LEMMA WorkAnswered ==
  ASSUME AuthInv, NEW t \in AuthTabs, UNCHANGED <<owner, spent, stored, visit, call>>,
         NEW reply \in {"ok", "refused", "lost"}, work' = Answer(work, t, reply), Waiting(work[t])
  PROVE  AuthInv'
<1>1. DEFINE w == [work[t] EXCEPT !.reply = reply]
<1>2. w \in TokenCalls(Len(owner)) /\ w.op = work[t].op /\ w.token = work[t].token
  BY TabTyped DEF TokenCalls
<1>3. work' = [work EXCEPT ![t] = w]
  BY DEF Answer, AuthInv, AuthTypeOK
<1>4. work[t] # Silent
  BY DEF Waiting, Silent
<1>. HIDE DEF w
<1>5. /\ AuthTypeOK' /\ OwnersKept /\ OthersKept(t)
      /\ visit'[t] = visit[t] /\ call'[t] = call[t] /\ work'[t] = w
  BY <1>2, <1>3, TabTyped, TypesKept
<1>6. TabAgrees(t)'
  BY <1>2, <1>4, <1>5 DEF AuthInv, TabAgrees, UserAgrees, MeAgrees, LoginAgrees, DataAgrees
<1>7. QED
  BY <1>5, <1>6, TabStep

(* An answer without a user, or a loss.                                    *)
LEMMA CallRefused ==
  ASSUME AuthInv, NEW t \in AuthTabs, UNCHANGED <<owner, stored, visit, work>>,
         spent' \in SUBSET (1..Len(owner)), NEW reply \in {"ok", "refused", "lost"},
         call' = Answer(call, t, reply), reply = "ok" => call[t].op # "me"
  PROVE  AuthInv'
<1>1. DEFINE c == [call[t] EXCEPT !.reply = reply]
<1>2. /\ c \in TokenCalls(Len(owner)) /\ c.op = call[t].op /\ c.token = call[t].token
      /\ c.reply = reply /\ c.who = call[t].who
  BY TabTyped DEF TokenCalls
<1>3. call' = [call EXCEPT ![t] = c]
  BY DEF Answer, AuthInv, AuthTypeOK
<1>. HIDE DEF c
<1>4. QED
  BY <1>2, <1>3, CallAnswered

(* A login issues a token that no tab has yet.                             *)
LEMMA ServeLoginKeeps ==
  ASSUME AuthInv, NEW t \in AuthTabs, ServeLogin(t)
  PROVE  AuthInv'
<1>1. CASE call' = Answer(call, t, "refused") /\ UNCHANGED owner
  BY <1>1, TabTyped, CallRefused DEF ServeLogin
<1>2. CASE /\ Len(owner) < MaxLogins /\ owner' = Append(owner, call[t].who)
           /\ call' = [call EXCEPT ![t].reply = "ok", ![t].token = Len(owner) + 1]
  <2>1. call[t].op = "login" /\ call[t].who \in People
    BY DEF ServeLogin, AuthInv, TabAgrees, LoginAgrees
  <2>2. DEFINE c == [call[t] EXCEPT !.reply = "ok", !.token = Len(owner) + 1]
  <2>3. owner \in Seq(People) /\ Len(owner) \in Nat /\ MaxLogins \in Nat
    BY AuthAssumption DEF AuthInv, AuthTypeOK
  <2>4. owner' \in Seq(People) /\ Len(owner') = Len(owner) + 1 /\ OwnersKept
    BY <1>2, <2>1, <2>3 DEF OwnersKept
  <2>5. c \in TokenCalls(Len(owner')) /\ c.op = "login" /\ c.who \in People
    <3>1. call[t] \in TokenCalls(Len(owner))
      BY TabTyped
    <3>2. Len(owner) + 1 \in 0..Len(owner')
      BY <2>3, <2>4
    <3>3. ASSUME NEW k \in 0..Len(owner')
          PROVE  /\ [call[t] EXCEPT !.reply = "ok", !.token = k] \in TokenCalls(Len(owner'))
                 /\ [call[t] EXCEPT !.reply = "ok", !.token = k].op = call[t].op
                 /\ [call[t] EXCEPT !.reply = "ok", !.token = k].who = call[t].who
      BY <3>1 DEF TokenCalls
    <3>4. QED
      BY <2>1, <3>2, <3>3
  <2>6. call' = [call EXCEPT ![t] = c]
    BY <1>2 DEF AuthInv, AuthTypeOK
  <2>. HIDE DEF c
  <2>7. UNCHANGED <<spent, stored, visit, work>>
    BY DEF ServeLogin
  <2>8. /\ Visits(Len(owner)) \subseteq Visits(Len(owner'))
        /\ TokenCalls(Len(owner)) \subseteq TokenCalls(Len(owner'))
    BY <2>3, <2>4 DEF Visits, TokenCalls
  <2>9. AuthTypeOK'
    <3>1. owner' \in Seq(People) /\ Len(owner') <= MaxLogins
      BY <1>2, <2>3, <2>4
    <3>2. spent' \subseteq 1..Len(owner') /\ stored' \in 0..Len(owner')
      BY <2>3, <2>4, <2>7, TabTyped
    <3>3. /\ visit' \in [AuthTabs -> Visits(Len(owner'))]
          /\ work' \in [AuthTabs -> TokenCalls(Len(owner'))]
      BY <2>7, <2>8 DEF AuthInv, AuthTypeOK
    <3>4. call \in [AuthTabs -> TokenCalls(Len(owner'))]
      BY <2>8 DEF AuthInv, AuthTypeOK
    <3>5. call' \in [AuthTabs -> TokenCalls(Len(owner'))]
      BY <2>5, <2>6, <3>4
    <3>6. QED
      BY <3>1, <3>2, <3>3, <3>5 DEF AuthTypeOK
  <2>10. OthersKept(t) /\ visit'[t] = visit[t] /\ call'[t] = c /\ work'[t] = work[t]
    BY <2>6, <2>7 DEF OthersKept, AuthInv, AuthTypeOK
  <2>11. \A k \in 0..Len(owner) : k # 0 => owner'[k] = owner[k]
    BY <2>3, <2>4 DEF OwnersKept
  <2>12. visit[t].token \in 0..Len(owner) /\ work[t].token \in 0..Len(owner) /\ TabAgrees(t)
    BY TabTyped DEF Visits, TokenCalls, AuthInv
  <2>13. TabAgrees(t)'
    BY <2>5, <2>10, <2>11, <2>12 DEF TabAgrees, UserAgrees, MeAgrees, LoginAgrees, DataAgrees
  <2>14. QED
    BY <2>4, <2>9, <2>10, <2>13, TabStep
<1>3. QED
  BY <1>1, <1>2 DEF ServeLogin

(* The other answers.                                                      *)
LEMMA AnswersKeep ==
  ASSUME AuthInv, NEW t \in AuthTabs,
         ServeMe(t) \/ ServeData(t) \/ ServeLogout(t) \/ LoseCall(t) \/ LoseData(t)
  PROVE  AuthInv'
<1>1. CASE ServeMe(t)
  <2>1. CASE Authentic(call[t].token)
    <3>1. DEFINE c == [call[t] EXCEPT !.reply = "ok", !.who = owner[call[t].token]]
    <3>2. owner[call[t].token] \in People
      BY <2>1, TabTyped DEF Authentic, TokenCalls, AuthInv, AuthTypeOK
    <3>3. /\ c \in TokenCalls(Len(owner)) /\ c.op = call[t].op /\ c.token = call[t].token
          /\ c.who = owner[c.token]
      BY <3>2, TabTyped DEF TokenCalls, Persons
    <3>4. call' = [call EXCEPT ![t] = c]
      BY <1>1, <2>1 DEF ServeMe, AuthInv, AuthTypeOK
    <3>. HIDE DEF c
    <3>5. /\ UNCHANGED <<owner, stored, visit, work>> /\ spent' \in SUBSET (1..Len(owner))
          /\ call[t].op = "me"
      BY <1>1, TabTyped DEF ServeMe
    <3>6. QED
      BY <3>3, <3>4, <3>5, CallAnswered
  <2>2. CASE ~Authentic(call[t].token)
    BY <1>1, <2>2, TabTyped, CallRefused DEF ServeMe
  <2>3. QED
    BY <2>1, <2>2
<1>2. CASE ServeData(t)
  BY <1>2, WorkAnswered DEF ServeData
<1>3. CASE ServeLogout(t)
  <2>1. call[t].token \in 0..Len(owner) /\ call[t].op = "logout"
    BY <1>3, TabTyped DEF TokenCalls, ServeLogout
  <2>2. PICK reply \in {"ok", "refused"} : call' = Answer(call, t, reply)
    BY <1>3 DEF ServeLogout
  <2>3. spent' \in SUBSET (1..Len(owner)) /\ UNCHANGED <<owner, stored, visit, work>>
    BY <1>3, <2>1, TabTyped DEF ServeLogout, Authentic
  <2>4. QED
    BY <2>1, <2>2, <2>3, CallRefused
<1>4. CASE LoseCall(t)
  BY <1>4, TabTyped, CallRefused DEF LoseCall
<1>5. CASE LoseData(t)
  BY <1>5, WorkAnswered DEF LoseData
<1>6. QED
  BY <1>1, <1>2, <1>3, <1>4, <1>5

-----------------------------------------------------------------------------
(* The theorems.                                                           *)

LEMMA AuthStart ==
  AuthInit => AuthInv
BY AuthAssumption
   DEF AuthInit, AuthInv, AuthTypeOK, Visits, TokenCalls, Persons, Silent, Away, TabAgrees,
       UserAgrees, MeAgrees, LoginAgrees, DataAgrees

LEMMA AuthStep ==
  AuthInv /\ [AuthNext]_authVars => AuthInv'
<1> SUFFICES ASSUME AuthInv, [AuthNext]_authVars PROVE AuthInv'
  OBVIOUS
<1>1. ASSUME NEW t \in AuthTabs, VisitConsole(t) \/ Enter(t)
      PROVE  AuthInv'
  BY <1>1, LoadKeeps DEF VisitConsole, Enter
<1>2. ASSUME NEW k \in 1..MaxLogins, ExpireToken(k)
      PROVE  AuthInv'
  <2>1. spent' \in SUBSET (1..Len(owner)) /\ UNCHANGED <<owner, stored, visit, call, work>>
    BY <1>2 DEF ExpireToken, AuthInv, AuthTypeOK
  <2>2. QED
    BY <2>1 DEF AuthInv, AuthTypeOK, TabAgrees, UserAgrees, MeAgrees, LoginAgrees, DataAgrees
<1>3. CASE UNCHANGED authVars
  BY <1>3 DEF authVars, AuthInv, AuthTypeOK, TabAgrees, UserAgrees, MeAgrees, LoginAgrees, DataAgrees
<1>4. QED
  BY <1>1, <1>2, <1>3, LoginPageKeeps, MeReturnsKeeps, DataKeeps, AskToLogoutKeeps, ServeLoginKeeps,
     AnswersKeep
     DEF AuthNext, TabReturns, ServerGoes

(* Pages, requests and tokens stay consistent, however logins and logouts  *)
(* of the tabs cross each other.                                           *)
THEOREM AuthInvariant == AuthSpec => []AuthInv
BY AuthStart, AuthStep, PTL DEF AuthSpec

(* getAccessToken gives every page the token of the user it shows.         *)
THEOREM PageActsAsShown == AuthSpec => []ActsAsShown
<1>1. AuthInv => ActsAsShown
  BY DEF AuthInv, TabAgrees, UserAgrees, DataAgrees, ActsAsShown, AccessToken
<1>2. QED
  BY <1>1, AuthInvariant, PTL

-----------------------------------------------------------------------------
(***************************************************************************)
(* The page of a question.                                                 *)
(***************************************************************************)
Forms ==
  [type : QTypes \cup {"NONE"}, text : 0..MaxTexts, answered : BOOLEAN, cases : Seq(BOOLEAN)]

QuestionTyped ==
  /\ qpage \in {"new", "detail", "list"} /\ row \in Rows /\ question \in Rows
  /\ form \in Forms /\ Len(form.cases) <= MaxCases /\ openCase \in 0..MaxCases
  /\ cited \in BOOLEAN /\ dirty \in BOOLEAN /\ loading \in BOOLEAN /\ saving \in BOOLEAN
  /\ stale \in BOOLEAN
  /\ fetch \in Calls /\ send \in Calls /\ del \in Calls
  /\ texts \in 0..MaxTexts /\ lost \in 0..MaxLost /\ typed \in 0..MaxTexts
  /\ posts \in Nat

(* What was typed before the save in progress is in its payload, and it is *)
(* stored once the save has succeeded; nothing typed is left when a page   *)
(* loads.                                                                  *)
SaveAgrees ==
  /\ saving = (send.phase # "idle") /\ loading = (fetch.phase # "idle")
  /\ loading => ~saving /\ typed = 0
  /\ typed <= texts
  /\ send.phase = "sent" => typed <= send.row.text
  /\ send.phase = "answered" /\ send.ok => typed = 0

(* A page that is new still has created a question only if an answer was   *)
(* lost, or is about to take one.                                          *)
PostsAgree ==
  qpage = "new" /\ ~(send.phase = "answered" /\ send.ok) => posts <= lost

QuestionInv == QuestionTyped /\ SaveAgrees /\ PostsAgree /\ QuestionIsKept

(* Any edit of the fields.                                                 *)
LEMMA EditKeeps ==
  ASSUME QuestionInv, Editable,
         form' \in Forms, Len(form'.cases) <= MaxCases, openCase' \in 0..MaxCases, dirty' = TRUE,
         texts' \in texts..MaxTexts, typed' \in 0..texts',
         typed' # 0 => form'.text >= typed', saving => typed' <= typed,
         UNCHANGED <<qpage, question, loading, saving, stale, Requests, Backend>>
  PROVE  QuestionInv'
<1>0. QuestionAssumption  BY QuestionAssumption
<1>1. UNCHANGED <<qpage, question, loading, saving, stale, fetch, send, del, row, cited, posts, lost>>
  BY DEF Requests, Backend
<1>2. texts \in 0..MaxTexts /\ typed \in 0..MaxTexts /\ MaxTexts \in Nat /\ texts \in Nat
  BY <1>0 DEF QuestionInv, QuestionTyped, QuestionAssumption
<1>3. QuestionTyped'
  <2>1. texts' \in 0..MaxTexts /\ typed' \in 0..MaxTexts  BY <1>2
  <2> QED  BY <1>1, <2>1 DEF QuestionInv, QuestionTyped, Rows, Calls, Forms
<1>4. SaveAgrees'
  <2>1. ~loading  BY DEF Editable
  <2>2. saving => send.phase # "idle"  BY DEF QuestionInv, SaveAgrees
  <2>3. typed' <= texts'  BY <1>2
  <2>4. send.phase # "idle" => saving  BY DEF QuestionInv, SaveAgrees
  <2>5. send.phase = "sent" => typed' <= send.row.text
    <3>1. send \in Calls  BY DEF QuestionInv, QuestionTyped
    <3>2. send.row.text \in Nat  BY <3>1, <1>2 DEF Calls, Rows
    <3> QED  BY <1>2, <2>4, <3>2 DEF QuestionInv, SaveAgrees
  <2>6. send.phase = "answered" /\ send.ok => typed' = 0
    BY <1>2, <2>4 DEF QuestionInv, SaveAgrees
  <2>7. saving' = (send'.phase # "idle") /\ loading' = (fetch'.phase # "idle")
    BY <1>1 DEF QuestionInv, SaveAgrees
  <2> QED  BY <1>1, <2>1, <2>3, <2>5, <2>6, <2>7 DEF SaveAgrees
<1>5. PostsAgree'  BY <1>1 DEF QuestionInv, PostsAgree
<1>6. QuestionIsKept'
  BY <1>1 DEF QuestionInv, QuestionIsKept, TypedIsKept, CleanShowsCopy, CreatedOnce, Mounted
<1> QED  BY <1>3, <1>4, <1>5, <1>6 DEF QuestionInv

(* The cases of a form just opened.                                        *)
LEMMA ConstantSeq ==
  ASSUME NEW n \in Nat, NEW S, NEW e \in S
  PROVE  [i \in 1..n |-> e] \in Seq(S) /\ Len([i \in 1..n |-> e]) = n
OBVIOUS

(* The form that shows a question is a form.                               *)
LEMMA ShownForms ==
  /\ \A t \in QTypes \cup {"NONE"} :
       StartOf(t) \in Forms /\ Len(StartOf(t).cases) <= MaxCases /\ StartOf(t).text = 0
  /\ \A r \in Rows : ShownOf(r) \in Forms /\ Len(ShownOf(r).cases) <= MaxCases
<1>0. MaxTexts \in Nat \ {0} /\ MaxCases \in Nat \ {0}  BY QuestionAssumption DEF QuestionAssumption
<1>1. ASSUME NEW t \in QTypes \cup {"NONE"}
      PROVE  StartOf(t) \in Forms /\ Len(StartOf(t).cases) <= MaxCases /\ StartOf(t).text = 0
  <2> DEFINE cs == IF t = "PROGRAMMING" THEN <<FALSE>> ELSE <<>>
  <2>1. cs \in Seq(BOOLEAN) /\ Len(cs) <= MaxCases
    <3>1. CASE t = "PROGRAMMING"  BY <3>1, <1>0
    <3>2. CASE t # "PROGRAMMING"  BY <3>2, <1>0
    <3> QED  BY <3>1, <3>2
  <2>2. StartOf(t) = [type |-> t, text |-> 0, answered |-> t = "PROGRAMMING", cases |-> cs]  BY DEF StartOf
  <2> HIDE DEF cs
  <2> QED  BY <1>0, <2>1, <2>2 DEF Forms
<1>2. ASSUME NEW r \in Rows
      PROVE  ShownOf(r) \in Forms /\ Len(ShownOf(r).cases) <= MaxCases
  <2> DEFINE cs == [i \in 1..r.cases |-> TRUE]
  <2>1. r.cases \in 0..MaxCases /\ r.text \in 0..MaxTexts /\ r.type \in QTypes \cup {"NONE"}
    BY DEF Rows
  <2>2. cs \in Seq(BOOLEAN) /\ Len(cs) = r.cases
    <3>1. r.cases \in Nat /\ TRUE \in BOOLEAN  BY <1>0, <2>1
    <3> QED  BY <3>1, ConstantSeq
  <2>3. ShownOf(r) = [type |-> r.type, text |-> r.text, answered |-> TRUE, cases |-> cs]
    BY DEF ShownOf
  <2> HIDE DEF cs
  <2> QED  BY <1>0, <2>1, <2>2, <2>3 DEF Forms
<1> QED  BY <1>1, <1>2

(* A page just opened, for a new question or an old one.                   *)
LEMMA QuestionStart == QuestionInit => QuestionInv
<1> SUFFICES ASSUME QuestionInit PROVE QuestionInv  OBVIOUS
<1>0. QuestionAssumption /\ MaxTexts \in Nat \ {0} /\ MaxCases \in Nat \ {0} /\ MaxLost \in Nat
  BY QuestionAssumption DEF QuestionAssumption
<1>1. /\ cited = FALSE /\ question = Nothing /\ openCase = 0
      /\ dirty = FALSE /\ saving = FALSE /\ send = Idle /\ del = Idle
      /\ texts = 1 /\ lost = 0 /\ posts = 0 /\ typed = 0 /\ stale = FALSE
  BY DEF QuestionInit
<1>2. Nothing \in Rows  BY <1>0 DEF Nothing, Rows
<1>3. Idle \in Calls /\ Sent(Nothing) \in Calls /\ Idle.phase = "idle" /\ Sent(Nothing).phase = "sent"
  BY <1>2 DEF Idle, Sent, Calls
<1>4. /\ qpage \in {"new", "detail"} /\ row \in Rows /\ fetch \in Calls /\ loading \in BOOLEAN
      /\ loading = (fetch.phase # "idle") /\ form \in Forms /\ Len(form.cases) <= MaxCases
      /\ qpage = "detail" => loading
  <2>1. CASE qpage = "new" /\ row = Nothing /\ loading = FALSE /\ fetch = Idle
             /\ \E t \in QTypes \cup {"NONE"} : form = StartOf(t)
    BY <2>1, <1>2, <1>3, ShownForms
  <2>2. CASE /\ qpage = "detail" /\ loading = TRUE /\ fetch = Sent(Nothing)
             /\ \E t \in QTypes :
                  row = [live |-> TRUE, type |-> t, text |-> 1,
                         cases |-> IF t = "PROGRAMMING" THEN 1 ELSE 0]
             /\ form = StartOf("NONE")
    <3>1. row \in Rows  BY <2>2, <1>0 DEF Rows
    <3> QED  BY <2>2, <3>1, <1>3, ShownForms
  <2> QED  BY <2>1, <2>2 DEF QuestionInit
<1>5. QuestionTyped
  <2>1. cited \in BOOLEAN /\ dirty \in BOOLEAN /\ saving \in BOOLEAN /\ stale \in BOOLEAN  BY <1>1
  <2>2. openCase \in 0..MaxCases /\ texts \in 0..MaxTexts /\ lost \in 0..MaxLost
        /\ typed \in 0..MaxTexts /\ posts \in Nat
    BY <1>0, <1>1
  <2>3. question \in Rows /\ send \in Calls /\ del \in Calls  BY <1>1, <1>2, <1>3
  <2> QED  BY <1>4, <2>1, <2>2, <2>3 DEF QuestionTyped
<1>6. SaveAgrees
  <2>1. saving = (send.phase # "idle")  BY <1>1, <1>3
  <2> QED  BY <1>1, <1>3, <1>4, <2>1 DEF SaveAgrees
<1>7. PostsAgree  BY <1>1 DEF PostsAgree
<1>8. QuestionIsKept
  BY <1>1, <1>4 DEF QuestionIsKept, TypedIsKept, CleanShowsCopy, CreatedOnce, Editable
<1> QED  BY <1>5, <1>6, <1>7, <1>8 DEF QuestionInv

(* Every handler of the page, every answer, and what others do to the      *)
(* question.                                                               *)
LEMMA QuestionStep == QuestionInv /\ [QuestionNext]_questionVars => QuestionInv'
<1> SUFFICES ASSUME QuestionInv, [QuestionNext]_questionVars PROVE QuestionInv'  OBVIOUS
<1>0. MaxTexts \in Nat \ {0} /\ MaxCases \in Nat \ {0} /\ MaxLost \in Nat
  BY QuestionAssumption DEF QuestionAssumption
<1>t. QuestionTyped /\ SaveAgrees /\ PostsAgree /\ TypedIsKept /\ CleanShowsCopy /\ CreatedOnce
  BY DEF QuestionInv, QuestionIsKept
<1>r. /\ form \in Forms /\ form.cases \in Seq(BOOLEAN) /\ form.text \in 0..MaxTexts
      /\ Len(form.cases) \in 0..MaxCases /\ DOMAIN form.cases = 1..Len(form.cases)
      /\ texts \in 0..MaxTexts /\ typed \in 0..texts /\ openCase \in 0..MaxCases
      /\ Editable => (typed # 0 => form.text >= typed)
  <2>1. form \in Forms /\ Len(form.cases) <= MaxCases  BY <1>t DEF QuestionTyped
  <2>2. form.cases \in Seq(BOOLEAN) /\ form.text \in 0..MaxTexts  BY <2>1 DEF Forms
  <2>3. Len(form.cases) \in Nat /\ DOMAIN form.cases = 1..Len(form.cases)  BY <2>2, LenProperties
  <2>4. texts \in 0..MaxTexts /\ typed \in 0..texts /\ openCase \in 0..MaxCases
    BY <1>0, <1>t DEF QuestionTyped, SaveAgrees
  <2>5. Editable => (typed # 0 => form.text >= typed)  BY <1>t DEF TypedIsKept, Editable
  <2> QED  BY <1>0, <2>1, <2>2, <2>3, <2>4, <2>5
<1>1. ASSUME FillText PROVE QuestionInv'
  <2>1. /\ Editable /\ texts < MaxTexts /\ texts' = texts + 1
        /\ form' = [form EXCEPT !.text = texts'] /\ dirty' = TRUE
        /\ typed' = IF saving THEN typed ELSE texts'
        /\ UNCHANGED openCase
        /\ UNCHANGED <<qpage, question, loading, saving, stale, Requests, Backend>>
    BY <1>1 DEF FillText, Changed, Offered
  <2>2. texts' \in texts..MaxTexts /\ typed' \in 0..texts' /\ typed' <= texts' /\ saving => typed' <= typed
    BY <1>0, <1>r, <2>1
  <2>3. form' \in Forms /\ form'.text = texts' /\ form'.cases = form.cases
    BY <1>0, <1>r, <2>1, <2>2 DEF Forms
  <2> QED  BY <1>0, <1>r, <2>1, <2>2, <2>3, EditKeeps
<1>2. ASSUME ToggleAnswer PROVE QuestionInv'
  <2>1. /\ Editable /\ form' = [form EXCEPT !.answered = ~@] /\ dirty' = TRUE
        /\ UNCHANGED <<openCase, texts, typed>>
        /\ UNCHANGED <<qpage, question, loading, saving, stale, Requests, Backend>>
    BY <1>2 DEF ToggleAnswer, Changed, Offered
  <2>2. form' \in Forms /\ form'.text = form.text /\ form'.cases = form.cases
    BY <1>r, <2>1 DEF Forms
  <2> QED  BY <1>0, <1>r, <2>1, <2>2, EditKeeps
<1>3. ASSUME NEW t \in QTypes, ChangeType(t) PROVE QuestionInv'
  <2>1. /\ Editable /\ form' = StartOf(t) /\ dirty' = TRUE /\ typed' = 0 /\ openCase' = 0
        /\ UNCHANGED texts
        /\ UNCHANGED <<qpage, question, loading, saving, stale, Requests, Backend>>
    BY <1>3 DEF ChangeType, Changed
  <2> QED  BY <1>0, <1>r, <2>1, ShownForms, EditKeeps
<1>4. ASSUME AddCase PROVE QuestionInv'
  <2>1. /\ Editable /\ Len(form.cases) < MaxCases /\ dirty' = TRUE
        /\ form' = [form EXCEPT !.cases = Append(@, FALSE)]
        /\ openCase' = Len(form.cases) + 1
        /\ UNCHANGED <<texts, typed>>
        /\ UNCHANGED <<qpage, question, loading, saving, stale, Requests, Backend>>
    BY <1>4 DEF AddCase, Changed, Offered
  <2> DEFINE cs == Append(form.cases, FALSE)
  <2>2. cs \in Seq(BOOLEAN) /\ Len(cs) = Len(form.cases) + 1  BY <1>r, AppendProperties
  <2>3. form' = [form EXCEPT !.cases = cs]  BY <2>1
  <2> HIDE DEF cs
  <2>4. form' \in Forms /\ form'.text = form.text /\ form'.cases = cs  BY <1>r, <2>2, <2>3 DEF Forms
  <2> QED  BY <1>0, <1>r, <2>1, <2>2, <2>4, EditKeeps
<1>5. ASSUME NEW i \in DOMAIN form.cases, DeleteCase(i) PROVE QuestionInv'
  <2>1. /\ Editable /\ dirty' = TRUE /\ form' = [form EXCEPT !.cases = RemoveAt(@, i)]
        /\ openCase' = IF openCase = i THEN 0 ELSE openCase
        /\ UNCHANGED <<texts, typed>>
        /\ UNCHANGED <<qpage, question, loading, saving, stale, Requests, Backend>>
    BY <1>5 DEF DeleteCase, Changed, Offered
  <2> DEFINE cs == RemoveAt(form.cases, i)
  <2>2. cs \in Seq(BOOLEAN) /\ Len(cs) = Len(form.cases) - 1  BY <1>r, RemovedAt
  <2>3. form' = [form EXCEPT !.cases = cs]  BY <2>1
  <2> HIDE DEF cs
  <2>4. form' \in Forms /\ form'.text = form.text /\ form'.cases = cs  BY <1>r, <2>2, <2>3 DEF Forms
  <2> QED  BY <1>0, <1>r, <2>1, <2>2, <2>4, EditKeeps
<1>6. ASSUME FillCase PROVE QuestionInv'
  <2>1. /\ Editable /\ dirty' = TRUE /\ openCase \in DOMAIN form.cases
        /\ form' = [form EXCEPT !.cases[openCase] = ~@]
        /\ UNCHANGED <<openCase, texts, typed>>
        /\ UNCHANGED <<qpage, question, loading, saving, stale, Requests, Backend>>
    BY <1>6 DEF FillCase, Changed, Offered
  <2> DEFINE cs == [form.cases EXCEPT ![openCase] = ~@]
  <2>2. cs \in Seq(BOOLEAN) /\ Len(cs) = Len(form.cases)
    <3> DEFINE b == ~form.cases[openCase]
    <3>1. cs = [form.cases EXCEPT ![openCase] = b]  OBVIOUS
    <3>2. b \in BOOLEAN  OBVIOUS
    <3> HIDE DEF b, cs
    <3> QED  BY <1>r, <2>1, <3>1, <3>2, ExceptSeq
  <2>3. form' = [form EXCEPT !.cases = cs]  BY <2>1
  <2> HIDE DEF cs
  <2>4. form' \in Forms /\ form'.text = form.text /\ form'.cases = cs  BY <1>r, <2>2, <2>3 DEF Forms
  <2> QED  BY <1>0, <1>r, <2>1, <2>2, <2>4, EditKeeps
<1>7. ASSUME NEW i \in DOMAIN form.cases, ToggleCase(i) PROVE QuestionInv'
  <2>1. /\ openCase' \in 0..MaxCases
        /\ UNCHANGED <<qpage, question, form, dirty, loading, saving, stale, texts, typed,
                       fetch, send, del, row, cited, posts, lost>>
    BY <1>0, <1>r, <1>7 DEF ToggleCase, Requests, Backend
  <2> QED  BY <1>t, <2>1 DEF QuestionInv, QuestionTyped, SaveAgrees, PostsAgree, QuestionIsKept,
             TypedIsKept, CleanShowsCopy, CreatedOnce, Mounted, Editable, Rows, Calls, Forms, ShownOf
<1>8. ASSUME CancelEdit PROVE QuestionInv'
  <2>1. /\ Editable /\ dirty' = FALSE /\ typed' = 0
        /\ form' = IF qpage = "new" THEN StartOf("NONE") ELSE ShownOf(question)
        /\ openCase' \in 0..MaxCases
        /\ UNCHANGED <<qpage, question, loading, saving, stale, texts, fetch, send, del, row, cited,
                       posts, lost>>
    BY <1>0, <1>r, <1>8 DEF CancelEdit, Requests, Backend
  <2>2. form' \in Forms /\ Len(form'.cases) <= MaxCases
    BY <1>t, <2>1, ShownForms DEF QuestionTyped
  <2>3. QuestionTyped'
    <3>1. dirty' \in BOOLEAN  BY <2>1
    <3>2. typed' \in 0..MaxTexts  BY <1>0, <2>1
    <3>3. openCase' \in 0..MaxCases
          /\ UNCHANGED <<qpage, question, loading, saving, stale, texts, fetch, send, del, row, cited,
                         posts, lost>>
      BY <2>1
    <3> QED  BY <1>t, <2>2, <3>1, <3>2, <3>3 DEF QuestionTyped, Rows, Calls, Forms
  <2>4. SaveAgrees'
    <3>1. send.phase = "sent" => 0 <= send.row.text
      <4>1. send \in Calls  BY <1>t DEF QuestionTyped
      <4> QED  BY <1>0, <4>1 DEF Calls, Rows
    <3>2. 0 <= texts  BY <1>0, <1>r
    <3> QED  BY <1>t, <2>1, <3>1, <3>2 DEF SaveAgrees
  <2>5. QuestionIsKept'
    BY <1>t, <2>1 DEF QuestionIsKept, TypedIsKept, CleanShowsCopy, CreatedOnce, Mounted, Editable, ShownOf
  <2> QED  BY <1>t, <2>1, <2>3, <2>4, <2>5 DEF QuestionInv, PostsAgree
<1>9. ASSUME SaveQuestion PROVE QuestionInv'
  <2> DEFINE ok == FALSE \notin {form.cases[i] : i \in DOMAIN form.cases}
  <2>1. /\ Editable /\ EffectiveType # "NONE" /\ dirty /\ ~saving /\ saving' = TRUE
        /\ send' = [Sent(Payload) EXCEPT !.ok = ok]
        /\ UNCHANGED <<qpage, question, form, openCase, dirty, loading, fetch, del, stale,
                       texts, typed, row, cited, posts, lost>>
    BY <1>9 DEF SaveQuestion, SaveButton, FormValid, Backend
  <2>2. Payload \in Rows /\ Payload.text = form.text
    <3>1. EffectiveType \in QTypes \cup {"NONE"}
      BY <1>t DEF EffectiveType, QuestionTyped, Forms, Rows
    <3> QED  BY <1>0, <1>r, <3>1 DEF Payload, Rows
  <2>3. ok \in BOOLEAN  OBVIOUS
  <2> HIDE DEF ok
  <2>4. send' \in Calls /\ send'.phase = "sent" /\ send'.row = Payload
    BY <2>1, <2>2, <2>3 DEF Sent, Calls
  <2>5. QuestionTyped'  BY <1>t, <2>1, <2>4 DEF QuestionTyped, Rows, Forms, Calls
  <2>6. SaveAgrees'
    <3>1. ~loading  BY <2>1 DEF Editable
    <3>2. typed <= form.text  BY <1>0, <1>r, <2>1
    <3>3. saving' = (send'.phase # "idle")  BY <2>1, <2>4
    <3> QED  BY <1>t, <2>1, <2>2, <2>4, <3>1, <3>2, <3>3 DEF SaveAgrees
  <2>7. send.phase = "idle"  BY <1>t, <2>1 DEF SaveAgrees
  <2>8. PostsAgree'  BY <1>t, <2>1, <2>7 DEF PostsAgree
  <2>9. QuestionIsKept'
    BY <1>t, <2>1 DEF QuestionIsKept, TypedIsKept, CleanShowsCopy, CreatedOnce, Mounted, Editable, ShownOf
  <2> QED  BY <2>5, <2>6, <2>8, <2>9 DEF QuestionInv
<1>10. ASSUME ServeSave PROVE QuestionInv'
  <2>1. /\ send.phase = "sent"
        /\ UNCHANGED <<qpage, cited, question, form, openCase, dirty, loading, saving, fetch, del,
                       texts, stale>>
    BY <1>10 DEF ServeSave
  <2>2. \/ /\ row' = send.row
           /\ posts' = IF qpage = "new" THEN posts + 1 ELSE posts
           /\ typed' = IF typed <= send.row.text THEN 0 ELSE typed
           /\ \/ send' = Answered(TRUE, Nothing) /\ lost' = lost
              \/ lost < MaxLost /\ send' = Answered(FALSE, Nothing) /\ lost' = lost + 1
        \/ send' = Answered(FALSE, Nothing) /\ UNCHANGED <<row, posts, typed, lost>>
    BY <1>10 DEF ServeSave
  <2>3. typed <= send.row.text /\ send.row \in Rows /\ posts \in Nat /\ lost \in 0..MaxLost
        /\ (qpage = "new" => posts <= lost) /\ posts <= 1 + lost /\ row \in Rows
        /\ typed \in 0..MaxTexts
    BY <1>t, <2>1 DEF SaveAgrees, PostsAgree, CreatedOnce, QuestionTyped, Calls
  <2>4. /\ \A b \in BOOLEAN : Answered(b, Nothing) \in Calls
        /\ \A b \in BOOLEAN : Answered(b, Nothing).phase = "answered" /\ Answered(b, Nothing).ok = b
    BY <1>0 DEF Answered, Calls, Nothing, Rows
  <2>5. send' \in Calls /\ send'.phase = "answered"  BY <2>2, <2>4
  <2>6. /\ row' \in Rows /\ posts' \in Nat /\ lost' \in 0..MaxLost /\ typed' \in {0, typed}
        /\ send'.ok => typed' = 0
        /\ qpage = "new" /\ ~send'.ok => posts' <= lost'
        /\ posts' <= 1 + lost'
    <3>1. CASE /\ row' = send.row
               /\ posts' = IF qpage = "new" THEN posts + 1 ELSE posts
               /\ typed' = IF typed <= send.row.text THEN 0 ELSE typed
               /\ send' = Answered(TRUE, Nothing) /\ lost' = lost
      <4>1. typed' = 0 /\ send'.ok = TRUE  BY <2>3, <2>4, <3>1
      <4>2. posts' \in Nat /\ posts' <= 1 + lost' /\ lost' \in 0..MaxLost  BY <1>0, <2>3, <3>1
      <4> QED  BY <2>3, <3>1, <4>1, <4>2
    <3>2. CASE /\ row' = send.row
               /\ posts' = IF qpage = "new" THEN posts + 1 ELSE posts
               /\ typed' = IF typed <= send.row.text THEN 0 ELSE typed
               /\ lost < MaxLost /\ send' = Answered(FALSE, Nothing) /\ lost' = lost + 1
      <4>1. typed' = 0 /\ ~send'.ok  BY <2>3, <2>4, <3>2
      <4>2. posts' \in Nat /\ posts' <= 1 + lost' /\ lost' \in 0..MaxLost  BY <1>0, <2>3, <3>2
      <4>3. qpage = "new" => posts' <= lost'  BY <1>0, <2>3, <3>2
      <4> QED  BY <2>3, <3>2, <4>1, <4>2, <4>3
    <3>3. CASE send' = Answered(FALSE, Nothing) /\ UNCHANGED <<row, posts, typed, lost>>
      <4>1. ~send'.ok  BY <2>4, <3>3
      <4> QED  BY <2>3, <3>3, <4>1
    <3> QED  BY <2>2, <3>1, <3>2, <3>3
  <2>7. typed' \in 0..MaxTexts /\ typed' <= texts'  BY <1>0, <1>r, <2>1, <2>3, <2>6
  <2>8. QuestionTyped'  BY <1>t, <2>1, <2>5, <2>6, <2>7 DEF QuestionTyped, Rows, Forms, Calls
  <2>9. SaveAgrees'
    <3>1. saving' = (send'.phase # "idle") /\ loading' = (fetch'.phase # "idle")
      BY <1>t, <2>1, <2>5 DEF SaveAgrees
    <3>2. loading => ~saving /\ typed = 0  BY <1>t DEF SaveAgrees
    <3> QED  BY <2>1, <2>5, <2>6, <2>7, <3>1, <3>2 DEF SaveAgrees
  <2>10. PostsAgree'  BY <2>1, <2>5, <2>6 DEF PostsAgree
  <2>11. QuestionIsKept'
    <3>1. TypedIsKept'  BY <1>t, <2>1, <2>6 DEF TypedIsKept, Mounted
    <3>2. CleanShowsCopy'  BY <1>t, <2>1 DEF CleanShowsCopy, Editable, Mounted, ShownOf
    <3>3. CreatedOnce'  BY <2>6 DEF CreatedOnce
    <3> QED  BY <3>1, <3>2, <3>3 DEF QuestionIsKept
  <2> QED  BY <2>8, <2>9, <2>10, <2>11 DEF QuestionInv
<1>11. ASSUME SaveReturns PROVE QuestionInv'
  <2>1. /\ send.phase = "answered" /\ saving' = FALSE /\ send' = Idle
        /\ UNCHANGED <<question, form, del, texts, typed, stale, row, cited, posts, lost>>
    BY <1>11 DEF SaveReturns, Backend
  <2>2. Idle \in Calls /\ Sent(Nothing) \in Calls /\ Idle.phase = "idle" /\ Sent(Nothing).phase = "sent"
    BY <1>0 DEF Idle, Sent, Calls, Nothing, Rows
  <2>3. saving' \in BOOLEAN /\ saving' = (send'.phase # "idle")  BY <2>1, <2>2
  <2>4. ASSUME send.ok, LoadFrom("detail"), dirty' \in {dirty, FALSE} PROVE QuestionInv'
    <3>1. qpage' = "detail" /\ loading' = TRUE /\ fetch' = Sent(Nothing) /\ openCase' = 0
      BY <2>4 DEF LoadFrom
    <3>2. typed = 0  BY <1>t, <2>1, <2>4 DEF SaveAgrees
    <3>0. openCase' \in 0..MaxCases  BY <1>0, <3>1
    <3>3. loading' \in BOOLEAN /\ loading' = (fetch'.phase # "idle")  BY <2>2, <3>1
    <3>4. dirty' \in BOOLEAN  BY <1>t, <2>4 DEF QuestionTyped
    <3>5. QuestionTyped'
      BY <1>t, <2>1, <2>2, <2>3, <3>0, <3>1, <3>3, <3>4 DEF QuestionTyped, Rows, Forms, Calls
    <3>6. SaveAgrees'  BY <1>t, <2>1, <2>2, <2>3, <3>1, <3>2, <3>3 DEF SaveAgrees
    <3>7. QuestionIsKept'
      BY <1>t, <2>1, <3>1, <3>2 DEF QuestionIsKept, TypedIsKept, CleanShowsCopy, CreatedOnce, Editable
    <3> QED  BY <3>1, <3>5, <3>6, <3>7 DEF QuestionInv, PostsAgree
  <2>5. ASSUME ~send.ok \/ ~Mounted, UNCHANGED <<qpage, loading, fetch, openCase, dirty>>
        PROVE QuestionInv'
    <3>1. QuestionTyped'
      BY <1>t, <2>1, <2>2, <2>3, <2>5 DEF QuestionTyped, Rows, Forms, Calls
    <3>2. SaveAgrees'
      <4>1. ~loading  BY <1>t, <2>1 DEF SaveAgrees
      <4> QED  BY <1>t, <2>1, <2>2, <2>3, <2>5, <4>1 DEF SaveAgrees
    <3>3. QuestionIsKept'
      BY <1>t, <2>1, <2>5 DEF QuestionIsKept, TypedIsKept, CleanShowsCopy, CreatedOnce, Editable,
                              Mounted, ShownOf
    <3>4. PostsAgree'  BY <1>t, <2>1, <2>5 DEF PostsAgree, Mounted
    <3> QED  BY <3>1, <3>2, <3>3, <3>4 DEF QuestionInv
  <2> QED  BY <1>11, <2>4, <2>5 DEF SaveReturns
<1>12. ASSUME ServeFetch PROVE QuestionInv'
  <2>1. PICK ok \in {row.live, FALSE} : fetch' = Answered(ok, IF ok THEN row ELSE Nothing)
    BY <1>12 DEF ServeFetch
  <2>2. /\ fetch.phase = "sent"
        /\ UNCHANGED <<qpage, question, form, openCase, dirty, loading, saving, send, del,
                       texts, typed, stale, row, cited, posts, lost>>
    BY <1>12 DEF ServeFetch, Backend
  <2>3. fetch' \in Calls /\ fetch'.phase = "answered"
    <3>1. row \in Rows /\ Nothing \in Rows  BY <1>0, <1>t DEF QuestionTyped, Nothing, Rows
    <3>2. row.live \in BOOLEAN  BY <3>1 DEF Rows
    <3>3. ok \in BOOLEAN  BY <3>2
    <3> QED  BY <2>1, <3>1, <3>3 DEF Answered, Calls
  <2>4. QuestionTyped'  BY <1>t, <2>2, <2>3 DEF QuestionTyped, Rows, Forms, Calls
  <2>5. SaveAgrees'
    <3>1. loading' = (fetch'.phase # "idle")  BY <1>t, <2>2, <2>3 DEF SaveAgrees
    <3>2. saving' = (send'.phase # "idle")  BY <1>t, <2>2 DEF SaveAgrees
    <3> QED  BY <1>t, <2>2, <3>1, <3>2 DEF SaveAgrees
  <2>6. PostsAgree' /\ QuestionIsKept'
    BY <1>t, <2>2 DEF PostsAgree, QuestionIsKept, TypedIsKept, CleanShowsCopy, CreatedOnce, Editable,
                      Mounted, ShownOf
  <2> QED  BY <2>4, <2>5, <2>6 DEF QuestionInv
<1>13. ASSUME FetchReturns PROVE QuestionInv'
  <2>1. /\ fetch.phase = "answered" /\ loading' = FALSE /\ fetch' = Idle /\ stale' = ~fetch.ok
        /\ UNCHANGED <<qpage, openCase, saving, send, del, texts, typed, row, cited, posts, lost>>
    BY <1>13 DEF FetchReturns, Backend
  <2>2. \/ /\ fetch.ok /\ question' = fetch.row /\ form' = ShownOf(fetch.row) /\ dirty' = FALSE
        \/ ~fetch.ok /\ UNCHANGED <<question, form, dirty>>
    BY <1>13 DEF FetchReturns
  <2>3. Idle \in Calls /\ Idle.phase = "idle"  BY <1>0 DEF Idle, Calls, Nothing, Rows
  <2>4. typed = 0 /\ ~saving  BY <1>t, <2>1 DEF SaveAgrees
  <2>5. fetch.row \in Rows /\ fetch.ok \in BOOLEAN  BY <1>t DEF QuestionTyped, Calls
  <2>6. question' \in Rows /\ form' \in Forms /\ Len(form'.cases) <= MaxCases
    BY <1>t, <2>2, <2>5, ShownForms DEF QuestionTyped
  <2>7. dirty' \in BOOLEAN /\ loading' \in BOOLEAN /\ stale' \in BOOLEAN
    BY <1>t, <2>1, <2>2 DEF QuestionTyped
  <2>8. loading' = (fetch'.phase # "idle") /\ fetch' \in Calls  BY <2>1, <2>3
  <2>9. QuestionTyped'  BY <1>t, <2>1, <2>6, <2>7, <2>8 DEF QuestionTyped, Rows, Calls
  <2>10. SaveAgrees'
    <3>1. saving' = (send'.phase # "idle")  BY <1>t, <2>1 DEF SaveAgrees
    <3> QED  BY <1>t, <2>1, <2>4, <2>8, <3>1 DEF SaveAgrees
  <2>11. QuestionIsKept'
    <3>1. TypedIsKept'  BY <2>1, <2>4 DEF TypedIsKept
    <3>2. CleanShowsCopy'
      <4>1. CASE fetch.ok  BY <2>2, <4>1 DEF CleanShowsCopy
      <4>2. CASE ~fetch.ok
        <5>1. stale'  BY <2>1, <4>2
        <5> QED  BY <5>1 DEF CleanShowsCopy
      <4> QED  BY <4>1, <4>2
    <3>3. CreatedOnce'  BY <1>t, <2>1 DEF CreatedOnce
    <3> QED  BY <3>1, <3>2, <3>3 DEF QuestionIsKept
  <2>12. PostsAgree'  BY <1>t, <2>1 DEF PostsAgree
  <2> QED  BY <2>9, <2>10, <2>11, <2>12 DEF QuestionInv
<1>14. ASSUME DeleteQuestion \/ ServeDelete \/ DeleteReturns \/ OthersAct PROVE QuestionInv'
  <2>1. /\ UNCHANGED <<question, form, openCase, dirty, loading, saving, fetch, send, lost, posts,
                       typed, stale>>
        /\ qpage' \in {qpage, "list"}
    BY <1>14 DEF DeleteQuestion, ServeDelete, DeleteReturns, OthersAct, Requests, Backend
  <2>2. del' \in Calls /\ row' \in Rows /\ cited' \in BOOLEAN /\ texts' \in texts..MaxTexts
    <3>0. /\ del \in Calls /\ row \in Rows /\ cited \in BOOLEAN /\ texts \in texts..MaxTexts
          /\ row.live \in BOOLEAN /\ Nothing \in Rows
      BY <1>0, <1>r, <1>t DEF QuestionTyped, Rows, Nothing
    <3>1. CASE DeleteQuestion
      <4>1. Sent(Nothing) \in Calls  BY <3>0 DEF Sent, Calls
      <4> QED  BY <3>0, <3>1, <4>1 DEF DeleteQuestion, Backend
    <3>2. CASE ServeDelete
      <4> DEFINE ok == row.live /\ ~cited
      <4>1. ok \in BOOLEAN  OBVIOUS
      <4>2. del' = Answered(ok, Nothing) /\ UNCHANGED <<cited, texts>>  BY <3>2 DEF ServeDelete
      <4>3. row' = [row EXCEPT !.live = FALSE] \/ row' = row  BY <3>2 DEF ServeDelete
      <4> HIDE DEF ok
      <4>4. del' \in Calls  BY <3>0, <4>1, <4>2 DEF Answered, Calls
      <4>5. row' \in Rows  BY <3>0, <4>3 DEF Rows
      <4> QED  BY <3>0, <4>2, <4>4, <4>5
    <3>3. CASE DeleteReturns
      <4>1. Idle \in Calls  BY <3>0 DEF Idle, Calls
      <4> QED  BY <3>0, <3>3, <4>1 DEF DeleteReturns, Backend
    <3>4. CASE OthersAct
      <4>1. del' = del  BY <3>4 DEF OthersAct, Requests
      <4>2. CASE texts < MaxTexts /\ texts' = texts + 1 /\ row' = [row EXCEPT !.text = texts']
                 /\ UNCHANGED cited
        <5>1. texts' \in 0..MaxTexts /\ texts' \in texts..MaxTexts  BY <1>0, <1>r, <4>2
        <5>2. row' \in Rows  BY <3>0, <4>2, <5>1 DEF Rows
        <5> QED  BY <3>0, <4>1, <4>2, <5>1, <5>2
      <4>3. CASE cited' = TRUE /\ UNCHANGED <<row, texts>>  BY <3>0, <4>1, <4>3
      <4>4. CASE row' = [row EXCEPT !.live = FALSE] /\ UNCHANGED <<cited, texts>>
        <5>1. row' \in Rows  BY <3>0, <4>4 DEF Rows
        <5> QED  BY <3>0, <4>1, <4>4, <5>1
      <4> QED  BY <3>4, <4>2, <4>3, <4>4 DEF OthersAct
    <3> QED  BY <1>14, <3>1, <3>2, <3>3, <3>4
  <2>3. texts' \in 0..MaxTexts /\ texts <= texts' /\ typed <= texts'
    BY <1>0, <1>r, <2>2
  <2>4. QuestionTyped'
    <3>1. qpage' \in {"new", "detail", "list"}  BY <1>t, <2>1 DEF QuestionTyped
    <3> QED  BY <1>t, <2>1, <2>2, <2>3, <3>1 DEF QuestionTyped, Rows, Forms, Calls
  <2>5. SaveAgrees'
    <3>1. saving' = (send'.phase # "idle") /\ loading' = (fetch'.phase # "idle")
      BY <1>t, <2>1 DEF SaveAgrees
    <3> QED  BY <1>t, <2>1, <2>3, <3>1 DEF SaveAgrees
  <2>6. PostsAgree' /\ QuestionIsKept'
    BY <1>t, <2>1 DEF PostsAgree, QuestionIsKept, TypedIsKept, CleanShowsCopy, CreatedOnce, Editable,
                      Mounted, ShownOf
  <2> QED  BY <2>4, <2>5, <2>6 DEF QuestionInv
<1>15. CASE UNCHANGED questionVars
  BY <1>t, <1>15 DEF questionVars, QuestionInv, QuestionTyped, SaveAgrees, PostsAgree, QuestionIsKept,
     TypedIsKept, CleanShowsCopy, CreatedOnce, Mounted, Editable, Rows, Calls, Forms, ShownOf
<1> QED
  BY <1>1, <1>2, <1>3, <1>4, <1>5, <1>6, <1>7, <1>8, <1>9, <1>10, <1>11, <1>12, <1>13, <1>14, <1>15
  DEF QuestionNext, Administrator, SaveGoesOn, FetchGoesOn, DeleteGoesOn

(* For any texts, cases and losses: the payload of the save under way has  *)
(* what was typed before it was sent, and a page that is new still has     *)
(* created no question whose answer it has seen.                           *)
THEOREM QuestionInvariant == QuestionSpec => []QuestionInv
BY QuestionStart, QuestionStep, PTL DEF QuestionSpec

(* Text typed while nothing was being saved is in the form until the       *)
(* server has it or the administrator gives it up, a clean page shows what *)
(* it fetched, and one new question is created once for each lost answer   *)
(* and one more (save and fetchQuestion of the question page).             *)
THEOREM TypedTextIsKept == QuestionSpec => []QuestionIsKept
<1>1. QuestionInv => QuestionIsKept  BY DEF QuestionInv
<1> QED  BY <1>1, QuestionInvariant, PTL

-----------------------------------------------------------------------------
(***************************************************************************)
(* The pages of results.                                                   *)
(***************************************************************************)
DeskRecords ==
  [kind : Kinds, exam : Selections, shown : Selections \cup {"nothing"}, loading : BOOLEAN,
   open : BOOLEAN, detail : Entries \cup {NoEntry}, asked : Entries \cup {NoEntry},
   spinning : BOOLEAN]

DeskTyped ==
  /\ desk \in DeskRecords /\ offering \in BOOLEAN
  /\ disorder \in [list : BOOLEAN, detail : BOOLEAN]
  /\ listing \in Seq(Selections) /\ Len(listing) <= MaxListings
  /\ reading \in Seq(Entries) /\ Len(reading) <= MaxReadings

(* As long as answers come in order, the last request under way is for the *)
(* exam that is chosen; events are never fetched for the drawer.           *)
ListAgrees ==
  ~disorder.list /\ desk.exam # NoSitting =>
    IF listing = <<>> THEN desk.shown = desk.exam ELSE listing[Len(listing)] = desk.exam

(* So is the last request under way for the row that was asked for.        *)
DetailAgrees ==
  /\ desk.kind = "events" => reading = <<>>
  /\ ~disorder.detail =>
       IF reading = <<>> THEN desk.open => desk.detail = desk.asked
       ELSE reading[Len(reading)] = desk.asked

DeskInv == DeskTyped /\ ListAgrees /\ DetailAgrees

(* A request for a list leaves the drawer alone.                           *)
LEMMA FetchingKeeps ==
  ASSUME DeskInv, NEW page \in DeskRecords, Fetches(page),
         page = [desk EXCEPT !.exam = page.exam],
         UNCHANGED reading, offering' \in BOOLEAN,
         desk.exam = page.exam \/ page.exam = NoSitting \/ listing' # listing
  PROVE  DeskInv'
<1> USE DEF DeskInv
<1>0. ResultAssumption /\ Len(listing) \in Nat  BY ResultAssumption, LenProperties DEF DeskTyped
<1>1. CASE page.kind # "tasks" /\ page.exam = NoSitting
  <2>1. desk' = page /\ UNCHANGED <<listing, disorder>>  BY <1>1 DEF Fetches
  <2> QED  BY <2>1, <1>1 DEF DeskTyped, ListAgrees, DetailAgrees, DeskRecords
<1>2. CASE ~(page.kind # "tasks" /\ page.exam = NoSitting)
  <2>1. /\ Len(listing) < MaxListings
        /\ desk' = [page EXCEPT !.loading = TRUE]
        /\ listing' = Append(listing, page.exam)
        /\ disorder' = [disorder EXCEPT !.list = @ /\ listing # <<>>]
    BY <1>2 DEF Fetches
  <2>2. page.exam \in Selections  BY DEF DeskRecords
  <2>3. /\ listing' \in Seq(Selections) /\ listing' # <<>> /\ Len(listing') = Len(listing) + 1
        /\ listing'[Len(listing')] = page.exam
    BY <2>1, <2>2, AppendProperties DEF DeskTyped
  <2>4. /\ desk' \in DeskRecords /\ desk'.exam = page.exam /\ desk'.kind = desk.kind
        /\ desk'.open = desk.open /\ desk'.detail = desk.detail /\ desk'.asked = desk.asked
    BY <2>1 DEF DeskRecords, DeskTyped
  <2>5. /\ disorder' \in [list : BOOLEAN, detail : BOOLEAN] /\ disorder'.detail = disorder.detail
    BY <2>1 DEF DeskTyped
  <2>6. DeskTyped'  BY <1>0, <2>1, <2>3, <2>4, <2>5 DEF DeskTyped, ResultAssumption
  <2>7. ListAgrees'  BY <2>3, <2>4 DEF ListAgrees
  <2>8. DetailAgrees'  BY <2>4, <2>5 DEF DetailAgrees
  <2> QED  BY <2>6, <2>7, <2>8
<1> QED  BY <1>1, <1>2

(* A page just opened.                                                     *)
LEMMA DeskInit == ResultInit => DeskInv
<1> SUFFICES ASSUME ResultInit PROVE DeskInv  OBVIOUS
<1>0. ResultAssumption  BY ResultAssumption
<1>1. PICK k \in Kinds :
        /\ desk = [kind |-> k, exam |-> NoSitting, shown |-> "nothing", loading |-> k = "tasks",
                   open |-> FALSE, detail |-> NoEntry, asked |-> NoEntry, spinning |-> FALSE]
        /\ listing = IF k = "tasks" THEN <<NoSitting>> ELSE <<>>
        /\ offering = (k # "tasks")
  BY DEF ResultInit
<1>2. reading = <<>> /\ disorder = [list |-> FALSE, detail |-> FALSE]  BY DEF ResultInit
<1>3. desk \in DeskRecords /\ desk.exam = NoSitting /\ ~desk.open
  BY <1>1 DEF DeskRecords, Selections
<1>4. listing \in Seq(Selections) /\ Len(listing) <= MaxListings
  <2>1. CASE k = "tasks"  BY <2>1, <1>0, <1>1 DEF Selections, ResultAssumption
  <2>2. CASE k # "tasks"  BY <2>2, <1>0, <1>1 DEF ResultAssumption
  <2> QED  BY <2>1, <2>2
<1>6. offering \in BOOLEAN  BY <1>1
<1>5. reading \in Seq(Entries) /\ Len(reading) <= MaxReadings
  BY <1>0, <1>2 DEF ResultAssumption
<1> QED  BY <1>2, <1>3, <1>4, <1>5, <1>6 DEF DeskInv, DeskTyped, ListAgrees, DetailAgrees

(* Every handler of the page, and every answer in any order.               *)
LEMMA DeskStep == DeskInv /\ [ResultNext]_resultVars => DeskInv'
<1> SUFFICES ASSUME DeskInv, [ResultNext]_resultVars PROVE DeskInv'
  OBVIOUS
<1>0. ResultAssumption /\ Len(listing) \in Nat /\ Len(reading) \in Nat
  BY ResultAssumption, LenProperties DEF DeskInv, DeskTyped
<1>t. /\ desk \in DeskRecords /\ disorder \in [list : BOOLEAN, detail : BOOLEAN]
      /\ listing \in Seq(Selections) /\ reading \in Seq(Entries)
  BY DEF DeskInv, DeskTyped
<1>1. ASSUME ExamsCome PROVE DeskInv'
  <2>1. PICK first \in Selections :
          IF desk.exam = NoSitting /\ first # NoSitting
          THEN Fetches([desk EXCEPT !.exam = first]) ELSE UNCHANGED <<desk, listing, disorder>>
    BY <1>1 DEF ExamsCome
  <2>2. offering' = FALSE /\ UNCHANGED reading  BY <1>1 DEF ExamsCome
  <2>3. CASE desk.exam = NoSitting /\ first # NoSitting
    <3> DEFINE page == [desk EXCEPT !.exam = first]
    <3>1. page \in DeskRecords /\ page.exam = first  BY <1>t DEF DeskRecords
    <3>2. Fetches(page) /\ page = [desk EXCEPT !.exam = page.exam]  BY <2>1, <2>3, <3>1
    <3> HIDE DEF page
    <3>3. listing' # listing
      <4>1. listing' = Append(listing, page.exam)  BY <3>1, <3>2, <2>3 DEF Fetches
      <4> QED  BY <4>1, <3>1, <1>0, <1>t, AppendProperties
    <3> QED  BY <2>2, <3>1, <3>2, <3>3, FetchingKeeps
  <2>4. CASE ~(desk.exam = NoSitting /\ first # NoSitting)
    <3>1. UNCHANGED <<desk, listing, reading, disorder>> /\ offering' \in BOOLEAN
      BY <2>1, <2>2, <2>4
    <3> QED  BY <3>1 DEF DeskInv, DeskTyped, ListAgrees, DetailAgrees
  <2> QED  BY <2>3, <2>4
<1>2. ASSUME NEW e \in Selections, ChooseExam(e) PROVE DeskInv'
  <2> DEFINE page == [desk EXCEPT !.exam = e]
  <2>1. page \in DeskRecords /\ page.exam = e /\ page.kind = desk.kind
    BY <1>t DEF DeskRecords
  <2>2. Fetches(page) /\ page = [desk EXCEPT !.exam = page.exam] /\ UNCHANGED <<reading, offering>>
    BY <1>2, <2>1 DEF ChooseExam
  <2> HIDE DEF page
  <2>3. e = NoSitting \/ listing' # listing
    <3>1. CASE e # NoSitting
      <4>1. listing' = Append(listing, page.exam)  BY <2>1, <2>2, <3>1 DEF Fetches
      <4> QED  BY <4>1, <2>1, <1>0, <1>t, AppendProperties
    <3> QED  BY <3>1
  <2> QED  BY <2>1, <2>2, <2>3, FetchingKeeps DEF DeskInv, DeskTyped
<1>3. ASSUME ReloadList PROVE DeskInv'
  <2>1. Fetches(desk) /\ UNCHANGED <<reading, offering>>  BY <1>3 DEF ReloadList
  <2>2. desk = [desk EXCEPT !.exam = desk.exam]  BY <1>t DEF DeskRecords
  <2> QED  BY <2>1, <2>2, <1>t, FetchingKeeps DEF DeskInv, DeskTyped
<1>4. ASSUME SwitchLanguage PROVE DeskInv'
  <2>1. Fetches(desk) /\ UNCHANGED reading /\ offering' \in BOOLEAN  BY <1>4 DEF SwitchLanguage
  <2>2. desk = [desk EXCEPT !.exam = desk.exam]  BY <1>t DEF DeskRecords
  <2> QED  BY <2>1, <2>2, <1>t, FetchingKeeps
<1>5. ASSUME NEW i \in 1..Len(listing), ListComes(i) \/ ListFails(i) PROVE DeskInv'
  <2>1. /\ listing' = RemoveAt(listing, i) /\ UNCHANGED <<reading, offering>>
        /\ desk' \in DeskRecords /\ desk'.kind = desk.kind /\ desk'.exam = desk.exam
        /\ desk'.open = desk.open /\ desk'.detail = desk.detail /\ desk'.asked = desk.asked
        /\ disorder' \in [list : BOOLEAN, detail : BOOLEAN] /\ disorder'.detail = disorder.detail
        /\ ~disorder'.list => ~disorder.list /\ i = 1 /\ desk'.shown = listing[1]
    <3>1. CASE ListComes(i)
      <4>1. listing[i] \in Selections  BY <1>t, ElementOfSeq
      <4> QED  BY <3>1, <4>1, <1>t DEF ListComes, DeskRecords
    <3>2. CASE ListFails(i)  BY <3>2, <1>t DEF ListFails, DeskRecords
    <3> QED  BY <1>5, <3>1, <3>2
  <2>2. /\ listing' \in Seq(Selections) /\ Len(listing') = Len(listing) - 1
        /\ \A k \in 1..(Len(listing) - 1) : listing'[k] = IF k < i THEN listing[k] ELSE listing[k + 1]
    <3>1. listing' = RemoveAt(listing, i)  BY <2>1
    <3>2. listing \in Seq(Selections)  BY <1>t
    <3> QED  BY <3>1, <3>2, RemovedAt
  <2>3. DeskTyped'  BY <1>0, <2>1, <2>2 DEF DeskInv, DeskTyped, ResultAssumption
  <2>4. ListAgrees'
    <3> SUFFICES ASSUME ~disorder'.list, desk.exam # NoSitting
                 PROVE  IF listing' = <<>> THEN desk'.shown = desk.exam
                        ELSE listing'[Len(listing')] = desk.exam
      BY <2>1 DEF ListAgrees
    <3>1. listing # <<>> /\ listing[Len(listing)] = desk.exam /\ i = 1 /\ desk'.shown = listing[1]
      BY <2>1, <1>0 DEF DeskInv, ListAgrees
    <3>2. CASE Len(listing) = 1
      <4>1. listing' = <<>>  BY <2>2, <3>2, EmptySeq
      <4> QED  BY <3>1, <3>2, <4>1
    <3>3. CASE Len(listing) # 1
      <4>1. Len(listing') \in 1..(Len(listing) - 1) /\ Len(listing') + 1 = Len(listing)
        BY <1>0, <2>2, <3>3
      <4>2. listing'[Len(listing')] = listing[Len(listing)]  BY <2>2, <3>1, <4>1
      <4>3. listing' # <<>>  BY <4>1
      <4> QED  BY <3>1, <4>2, <4>3
    <3> QED  BY <3>2, <3>3
  <2>5. DetailAgrees'  BY <2>1 DEF DeskInv, DetailAgrees
  <2> QED  BY <2>3, <2>4, <2>5 DEF DeskInv
<1>6. ASSUME ExamsFail PROVE DeskInv'
  BY <1>6 DEF ExamsFail, DeskInv, DeskTyped, ListAgrees, DetailAgrees
<1>7. ASSUME NEW r \in Entries, OpenDetail(r) PROVE DeskInv'
  <2>1. /\ desk' \in DeskRecords /\ desk'.asked = r /\ desk'.kind = desk.kind
        /\ desk'.exam = desk.exam /\ desk'.shown = desk.shown /\ desk.kind # "events"
        /\ UNCHANGED <<listing, offering>>
        /\ disorder' \in [list : BOOLEAN, detail : BOOLEAN] /\ disorder'.list = disorder.list
        /\ reading' = Append(reading, r) /\ Len(reading) < MaxReadings
    BY <1>7, <1>t DEF OpenDetail, DeskRecords
  <2>2. /\ reading' \in Seq(Entries) /\ reading' # <<>> /\ Len(reading') = Len(reading) + 1
        /\ reading'[Len(reading')] = r
    BY <2>1, <1>t, AppendProperties
  <2>3. DeskTyped'  BY <1>0, <2>1, <2>2 DEF DeskInv, DeskTyped, ResultAssumption
  <2>4. ListAgrees'  BY <2>1 DEF DeskInv, ListAgrees
  <2>5. DetailAgrees'  BY <2>1, <2>2 DEF DetailAgrees
  <2> QED  BY <2>3, <2>4, <2>5 DEF DeskInv
<1>8. ASSUME NEW r \in Entries, ShowEvent(r) PROVE DeskInv'
  <2>1. /\ desk' \in DeskRecords /\ desk'.asked = r /\ desk'.detail = r /\ desk'.kind = desk.kind
        /\ desk'.exam = desk.exam /\ desk'.shown = desk.shown /\ reading = <<>>
        /\ UNCHANGED <<listing, reading, offering, disorder>>
    BY <1>8, <1>t DEF ShowEvent, DeskRecords, DeskInv, DetailAgrees
  <2> QED  BY <2>1 DEF DeskInv, DeskTyped, ListAgrees, DetailAgrees
<1>9. ASSUME NEW i \in 1..Len(reading), DetailComes(i) \/ DetailFails(i) PROVE DeskInv'
  <2>1. /\ reading' = RemoveAt(reading, i) /\ UNCHANGED <<listing, offering>>
        /\ desk' \in DeskRecords /\ desk'.kind = desk.kind /\ desk'.exam = desk.exam
        /\ desk'.open = desk.open /\ desk'.shown = desk.shown /\ desk'.asked = desk.asked
        /\ disorder' \in [list : BOOLEAN, detail : BOOLEAN] /\ disorder'.list = disorder.list
        /\ ~disorder'.detail => ~disorder.detail /\ i = 1 /\ desk'.detail = reading[1]
    <3>1. CASE DetailComes(i)
      <4>1. reading[i] \in Entries  BY <1>t, ElementOfSeq
      <4> QED  BY <3>1, <4>1, <1>t DEF DetailComes, DeskRecords
    <3>2. CASE DetailFails(i)  BY <3>2, <1>t DEF DetailFails, DeskRecords
    <3> QED  BY <1>9, <3>1, <3>2
  <2>2. /\ reading' \in Seq(Entries) /\ Len(reading') = Len(reading) - 1
        /\ \A k \in 1..(Len(reading) - 1) : reading'[k] = IF k < i THEN reading[k] ELSE reading[k + 1]
    <3>1. reading' = RemoveAt(reading, i)  BY <2>1
    <3>2. reading \in Seq(Entries)  BY <1>t
    <3> QED  BY <3>1, <3>2, RemovedAt
  <2>3. reading # <<>>  BY <1>0
  <2>4. DeskTyped'  BY <1>0, <2>1, <2>2 DEF DeskInv, DeskTyped, ResultAssumption
  <2>5. ListAgrees'  BY <2>1 DEF DeskInv, ListAgrees
  <2>6. desk'.kind # "events"  BY <2>1, <2>3 DEF DeskInv, DetailAgrees
  <2>7. DetailAgrees'
    <3> SUFFICES ASSUME ~disorder'.detail
                 PROVE  IF reading' = <<>> THEN desk'.open => desk'.detail = desk'.asked
                        ELSE reading'[Len(reading')] = desk'.asked
      BY <2>6 DEF DetailAgrees
    <3>1. reading[Len(reading)] = desk.asked /\ i = 1 /\ desk'.detail = reading[1]
      BY <2>1, <2>3 DEF DeskInv, DetailAgrees
    <3>2. CASE Len(reading) = 1
      <4>1. reading' = <<>>  BY <2>2, <3>2, EmptySeq
      <4> QED  BY <2>1, <3>1, <3>2, <4>1
    <3>3. CASE Len(reading) # 1
      <4>1. Len(reading') \in 1..(Len(reading) - 1) /\ Len(reading') + 1 = Len(reading)
        BY <1>0, <2>2, <3>3
      <4>2. reading'[Len(reading')] = reading[Len(reading)]  BY <2>2, <3>1, <4>1
      <4>3. reading' # <<>>  BY <4>1
      <4> QED  BY <2>1, <3>1, <4>2, <4>3
    <3> QED  BY <3>2, <3>3
  <2> QED  BY <2>4, <2>5, <2>7 DEF DeskInv
<1>10. ASSUME CloseDetail PROVE DeskInv'
  <2>1. /\ desk' \in DeskRecords /\ ~desk'.open /\ desk'.kind = desk.kind /\ desk'.asked = desk.asked
        /\ desk'.exam = desk.exam /\ desk'.shown = desk.shown
        /\ UNCHANGED <<listing, reading, offering, disorder>>
    BY <1>10, <1>t DEF CloseDetail, DeskRecords
  <2> QED  BY <2>1 DEF DeskInv, DeskTyped, ListAgrees, DetailAgrees
<1>11. CASE UNCHANGED resultVars
  BY <1>11 DEF resultVars, DeskInv, DeskTyped, ListAgrees, DetailAgrees
<1>12. ASSUME ListGoesOn PROVE DeskInv'  BY <1>5, <1>12 DEF ListGoesOn, ListComes, ListFails
<1>13. ASSUME DetailGoesOn PROVE DeskInv'  BY <1>9, <1>13 DEF DetailGoesOn, DetailComes, DetailFails
<1> QED  BY <1>1, <1>2, <1>3, <1>4, <1>6, <1>7, <1>8, <1>10, <1>11, <1>12, <1>13 DEF ResultNext

(* For any exams, entries and numbers of requests: as long as answers come *)
(* in order, the last of them is the one the page is waiting for.          *)
THEOREM DeskInvariant == ResultSpec => []DeskInv
BY DeskInit, DeskStep, PTL DEF ResultSpec

(* A page of results at rest shows the list of the exam that is chosen and *)
(* the detail of the row that was asked for, unless the last requests      *)
(* failed or were answered out of order.                                   *)
THEOREM DeskAtRest == ResultSpec => []AtRestShowsTheChosen
<1>1. DeskInv => AtRestShowsTheChosen
  BY DEF DeskInv, ListAgrees, DetailAgrees, AtRestShowsTheChosen
<1> QED  BY <1>1, DeskInvariant, PTL

-----------------------------------------------------------------------------
(***************************************************************************)
(* The page of a paper.                                                    *)
(***************************************************************************)
Section  == [key : Nat, qs : Seq(Shown)]
Outlines == Seq(Seq(Outlined))
Jobs     == [title : 0..MaxTitles, status : Statuses, outline : Outlines, defer : BOOLEAN]

PaperTyped ==
  /\ creating \in BOOLEAN /\ pdirty \in BOOLEAN /\ psaving \in BOOLEAN /\ ploading \in BOOLEAN
  /\ torn \in BOOLEAN /\ hasty \in BOOLEAN
  /\ store \in [paper : Papers, outline : Outlines] /\ copy \in Papers
  /\ fields \in [title : 0..MaxTitles, status : Statuses]
  /\ sections \in Seq(Section) /\ original \in Seq(Section)
  /\ active \in Nat /\ picker \in [open : BOOLEAN, found : SUBSET Bank]
  /\ released \subseteq Bank /\ withdrawing \subseteq released /\ crossed \subseteq Bank
  /\ step \in [name : Steps, answer : {"none", "checked", "done", "failed"}] /\ job \in Jobs
  /\ edits \in 0..MaxEdits /\ failures \in 0..MaxFailures

(* A paper in which no question is twice, as it is edited and as it is     *)
(* stored; sections are told apart by their keys.                          *)
Once(secs) ==
  \A i, k \in DOMAIN secs : \A j \in DOMAIN secs[i].qs, l \in DOMAIN secs[k].qs :
    secs[i].qs[j].q = secs[k].qs[l].q => i = k /\ j = l

Keyed(secs) == \A i, k \in DOMAIN secs : secs[i].key = secs[k].key => i = k

Sound(secs) == Len(secs) <= MaxSections /\ Keyed(secs) /\ Once(secs)

SoundOutline(outline) ==
  /\ Len(outline) <= MaxSections
  /\ \A i, k \in DOMAIN outline : \A j \in DOMAIN outline[i], l \in DOMAIN outline[k] :
       outline[i][j].q = outline[k][l].q => i = k /\ j = l

(* An element of a sequence of sequences.                                  *)
LEMMA SectionElements ==
  ASSUME NEW secs \in Seq(Section)
  PROVE  /\ Len(secs) \in Nat /\ DOMAIN secs = 1..Len(secs)
         /\ \A i \in DOMAIN secs :
              /\ secs[i] \in Section /\ secs[i].key \in Nat /\ secs[i].qs \in Seq(Shown)
              /\ Len(secs[i].qs) \in Nat /\ DOMAIN secs[i].qs = 1..Len(secs[i].qs)
              /\ \A j \in DOMAIN secs[i].qs :
                   secs[i].qs[j] \in Shown /\ secs[i].qs[j].q \in Bank /\ secs[i].qs[j].scored \in BOOLEAN
<1>1. Len(secs) \in Nat /\ DOMAIN secs = 1..Len(secs)  BY LenProperties
<1>2. ASSUME NEW i \in DOMAIN secs
      PROVE  /\ secs[i] \in Section /\ secs[i].key \in Nat /\ secs[i].qs \in Seq(Shown)
             /\ Len(secs[i].qs) \in Nat /\ DOMAIN secs[i].qs = 1..Len(secs[i].qs)
  <2>1. secs[i] \in Section  BY <1>1, ElementOfSeq
  <2>2. secs[i].key \in Nat /\ secs[i].qs \in Seq(Shown)  BY <2>1 DEF Section
  <2> QED  BY <2>1, <2>2, LenProperties
<1>3. ASSUME NEW i \in DOMAIN secs, NEW j \in DOMAIN secs[i].qs
      PROVE  secs[i].qs[j] \in Shown /\ secs[i].qs[j].q \in Bank /\ secs[i].qs[j].scored \in BOOLEAN
  <2>1. secs[i].qs[j] \in Shown  BY <1>2, <1>3, ElementOfSeq
  <2> QED  BY <2>1 DEF Shown
<1> QED  BY <1>1, <1>2, <1>3

(* And of an outline.                                                      *)
LEMMA OutlineElements ==
  ASSUME NEW outline \in Outlines
  PROVE  /\ Len(outline) \in Nat /\ DOMAIN outline = 1..Len(outline)
         /\ \A i \in DOMAIN outline :
              /\ outline[i] \in Seq(Outlined) /\ Len(outline[i]) \in Nat
              /\ DOMAIN outline[i] = 1..Len(outline[i])
              /\ \A j \in DOMAIN outline[i] : outline[i][j] \in Outlined /\ outline[i][j].q \in Bank
<1>1. Len(outline) \in Nat /\ DOMAIN outline = 1..Len(outline)  BY LenProperties DEF Outlines
<1>2. ASSUME NEW i \in DOMAIN outline
      PROVE  /\ outline[i] \in Seq(Outlined) /\ Len(outline[i]) \in Nat
             /\ DOMAIN outline[i] = 1..Len(outline[i])
  <2>1. outline[i] \in Seq(Outlined)  BY <1>1, ElementOfSeq DEF Outlines
  <2> QED  BY <2>1, LenProperties
<1>3. ASSUME NEW i \in DOMAIN outline, NEW j \in DOMAIN outline[i]
      PROVE  outline[i][j] \in Outlined /\ outline[i][j].q \in Bank
  <2>1. outline[i][j] \in Outlined  BY <1>2, <1>3, ElementOfSeq
  <2> QED  BY <2>1 DEF Outlined
<1> QED  BY <1>1, <1>2, <1>3

(* The list of sections with some of them gone or elsewhere.               *)
LEMMA SomeSections ==
  ASSUME NEW secs \in Seq(Section), Sound(secs), NEW new \in Seq(Section), Len(new) <= Len(secs),
         NEW w \in [1..Len(new) -> 1..Len(secs)],
         \A i, k \in 1..Len(new) : w[i] = w[k] => i = k,
         \A i \in 1..Len(new) : new[i] = secs[w[i]]
  PROVE  Sound(new)
<1>1. /\ Len(secs) \in Nat /\ DOMAIN secs = 1..Len(secs) /\ Len(new) \in Nat
      /\ DOMAIN new = 1..Len(new)
  BY LenProperties
<1>2. MaxSections \in Nat  BY PaperAssumption DEF PaperAssumption
<1>3. Keyed(new)  BY <1>1 DEF Sound, Keyed
<1>4. Once(new)
  <2> SUFFICES ASSUME NEW i \in 1..Len(new), NEW k \in 1..Len(new),
                      NEW j \in DOMAIN new[i].qs, NEW l \in DOMAIN new[k].qs,
                      new[i].qs[j].q = new[k].qs[l].q
               PROVE  i = k /\ j = l
    BY <1>1 DEF Once
  <2>1. w[i] = w[k] /\ j = l  BY <1>1 DEF Sound, Once
  <2> QED  BY <2>1
<1> QED  BY <1>1, <1>2, <1>3, <1>4 DEF Sound

(* The list of sections with other questions in one of them, all of which  *)
(* it had.                                                                 *)
LEMMA OneSection ==
  ASSUME NEW secs \in Seq(Section), Sound(secs), NEW i \in 1..Len(secs), NEW t \in Seq(Shown),
         NEW w \in [1..Len(t) -> 1..Len(secs[i].qs)],
         \A j, l \in 1..Len(t) : w[j] = w[l] => j = l,
         \A j \in 1..Len(t) : t[j].q = secs[i].qs[w[j]].q
  PROVE  [secs EXCEPT ![i].qs = t] \in Seq(Section) /\ Sound([secs EXCEPT ![i].qs = t])
<1> DEFINE s == [secs[i] EXCEPT !.qs = t]
           new == [secs EXCEPT ![i] = s]
<1>0. /\ Len(secs) \in Nat /\ DOMAIN secs = 1..Len(secs) /\ Len(t) \in Nat /\ DOMAIN t = 1..Len(t)
      /\ secs[i] \in Section /\ DOMAIN secs[i].qs = 1..Len(secs[i].qs)
  BY SectionElements, LenProperties
<1>1. s \in Section /\ s.qs = t /\ s.key = secs[i].key  BY <1>0 DEF Section
<1>2. [secs EXCEPT ![i].qs = t] = new  OBVIOUS
<1> HIDE DEF s
<1>3. /\ new \in Seq(Section) /\ Len(new) = Len(secs) /\ DOMAIN new = 1..Len(secs)
      /\ \A k \in 1..Len(secs) : new[k] = IF k = i THEN s ELSE secs[k]
  BY <1>0, <1>1, ExceptSeq
<1> HIDE DEF new
<1>4. Keyed(new)
  <2>1. \A k \in 1..Len(secs) : new[k].key = secs[k].key  BY <1>1, <1>3
  <2> QED  BY <1>0, <1>3, <2>1 DEF Sound, Keyed
<1>5. ASSUME NEW k \in 1..Len(secs), NEW l \in DOMAIN new[k].qs
      PROVE  \E m \in DOMAIN secs[k].qs : /\ new[k].qs[l].q = secs[k].qs[m].q
                                          /\ m = IF k = i THEN w[l] ELSE l
  <2>1. CASE k = i  BY <1>0, <1>1, <1>3, <1>5, <2>1
  <2>2. CASE k # i  BY <1>3, <1>5, <2>2
  <2> QED  BY <2>1, <2>2
<1>6. Once(new)
  <2> SUFFICES ASSUME NEW k \in 1..Len(secs), NEW n \in 1..Len(secs),
                      NEW l \in DOMAIN new[k].qs, NEW m \in DOMAIN new[n].qs,
                      new[k].qs[l].q = new[n].qs[m].q
               PROVE  k = n /\ l = m
    BY <1>3 DEF Once
  <2>1. PICK a \in DOMAIN secs[k].qs : /\ new[k].qs[l].q = secs[k].qs[a].q
                                       /\ a = IF k = i THEN w[l] ELSE l
    BY <1>5
  <2>2. PICK b \in DOMAIN secs[n].qs : /\ new[n].qs[m].q = secs[n].qs[b].q
                                       /\ b = IF n = i THEN w[m] ELSE m
    BY <1>5
  <2>3. k = n /\ a = b
    <3>1. secs[k].qs[a].q = secs[n].qs[b].q  BY <2>1, <2>2
    <3>2. k \in DOMAIN secs /\ n \in DOMAIN secs  BY <1>0
    <3>3. Once(secs)  BY DEF Sound
    <3> QED  BY <3>1, <3>2, <3>3 DEF Once
  <2>4. CASE k = i
    <3>1. l \in 1..Len(t) /\ m \in 1..Len(t)  BY <1>0, <1>1, <1>3, <2>3, <2>4
    <3> QED  BY <2>1, <2>2, <2>3, <2>4, <3>1
  <2>5. CASE k # i  BY <2>1, <2>2, <2>3, <2>5
  <2> QED  BY <2>4, <2>5
<1> QED  BY <1>2, <1>3, <1>4, <1>6 DEF Sound

(* A key that no section has.                                              *)
LEMMA KeysAreFresh ==
  ASSUME sections \in Seq(Section), Sound(sections)
  PROVE  FreshKey \in Nat /\ \A i \in DOMAIN sections : sections[i].key # FreshKey
<1> DEFINE n == Len(sections)
           K == 1..(2 * MaxSections + 1)
           Free(k) == \A s \in Range(sections) : s.key # k
<1>0. MaxSections \in Nat \ {0} /\ n \in Nat /\ n <= MaxSections /\ DOMAIN sections = 1..n
  BY PaperAssumption, LenProperties DEF PaperAssumption, Sound
<1>1. \E k \in K : Free(k)
  <2> SUFFICES ASSUME \A k \in K : ~Free(k) PROVE FALSE  OBVIOUS
  <2>1. \A k \in K : \E i \in 1..n : sections[i].key = k  BY <1>0 DEF Range
  <2> DEFINE f == [k \in K |-> CHOOSE i \in 1..n : sections[i].key = k]
  <2>2. \A k \in K : f[k] \in 1..n /\ sections[f[k]].key = k  BY <2>1
  <2>3. f \in [K -> 1..n]  BY <2>2
  <2> HIDE DEF f
  <2>4. IsFiniteSet(K) /\ Cardinality(K) = 2 * MaxSections + 1
    <3> DEFINE m == 2 * MaxSections + 1
    <3>1. 1 \in Int /\ m \in Int /\ ~(1 > m) /\ m - 1 + 1 = m  BY <1>0
    <3> HIDE DEF m
    <3>2. IsFiniteSet(1..m) /\ Cardinality(1..m) = IF 1 > m THEN 0 ELSE m - 1 + 1
      BY <3>1, FS_Interval
    <3>3. IsFiniteSet(1..m) /\ Cardinality(1..m) = m  BY <3>1, <3>2
    <3> QED  BY <3>3 DEF m
  <2>5. IsFiniteSet(1..n) /\ Cardinality(1..n) = IF 1 > n THEN 0 ELSE n - 1 + 1
    <3>1. 1 \in Int /\ n \in Int  BY <1>0
    <3> HIDE DEF n
    <3> QED  BY <3>1, FS_Interval
  <2>6. Cardinality(1..n) < Cardinality(K)  BY <1>0, <2>4, <2>5
  <2> HIDE DEF K
  <2>7. \E x, y \in K : x # y /\ f[x] = f[y]  BY <2>3, <2>4, <2>5, <2>6, FS_PigeonHole
  <2> QED  BY <2>2, <2>7
<1>2. FreshKey \in K /\ Free(FreshKey)
  <2>1. FreshKey = CHOOSE k \in K : Free(k)  BY DEF FreshKey
  <2> HIDE DEF K, Free
  <2> QED  BY <1>1, <2>1
<1> QED  BY <1>0, <1>2 DEF Range

(* A new section without questions.                                        *)
LEMMA NewSection ==
  ASSUME sections \in Seq(Section), Sound(sections), Len(sections) < MaxSections
  PROVE  LET new == Append(sections, [key |-> FreshKey, qs |-> <<>>]) IN
         new \in Seq(Section) /\ Sound(new)
<1> DEFINE e == [key |-> FreshKey, qs |-> <<>>]
           new == Append(sections, e)
           n == Len(sections)
<1>0. n \in Nat /\ DOMAIN sections = 1..n /\ MaxSections \in Nat
  BY PaperAssumption, LenProperties DEF PaperAssumption
<1>1. FreshKey \in Nat /\ \A i \in 1..n : sections[i].key # FreshKey  BY <1>0, KeysAreFresh
<1>2. e \in Section /\ e.key = FreshKey /\ e.qs = <<>>  BY <1>1 DEF Section
<1> HIDE DEF e
<1>3. /\ new \in Seq(Section) /\ Len(new) = n + 1 /\ new[n + 1] = e
      /\ \A i \in 1..n : new[i] = sections[i]
  BY <1>2, AppendProperties
<1>4. DOMAIN new = 1..(n + 1)  BY <1>3, LenProperties
<1> HIDE DEF new
<1>5. ASSUME NEW i \in 1..(n + 1) PROVE (i \in 1..n /\ new[i] = sections[i]) \/ (i = n + 1 /\ new[i] = e)
  BY <1>0, <1>3
<1>6. Keyed(new)
  BY <1>0, <1>1, <1>2, <1>4, <1>5 DEF Sound, Keyed
<1>7. Once(new)
  <2>1. DOMAIN e.qs = {}  BY <1>2
  <2>2. Once(sections)  BY DEF Sound
  <2> SUFFICES ASSUME NEW i \in 1..(n + 1), NEW k \in 1..(n + 1),
                      NEW j \in DOMAIN new[i].qs, NEW l \in DOMAIN new[k].qs,
                      new[i].qs[j].q = new[k].qs[l].q
               PROVE  i = k /\ j = l
    BY <1>4 DEF Once
  <2>3. i \in 1..n /\ k \in 1..n /\ new[i] = sections[i] /\ new[k] = sections[k]
    BY <1>5, <2>1
  <2> QED  BY <1>0, <2>2, <2>3 DEF Once
<1>8. Len(new) <= MaxSections  BY <1>0, <1>3
<1> QED  BY <1>3, <1>6, <1>7, <1>8 DEF Sound, new, e

(* Questions that the paper does not have, added to a section.             *)
LEMMA MoreQuestions ==
  ASSUME NEW secs \in Seq(Section), Sound(secs), NEW added \in Seq(Shown), NEW key,
         \A j, l \in DOMAIN added : added[j].q = added[l].q => j = l,
         \A j \in DOMAIN added : added[j].q \notin Picked(secs)
  PROVE  LET new == [i \in DOMAIN secs |-> IF secs[i].key # key THEN secs[i]
                                           ELSE [secs[i] EXCEPT !.qs = @ \o added]] IN
         new \in Seq(Section) /\ Sound(new)
<1> DEFINE n == Len(secs)
           more(i) == [secs[i] EXCEPT !.qs = @ \o added]
           new == [i \in DOMAIN secs |-> IF secs[i].key # key THEN secs[i] ELSE more(i)]
<1>0. /\ n \in Nat /\ DOMAIN secs = 1..n /\ Len(added) \in Nat /\ DOMAIN added = 1..Len(added)
      /\ n <= MaxSections /\ Keyed(secs) /\ Once(secs)
  BY LenProperties DEF Sound
<1>1. ASSUME NEW i \in 1..n
      PROVE  /\ secs[i] \in Section /\ secs[i].qs \in Seq(Shown)
             /\ Len(secs[i].qs) \in Nat /\ DOMAIN secs[i].qs = 1..Len(secs[i].qs)
  BY <1>0, SectionElements
<1>2. ASSUME NEW i \in 1..n, NEW j \in DOMAIN secs[i].qs PROVE secs[i].qs[j].q \in Picked(secs)
  BY <1>0, <1>2 DEF Picked, Range
<1>3. ASSUME NEW i \in 1..n
      PROVE  /\ more(i) \in Section /\ more(i).key = secs[i].key
             /\ \A j \in DOMAIN more(i).qs :
                  \/ j \in DOMAIN secs[i].qs /\ more(i).qs[j] = secs[i].qs[j]
                  \/ j - Len(secs[i].qs) \in DOMAIN added /\ more(i).qs[j] = added[j - Len(secs[i].qs)] /\ j \in Nat
  <2> DEFINE qs == secs[i].qs
             both == qs \o added
  <2>1. /\ both \in Seq(Shown) /\ Len(both) = Len(qs) + Len(added)
        /\ \A j \in 1..(Len(qs) + Len(added)) :
             both[j] = IF j <= Len(qs) THEN qs[j] ELSE added[j - Len(qs)]
    BY <1>1, ConcatProperties
  <2>2. DOMAIN both = 1..(Len(qs) + Len(added))  BY <2>1, LenProperties
  <2> HIDE DEF both
  <2>3. more(i) = [secs[i] EXCEPT !.qs = both]  BY DEF both
  <2>4. more(i) \in Section /\ more(i).key = secs[i].key /\ more(i).qs = both
    BY <1>1, <2>1, <2>3 DEF Section
  <2> HIDE DEF more
  <2>5. ASSUME NEW j \in 1..(Len(qs) + Len(added))
        PROVE  \/ j \in DOMAIN qs /\ both[j] = qs[j]
               \/ j - Len(qs) \in DOMAIN added /\ both[j] = added[j - Len(qs)] /\ j \in Nat
    BY <1>0, <1>1, <2>1
  <2> QED  BY <2>2, <2>4, <2>5
<1> HIDE DEF more
<1>4. \A i \in 1..n : new[i] \in Section /\ new[i].key = secs[i].key
  BY <1>0, <1>1, <1>3
<1>5. new \in Seq(Section) /\ Len(new) = n /\ DOMAIN new = 1..n
  BY <1>0, <1>4
<1>6. \A i \in 1..n : new[i] = IF secs[i].key # key THEN secs[i] ELSE more(i)  BY <1>0
<1> HIDE DEF new
<1>7. Keyed(new)  BY <1>0, <1>4, <1>5 DEF Keyed
<1>8. ASSUME NEW i \in 1..n, NEW j \in DOMAIN new[i].qs
      PROVE  \/ j \in DOMAIN secs[i].qs /\ new[i].qs[j] = secs[i].qs[j]
             \/ /\ secs[i].key = key /\ j \in Nat /\ j - Len(secs[i].qs) \in DOMAIN added
                /\ new[i].qs[j] = added[j - Len(secs[i].qs)]
  <2>1. CASE secs[i].key # key  BY <1>6, <1>8, <2>1
  <2>2. CASE secs[i].key = key
    <3>1. new[i] = more(i)  BY <1>6, <2>2
    <3>2. j \in DOMAIN more(i).qs  BY <1>8, <3>1
    <3> QED  BY <1>3, <2>2, <3>1, <3>2
  <2> QED  BY <2>1, <2>2
<1>9. Once(new)
  <2> SUFFICES ASSUME NEW i \in 1..n, NEW k \in 1..n,
                      NEW j \in DOMAIN new[i].qs, NEW l \in DOMAIN new[k].qs,
                      new[i].qs[j].q = new[k].qs[l].q
               PROVE  i = k /\ j = l
    BY <1>5 DEF Once
  <2>1. CASE /\ j \in DOMAIN secs[i].qs /\ new[i].qs[j] = secs[i].qs[j]
             /\ l \in DOMAIN secs[k].qs /\ new[k].qs[l] = secs[k].qs[l]
    BY <1>0, <2>1 DEF Once
  <2>2. CASE /\ j \in DOMAIN secs[i].qs /\ new[i].qs[j] = secs[i].qs[j]
             /\ l - Len(secs[k].qs) \in DOMAIN added /\ new[k].qs[l] = added[l - Len(secs[k].qs)]
    BY <1>2, <2>2
  <2>3. CASE /\ l \in DOMAIN secs[k].qs /\ new[k].qs[l] = secs[k].qs[l]
             /\ j - Len(secs[i].qs) \in DOMAIN added /\ new[i].qs[j] = added[j - Len(secs[i].qs)]
    BY <1>2, <2>3
  <2>4. CASE /\ secs[i].key = key /\ j \in Nat /\ j - Len(secs[i].qs) \in DOMAIN added
             /\ new[i].qs[j] = added[j - Len(secs[i].qs)]
             /\ secs[k].key = key /\ l \in Nat /\ l - Len(secs[k].qs) \in DOMAIN added
             /\ new[k].qs[l] = added[l - Len(secs[k].qs)]
    <3>1. i = k  BY <1>0, <2>4 DEF Keyed
    <3>2. j - Len(secs[i].qs) = l - Len(secs[i].qs)  BY <2>4, <3>1
    <3> QED  BY <1>1, <2>4, <3>1, <3>2
  <2> QED  BY <1>8, <2>1, <2>2, <2>3, <2>4
<1> QED  BY <1>0, <1>5, <1>7, <1>9 DEF Sound, new, more

(* What the page sends of its sections.                                    *)
LEMMA OutlineOfSections ==
  ASSUME NEW secs \in Seq(Section), Sound(secs)
  PROVE  /\ OutlineOf(secs) \in Outlines /\ SoundOutline(OutlineOf(secs))
         /\ CanPublish(secs) => Items(OutlineOf(secs)) # {}
<1> DEFINE n == Len(secs)
           part(i) == [j \in DOMAIN secs[i].qs |-> [q |-> secs[i].qs[j].q, scored |-> secs[i].qs[j].scored]]
           o == OutlineOf(secs)
<1>0. n \in Nat /\ DOMAIN secs = 1..n /\ n <= MaxSections /\ Once(secs)  BY LenProperties DEF Sound
<1>1. ASSUME NEW i \in 1..n
      PROVE  /\ part(i) \in Seq(Outlined) /\ DOMAIN part(i) = DOMAIN secs[i].qs
             /\ \A j \in DOMAIN part(i) : part(i)[j].q = secs[i].qs[j].q
  <2>1. /\ Len(secs[i].qs) \in Nat /\ DOMAIN secs[i].qs = 1..Len(secs[i].qs)
        /\ \A j \in DOMAIN secs[i].qs : secs[i].qs[j].q \in Bank /\ secs[i].qs[j].scored \in BOOLEAN
    BY <1>0, SectionElements
  <2>2. \A j \in DOMAIN secs[i].qs : [q |-> secs[i].qs[j].q, scored |-> secs[i].qs[j].scored] \in Outlined
    BY <2>1 DEF Outlined
  <2> QED  BY <2>1, <2>2
<1>2. o = [i \in 1..n |-> part(i)]  BY <1>0 DEF OutlineOf
<1> HIDE DEF part, o
<1>3. o \in Seq(Seq(Outlined)) /\ Len(o) = n /\ DOMAIN o = 1..n /\ \A i \in 1..n : o[i] = part(i)
  BY <1>0, <1>1, <1>2
<1>4. SoundOutline(o)
  <2> SUFFICES ASSUME NEW i \in 1..n, NEW k \in 1..n, NEW j \in DOMAIN o[i], NEW l \in DOMAIN o[k],
                      o[i][j].q = o[k][l].q
               PROVE  i = k /\ j = l
    BY <1>0, <1>3 DEF SoundOutline
  <2>1. j \in DOMAIN secs[i].qs /\ l \in DOMAIN secs[k].qs /\ secs[i].qs[j].q = secs[k].qs[l].q
    BY <1>1, <1>3
  <2> QED  BY <1>0, <2>1 DEF Once
<1>5. ASSUME CanPublish(secs) PROVE Items(o) # {}
  <2>1. UNION {Range(s.qs) : s \in Range(secs)} # {}  BY <1>5 DEF CanPublish
  <2>2. PICK item \in UNION {Range(s.qs) : s \in Range(secs)} : TRUE  BY <2>1
  <2>a. PICK s \in Range(secs) : item \in Range(s.qs)  BY <2>2
  <2>b. PICK i \in 1..n : s = secs[i]  BY <1>0 DEF Range
  <2>3. PICK j \in DOMAIN secs[i].qs : TRUE  BY <2>a, <2>b DEF Range
  <2>4. j \in DOMAIN o[i]  BY <1>1, <1>3
  <2>5. o[i][j] \in Range(o[i])  BY <2>4 DEF Range
  <2> QED  BY <1>3, <2>5 DEF Items
<1> QED  BY <1>3, <1>4, <1>5 DEF Outlines, o

(* What the page shows of an outline, and that it would send the same.     *)
ShownOutline(outline) == IF outline = <<>> THEN << <<>> >> ELSE outline

(* Normalizing an outline just read, with whatever questions released,     *)
(* gives sections that send it back as it was.                             *)
LEMMA SectionsOfOutline ==
  ASSUME NEW outline \in Outlines, SoundOutline(outline), NEW R
  PROVE  LET secs == IF outline = <<>> THEN DefaultSections
                     ELSE [i \in DOMAIN outline |->
                             [key |-> i, qs |-> [j \in DOMAIN outline[i] |->
                                [q |-> outline[i][j].q, scored |-> outline[i][j].scored,
                                 pub |-> outline[i][j].q \in R]]]] IN
         /\ secs \in Seq(Section) /\ Sound(secs) /\ secs # <<>>
         /\ OutlineOf(secs) = ShownOutline(outline)
<1>0. MaxSections \in Nat \ {0}  BY PaperAssumption DEF PaperAssumption
<1>1. CASE outline = <<>>
  <2>1. [key |-> 1, qs |-> <<>>] \in Section  BY DEF Section
  <2>2. DefaultSections \in Seq(Section) /\ Len(DefaultSections) = 1 /\ DefaultSections # <<>>
    BY <2>1 DEF DefaultSections
  <2>3. /\ DOMAIN DefaultSections = {1} /\ DefaultSections[1].qs = <<>>
        /\ DOMAIN DefaultSections[1].qs = {}
    BY DEF DefaultSections
  <2>4. Keyed(DefaultSections) /\ Once(DefaultSections)  BY <2>3 DEF Keyed, Once
  <2>5. OutlineOf(DefaultSections) = << <<>> >>
    <3>1. OutlineOf(DefaultSections) = [i \in {1} |-> [j \in {} |->
            [q |-> DefaultSections[i].qs[j].q, scored |-> DefaultSections[i].qs[j].scored]]]
      BY <2>3 DEF OutlineOf
    <3> QED  BY <3>1
  <2> QED  BY <1>0, <1>1, <2>2, <2>4, <2>5 DEF Sound, ShownOutline
<1>2. CASE outline # <<>>
  <2> DEFINE n == Len(outline)
             item(i, j) == [q |-> outline[i][j].q, scored |-> outline[i][j].scored,
                            pub |-> outline[i][j].q \in R]
             part(i) == [key |-> i, qs |-> [j \in DOMAIN outline[i] |-> item(i, j)]]
             secs == [i \in DOMAIN outline |-> part(i)]
  <2>0. n \in Nat /\ DOMAIN outline = 1..n /\ n <= MaxSections /\ n # 0
    <3>1. outline \in Seq(Seq(Outlined))  BY DEF Outlines
    <3> QED  BY <1>2, <3>1, EmptySeq, LenProperties DEF SoundOutline
  <2>1. ASSUME NEW i \in 1..n
        PROVE  /\ part(i) \in Section /\ part(i).key = i
               /\ DOMAIN part(i).qs = DOMAIN outline[i]
               /\ \A j \in DOMAIN outline[i] : part(i).qs[j] = item(i, j)
    <3>1. /\ Len(outline[i]) \in Nat /\ DOMAIN outline[i] = 1..Len(outline[i])
          /\ \A j \in DOMAIN outline[i] : outline[i][j] \in Outlined
      BY <2>0, OutlineElements
    <3>2. \A j \in DOMAIN outline[i] : item(i, j) \in Shown  BY <3>1 DEF Outlined, Shown
    <3> HIDE DEF item
    <3>3. [j \in DOMAIN outline[i] |-> item(i, j)] \in Seq(Shown)  BY <3>1, <3>2
    <3> QED  BY <2>0, <3>3 DEF Section
  <2> HIDE DEF part
  <2>2. secs \in Seq(Section) /\ Len(secs) = n /\ DOMAIN secs = 1..n /\ \A i \in 1..n : secs[i] = part(i)
    BY <2>0, <2>1
  <2> HIDE DEF secs
  <2>3. Keyed(secs)  BY <2>1, <2>2 DEF Keyed
  <2>a. ASSUME NEW i \in 1..n, NEW j \in DOMAIN secs[i].qs
        PROVE  /\ j \in DOMAIN outline[i] /\ secs[i].qs[j].q = outline[i][j].q
               /\ secs[i].qs[j].scored = outline[i][j].scored
    <3>1. j \in DOMAIN outline[i] /\ secs[i].qs[j] = item(i, j)  BY <2>1, <2>2, <2>a
    <3> QED  BY <3>1
  <2>4. Once(secs)
    <3> SUFFICES ASSUME NEW i \in 1..n, NEW k \in 1..n,
                        NEW j \in DOMAIN secs[i].qs, NEW l \in DOMAIN secs[k].qs,
                        secs[i].qs[j].q = secs[k].qs[l].q
                 PROVE  i = k /\ j = l
      BY <2>2 DEF Once
    <3>1. /\ j \in DOMAIN outline[i] /\ l \in DOMAIN outline[k]
          /\ outline[i][j].q = outline[k][l].q
      BY <2>a
    <3> HIDE DEF secs
    <3> QED  BY <2>0, <3>1 DEF SoundOutline
  <2>5. OutlineOf(secs) = outline
    <3>1. ASSUME NEW i \in 1..n
          PROVE  [j \in DOMAIN secs[i].qs |-> [q |-> secs[i].qs[j].q, scored |-> secs[i].qs[j].scored]]
                 = outline[i]
      <4>1. /\ outline[i] \in Seq(Outlined) /\ DOMAIN outline[i] = 1..Len(outline[i])
            /\ \A j \in DOMAIN outline[i] : outline[i][j] \in Outlined
        BY <2>0, OutlineElements
      <4>2. DOMAIN secs[i].qs = DOMAIN outline[i]  BY <2>1, <2>2
      <4>3. ASSUME NEW j \in DOMAIN outline[i]
            PROVE  [q |-> secs[i].qs[j].q, scored |-> secs[i].qs[j].scored] = outline[i][j]
        <5>1. secs[i].qs[j].q = outline[i][j].q /\ secs[i].qs[j].scored = outline[i][j].scored
          <6>1. j \in DOMAIN secs[i].qs  BY <4>2
          <6> QED  BY <2>a, <6>1
        <5>2. outline[i][j] = [q |-> outline[i][j].q, scored |-> outline[i][j].scored]
          BY <4>1 DEF Outlined
        <5> QED  BY <5>1, <5>2
      <4>4. outline[i] = [j \in DOMAIN outline[i] |-> outline[i][j]]  BY <4>1
      <4> QED  BY <4>2, <4>3, <4>4
    <3>2. outline = [i \in 1..n |-> outline[i]]
      <4>1. outline \in Seq(Seq(Outlined))  BY DEF Outlines
      <4> QED  BY <4>1, <2>0
    <3> QED  BY <2>2, <3>1, <3>2 DEF OutlineOf
  <2>6. secs # <<>>  BY <2>0, <2>2
  <2> QED  BY <1>2, <2>0, <2>2, <2>3, <2>4, <2>5, <2>6 DEF Sound, ShownOutline, secs, part
<1> QED  BY <1>1, <1>2

(* The sequence that lists a finite set has each element once.             *)
LEMMA ListedOnce ==
  ASSUME NEW T, IsFiniteSet(T)
  PROVE  /\ Cardinality(T) \in Nat /\ SetToSeq(T) \in [1..Cardinality(T) -> T]
         /\ \A j, l \in 1..Cardinality(T) : SetToSeq(T)[j] = SetToSeq(T)[l] => j = l
<1>1. Cardinality(T) \in Nat /\ ExistsBijection(1..Cardinality(T), T)  BY FS_CardinalityType
<1>2. \E f \in [1..Cardinality(T) -> T] : IsInjective(f)
  BY <1>1 DEF ExistsBijection, Bijection, Injection
<1>3. SetToSeq(T) \in [1..Cardinality(T) -> T] /\ IsInjective(SetToSeq(T))  BY <1>2 DEF SetToSeq
<1> QED  BY <1>1, <1>3 DEF IsInjective

(* The position an element is moved from is its own.                       *)
LEMMA WhenceOnce ==
  ASSUME NEW n \in Nat, NEW from \in 1..n, NEW to \in 1..n
  PROVE  \A i, k \in 1..n : Whence(from, to, i) = Whence(from, to, k) => i = k
BY DEF Whence

(* The request under way, what it is to store, what is stored already and  *)
(* what the page shows: a published paper is always made of a draft, the   *)
(* paper that the second and third requests are about is the job's own,    *)
(* and a page left alone shows the paper the job has stored.               *)
AllSound ==
  Sound(sections) /\ Sound(original) /\ SoundOutline(store.outline) /\ SoundOutline(job.outline)

StepsAgree ==
  /\ psaving <=> step.name \in {"paper", "outline", "publish"}
  /\ ploading <=> step.name = "load"

JobAgrees ==
  /\ job.defer => job.status = "PUBLISHED"
  /\ psaving /\ job.status = "PUBLISHED" => Items(job.outline) # {} /\ (creating => job.defer)
  /\ step.name = "publish" => job.defer

StoreAgrees ==
  /\ (step.name = "paper" /\ step.answer = "done") \/ step.name = "outline" =>
       store.paper = [live |-> TRUE, title |-> job.title, status |-> FirstStatus]
  /\ step.name = "publish" => store.paper.live /\ store.paper.title = job.title
  /\ step.name = "publish" /\ step.answer = "done" => store.paper.status = "PUBLISHED"
  /\ ~creating => store.paper.live

Calm == ~torn /\ ~hasty /\ ~creating /\ ~psaving /\ ~ploading

PageAgrees ==
  /\ Calm => copy = store.paper /\ OutlineOf(original) = ShownOutline(store.outline)
  /\ Calm /\ ~pdirty =>
       /\ fields = [title |-> store.paper.title, status |-> store.paper.status]
       /\ OutlineOf(sections) = ShownOutline(store.outline)
  /\ psaving /\ ~hasty => fields = [title |-> job.title, status |-> job.status]
  /\ step.name = "publish" /\ ~hasty =>
       /\ OutlineOf(original) = ShownOutline(store.outline)
       /\ OutlineOf(sections) = ShownOutline(store.outline)

(* The questions that no withdrawal can take from a paper any more, or     *)
(* that it may: their history says so.                                     *)
Firm == (released \ withdrawing) \cup crossed

ReadyAgrees ==
  /\ store.paper.status = "PUBLISHED" =>
       /\ Items(store.outline) # {}
       /\ \A item \in Items(store.outline) : item.scored /\ item.q \in Firm
  /\ step.answer = "checked" =>
       /\ Checked /\ (step.name # "outline" => Items(store.outline) # {})
       /\ \A item \in Items(About) : item.scored /\ item.q \in Firm

PaperInv ==
  /\ PaperTyped /\ AllSound /\ StepsAgree /\ JobAgrees /\ StoreAgrees /\ PageAgrees
  /\ ReadyAgrees

(* A step of the page alone.                                               *)
LEMMA ReadyStays ==
  ASSUME ReadyAgrees, UNCHANGED <<store, released, withdrawing, crossed>>, step'.answer # "checked"
  PROVE  ReadyAgrees'
BY DEF ReadyAgrees, Firm

(* The sections of a page without a paper.                                 *)
LEMMA DefaultIsSound ==
  /\ <<>> \in Outlines /\ SoundOutline(<<>>)
  /\ DefaultSections \in Seq(Section) /\ Sound(DefaultSections)
  /\ <<>> \in Seq(Section) /\ Sound(<<>>)
<1>0. MaxSections \in Nat  BY PaperAssumption DEF PaperAssumption
<1>1. <<>> \in Outlines /\ SoundOutline(<<>>)  BY <1>0 DEF Outlines, SoundOutline
<1>2. <<>> \in Seq(Section) /\ Sound(<<>>)  BY <1>0 DEF Sound, Keyed, Once
<1>3. DefaultSections \in Seq(Section) /\ Sound(DefaultSections)
  BY <1>1, SectionsOfOutline
<1> QED  BY <1>1, <1>2, <1>3

(* An edit of the fields or of the sections, by whichever handler.         *)
LEMMA PaperEditKeeps ==
  ASSUME PaperInv, Touch, UNCHANGED Working, sections' \in Seq(Section), Sound(sections'),
         fields' \in [title : 0..MaxTitles, status : Statuses], active' \in Nat,
         picker' \in [open : BOOLEAN, found : SUBSET Bank]
  PROVE  PaperInv'
<1> USE DEF PaperInv, Touch, Working, Server
<1>1. PaperTyped'
  <2>1. edits' \in 0..MaxEdits
    BY PaperAssumption DEF PaperTyped, PaperAssumption
  <2>2. hasty' \in BOOLEAN  BY Zenon DEF PaperTyped
  <2>3. pdirty' \in BOOLEAN  OBVIOUS
  <2> QED  BY <2>1, <2>2, <2>3 DEF PaperTyped
<1>2. AllSound'  BY DEF AllSound
<1>3. StepsAgree' /\ JobAgrees'  BY DEF StepsAgree, JobAgrees
<1>4. StoreAgrees'  BY DEF StoreAgrees, FirstStatus
<1>5. PageAgrees'
  <2>1. pdirty' /\ (hasty' <=> hasty \/ psaving)  OBVIOUS
  <2>2. step.name = "publish" => psaving  BY DEF StepsAgree
  <2>3. /\ copy' = copy /\ store' = store /\ original' = original /\ psaving' = psaving
        /\ ploading' = ploading /\ creating' = creating /\ torn' = torn /\ step' = step
    OBVIOUS
  <2> QED  BY <2>1, <2>2, <2>3 DEF PageAgrees, Calm, OutlineOf
<1>6. ReadyAgrees'  BY DEF ReadyAgrees, Firm, Checked, About, FirstStatus
<1> QED  BY <1>1, <1>2, <1>3, <1>4, <1>5, <1>6

(* The sections after each edit of them.                                   *)
LEMMA RemovedSections ==
  ASSUME sections \in Seq(Section), Sound(sections), NEW i \in DOMAIN sections,
         NEW new, new = IF RemoveAt(sections, i) = <<>> THEN <<[key |-> FreshKey, qs |-> <<>>]>>
                        ELSE RemoveAt(sections, i)
  PROVE  new \in Seq(Section) /\ Sound(new)
<1> DEFINE n == Len(sections)
           r == RemoveAt(sections, i)
           w == [k \in 1..(n - 1) |-> IF k < i THEN k ELSE k + 1]
<1>0. n \in Nat /\ DOMAIN sections = 1..n /\ i \in 1..n  BY LenProperties
<1>1. /\ r \in Seq(Section) /\ Len(r) = n - 1
      /\ \A k \in 1..(n - 1) : r[k] = IF k < i THEN sections[k] ELSE sections[k + 1]
  BY <1>0, RemovedAt
<1>2. CASE r # <<>>
  <2>1. w \in [1..Len(r) -> 1..n] /\ \A j, k \in 1..Len(r) : w[j] = w[k] => j = k
    BY <1>0, <1>1
  <2>2. \A k \in 1..Len(r) : r[k] = sections[w[k]]  BY <1>0, <1>1
  <2>3. Len(r) <= n  BY <1>0, <1>1
  <2> HIDE DEF r, w
  <2>4. Sound(r)  BY <1>1, <2>1, <2>2, <2>3, SomeSections
  <2> QED  BY <1>1, <1>2, <2>4 DEF r
<1>3. CASE r = <<>>
  <2> DEFINE e == [key |-> FreshKey, qs |-> <<>>]
  <2>1. FreshKey \in Nat  BY KeysAreFresh
  <2>2. e \in Section /\ e.qs = <<>>  BY <2>1 DEF Section
  <2> HIDE DEF e
  <2>3. new = <<e>>  BY <1>3 DEF e
  <2>4. new \in Seq(Section) /\ Len(new) = 1 /\ DOMAIN new = {1} /\ new[1] = e
    <3>1. <<e>> \in Seq(Section) /\ Len(<<e>>) = 1 /\ <<e>>[1] = e  BY <2>2
    <3>2. DOMAIN <<e>> = 1..Len(<<e>>)  BY <3>1, LenProperties
    <3>3. 1..1 = {1}  OBVIOUS
    <3> QED  BY <2>3, <3>1, <3>2, <3>3
  <2>5. DOMAIN new[1].qs = {}  BY <2>2, <2>4
  <2>6. MaxSections \in Nat \ {0}  BY PaperAssumption DEF PaperAssumption
  <2>7. Keyed(new) /\ Once(new)  BY <2>4, <2>5 DEF Keyed, Once
  <2> QED  BY <2>4, <2>6, <2>7 DEF Sound
<1> QED  BY <1>2, <1>3

(* moveSection.                                                            *)
LEMMA SwappedSections ==
  ASSUME sections \in Seq(Section), Sound(sections), NEW i \in DOMAIN sections, i + 1 \in DOMAIN sections
  PROVE  Swapped(sections, i) \in Seq(Section) /\ Sound(Swapped(sections, i))
<1> DEFINE n == Len(sections)
           s == Swapped(sections, i)
           w == [k \in 1..n |-> IF k = i THEN i + 1 ELSE IF k = i + 1 THEN i ELSE k]
<1>0. n \in Nat /\ DOMAIN sections = 1..n /\ i \in 1..n /\ i + 1 \in 1..n  BY LenProperties
<1>a. \A k \in 1..n : sections[k] \in Section  BY <1>0, SectionElements
<1>1. s = [k \in 1..n |-> IF k = i + 1 THEN sections[i] ELSE IF k = i THEN sections[i + 1] ELSE sections[k]]
  BY <1>0 DEF Swapped
<1>2. s \in Seq(Section) /\ Len(s) = n /\ \A k \in 1..n : s[k] = sections[w[k]]
  BY <1>0, <1>a, <1>1
<1>3. w \in [1..n -> 1..n] /\ \A j, k \in 1..n : w[j] = w[k] => j = k  BY <1>0
<1>4. /\ Len(s) <= Len(sections) /\ w \in [1..Len(s) -> 1..Len(sections)]
      /\ \A j, k \in 1..Len(s) : w[j] = w[k] => j = k
      /\ \A k \in 1..Len(s) : s[k] = sections[w[k]]
  <2> HIDE DEF s, w
  <2> QED  BY <1>0, <1>2, <1>3
<1> HIDE DEF s, w, n
<1>5. Sound(s)  BY <1>2, <1>4, SomeSections
<1> QED  BY <1>2, <1>5 DEF s

(* moveQuestionWithinSection.                                              *)
LEMMA DraggedQuestion ==
  ASSUME sections \in Seq(Section), Sound(sections), NEW i \in DOMAIN sections,
         NEW from \in DOMAIN sections[i].qs, NEW to \in DOMAIN sections[i].qs,
         NEW new, new = [sections EXCEPT ![i].qs = InsertAt(RemoveAt(@, from), to, @[from])]
  PROVE  new \in Seq(Section) /\ Sound(new)
<1> DEFINE qs == sections[i].qs
           t == Moved(qs, from, to)
           w == [k \in 1..Len(qs) |-> Whence(from, to, k)]
<1>0. /\ Len(qs) \in Nat /\ DOMAIN qs = 1..Len(qs) /\ qs \in Seq(Shown)
      /\ i \in 1..Len(sections)
  BY SectionElements
<1>1. /\ t \in Seq(Shown) /\ Len(t) = Len(qs)
      /\ \A k \in 1..Len(qs) : Whence(from, to, k) \in 1..Len(qs) /\ t[k] = qs[Whence(from, to, k)]
  <2>1. qs \in Seq(Shown) /\ from \in 1..Len(qs) /\ to \in 1..Len(qs)  BY <1>0
  <2> HIDE DEF qs
  <2>2. Moved(qs, from, to) \in Seq(Shown) /\ Len(Moved(qs, from, to)) = Len(qs)
    BY ONLY <2>1, MovedElements
  <2>3. \A k \in 1..Len(qs) : /\ Whence(from, to, k) \in 1..Len(qs)
                              /\ Moved(qs, from, to)[k] = qs[Whence(from, to, k)]
    BY ONLY <2>1, MovedElements
  <2> QED  BY <2>2, <2>3
<1>2. \A j, k \in 1..Len(qs) : Whence(from, to, j) = Whence(from, to, k) => j = k
  BY <1>0, WhenceOnce
<1>3. new = [sections EXCEPT ![i].qs = t]  BY DEF Moved
<1>4. w \in [1..Len(t) -> 1..Len(qs)] /\ \A j, k \in 1..Len(t) : w[j] = w[k] => j = k
  BY <1>1, <1>2
<1>5. \A k \in 1..Len(t) : t[k].q = qs[w[k]].q  BY <1>1
<1>6. w \in [1..Len(t) -> 1..Len(sections[i].qs)] /\ \A k \in 1..Len(t) : t[k].q = sections[i].qs[w[k]].q
  BY <1>4, <1>5
<1> HIDE DEF t, w, qs
<1>7. [sections EXCEPT ![i].qs = t] \in Seq(Section) /\ Sound([sections EXCEPT ![i].qs = t])
  BY <1>0, <1>1, <1>4, <1>6, OneSection
<1> QED  BY <1>3, <1>7

(* removeQuestion.                                                         *)
LEMMA RemovedQuestion ==
  ASSUME sections \in Seq(Section), Sound(sections), NEW i \in DOMAIN sections,
         NEW j \in DOMAIN sections[i].qs,
         NEW new, new = [sections EXCEPT ![i].qs = RemoveAt(@, j)]
  PROVE  new \in Seq(Section) /\ Sound(new)
<1> DEFINE qs == sections[i].qs
           t == RemoveAt(qs, j)
           w == [k \in 1..(Len(qs) - 1) |-> IF k < j THEN k ELSE k + 1]
<1>0. /\ Len(qs) \in Nat /\ DOMAIN qs = 1..Len(qs) /\ qs \in Seq(Shown)
      /\ i \in 1..Len(sections)
  BY SectionElements
<1>1. /\ t \in Seq(Shown) /\ Len(t) = Len(qs) - 1
      /\ \A k \in 1..(Len(qs) - 1) : t[k] = IF k < j THEN qs[k] ELSE qs[k + 1]
  BY <1>0, RemovedAt
<1>3. new = [sections EXCEPT ![i].qs = t]  OBVIOUS
<1>4. w \in [1..Len(t) -> 1..Len(qs)] /\ \A k, l \in 1..Len(t) : w[k] = w[l] => k = l
  BY <1>0, <1>1
<1>5. \A k \in 1..Len(t) : t[k].q = qs[w[k]].q  BY <1>0, <1>1
<1>6. w \in [1..Len(t) -> 1..Len(sections[i].qs)] /\ \A k \in 1..Len(t) : t[k].q = sections[i].qs[w[k]].q
  BY <1>4, <1>5
<1> HIDE DEF t, w, qs
<1>7. [sections EXCEPT ![i].qs = t] \in Seq(Section) /\ Sound([sections EXCEPT ![i].qs = t])
  BY <1>0, <1>1, <1>4, <1>6, OneSection
<1> QED  BY <1>3, <1>7

(* updateQuestion.                                                         *)
LEMMA RescoredQuestion ==
  ASSUME sections \in Seq(Section), Sound(sections), NEW i \in DOMAIN sections,
         NEW j \in DOMAIN sections[i].qs,
         NEW new, new = [sections EXCEPT ![i].qs[j].scored = ~@]
  PROVE  new \in Seq(Section) /\ Sound(new)
<1> DEFINE qs == sections[i].qs
           item == [qs[j] EXCEPT !.scored = ~@]
           t == [qs EXCEPT ![j] = item]
           w == [k \in 1..Len(qs) |-> k]
<1>0. /\ Len(qs) \in Nat /\ DOMAIN qs = 1..Len(qs) /\ qs \in Seq(Shown)
      /\ i \in 1..Len(sections) /\ qs[j] \in Shown
  BY SectionElements
<1>1. item \in Shown /\ item.q = qs[j].q  BY <1>0 DEF Shown
<1>2. new = [sections EXCEPT ![i].qs = t]  OBVIOUS
<1> HIDE DEF item
<1>3. /\ t \in Seq(Shown) /\ Len(t) = Len(qs)
      /\ \A k \in 1..Len(qs) : t[k] = IF k = j THEN item ELSE qs[k]
  BY <1>0, <1>1, ExceptSeq
<1>4. w \in [1..Len(t) -> 1..Len(qs)] /\ \A k, l \in 1..Len(t) : w[k] = w[l] => k = l
  BY <1>0, <1>3
<1>5. \A k \in 1..Len(t) : t[k].q = qs[w[k]].q  BY <1>0, <1>1, <1>3
<1>6. w \in [1..Len(t) -> 1..Len(sections[i].qs)] /\ \A k \in 1..Len(t) : t[k].q = sections[i].qs[w[k]].q
  BY <1>4, <1>5
<1> HIDE DEF t, w, qs
<1>7. [sections EXCEPT ![i].qs = t] \in Seq(Section) /\ Sound([sections EXCEPT ![i].qs = t])
  BY <1>0, <1>3, <1>4, <1>6, OneSection
<1> QED  BY <1>2, <1>7

(* What the picker returns, without what the paper has by now.             *)
LEMMA AddedQuestions ==
  ASSUME sections \in Seq(Section), Sound(sections), NEW questions \in SUBSET Bank
  PROVE  LET added == SetToSeq(questions \ Picked(sections))
             new   == [i \in DOMAIN sections |->
                         IF sections[i].key # active THEN sections[i]
                         ELSE [sections[i] EXCEPT !.qs = @ \o
                                 [k \in DOMAIN added |-> [q |-> added[k], scored |-> TRUE, pub |-> TRUE]]]] IN
         new \in Seq(Section) /\ Sound(new)
<1> DEFINE T == questions \ Picked(sections)
           added == SetToSeq(questions \ Picked(sections))
           new == [i \in DOMAIN sections |->
                     IF sections[i].key # active THEN sections[i]
                     ELSE [sections[i] EXCEPT !.qs = @ \o
                             [k \in DOMAIN added |-> [q |-> added[k], scored |-> TRUE, pub |-> TRUE]]]]
           item(k) == [q |-> added[k], scored |-> TRUE, pub |-> TRUE]
           more == [k \in DOMAIN added |-> item(k)]
<1>1. IsFiniteSet(T)
  <2>1. IsFiniteSet(Bank) /\ T \in SUBSET Bank  BY PaperAssumption DEF PaperAssumption
  <2> HIDE DEF T
  <2> QED  BY <2>1, FS_Subset
<1>2. /\ Cardinality(T) \in Nat /\ added \in [1..Cardinality(T) -> T]
      /\ \A j, l \in 1..Cardinality(T) : added[j] = added[l] => j = l
  <2>1. added = SetToSeq(T)  OBVIOUS
  <2> HIDE DEF T
  <2> QED  BY <1>1, <2>1, ListedOnce
<1>3. \A k \in DOMAIN added : added[k] \in Bank /\ added[k] \notin Picked(sections)
  BY <1>2
<1>4. DOMAIN added = 1..Cardinality(T)  BY <1>2
<1> HIDE DEF T, added
<1>5. \A k \in DOMAIN added : item(k) \in Shown /\ item(k).q = added[k]
  BY <1>3 DEF Shown
<1> HIDE DEF item
<1>6. more \in Seq(Shown) /\ DOMAIN more = DOMAIN added /\ \A k \in DOMAIN added : more[k].q = added[k]
  <2>1. more = [k \in 1..Cardinality(T) |-> item(k)] /\ \A k \in 1..Cardinality(T) : item(k) \in Shown
    BY <1>4, <1>5
  <2> HIDE DEF more
  <2>2. more \in Seq(Shown) /\ DOMAIN more = 1..Cardinality(T)  BY <1>2, <2>1
  <2> QED  BY <1>4, <1>5, <2>1, <2>2
<1>7. /\ \A j, l \in DOMAIN more : more[j].q = more[l].q => j = l
      /\ \A j \in DOMAIN more : more[j].q \notin Picked(sections)
  <2>1. DOMAIN more = DOMAIN added /\ \A k \in DOMAIN added : more[k].q = added[k]  BY <1>6
  <2>2. \A j, l \in DOMAIN added : added[j] = added[l] => j = l  BY <1>2, <1>4
  <2> HIDE DEF more
  <2> QED  BY <1>3, <2>1, <2>2
<1>8. new = [i \in DOMAIN sections |-> IF sections[i].key # active THEN sections[i]
                                        ELSE [sections[i] EXCEPT !.qs = @ \o more]]
  BY DEF item
<1> HIDE DEF more
<1>9. LET s == [i \in DOMAIN sections |-> IF sections[i].key # active THEN sections[i]
                                          ELSE [sections[i] EXCEPT !.qs = @ \o more]] IN
      s \in Seq(Section) /\ Sound(s)
  <2>1. sections \in Seq(Section) /\ Sound(sections) /\ more \in Seq(Shown)  BY <1>6
  <2> HIDE DEF new
  <2> QED  BY ONLY <2>1, <1>7, MoreQuestions
<1>10. new \in Seq(Section) /\ Sound(new)
  <2> HIDE DEF new
  <2> QED  BY <1>8, <1>9
<1> QED  BY <1>10 DEF added

(* The sections of an outline just read.                                   *)
LEMMA ShownSections ==
  ASSUME NEW outline \in Outlines, SoundOutline(outline)
  PROVE  /\ SectionsOf(outline) \in Seq(Section) /\ Sound(SectionsOf(outline))
         /\ SectionsOf(outline)[1].key \in Nat
         /\ OutlineOf(SectionsOf(outline)) = ShownOutline(outline)
<1>1. /\ SectionsOf(outline) \in Seq(Section) /\ Sound(SectionsOf(outline)) /\ SectionsOf(outline) # <<>>
      /\ OutlineOf(SectionsOf(outline)) = ShownOutline(outline)
  BY SectionsOfOutline DEF SectionsOf
<1>2. SectionsOf(outline)[1].key \in Nat
  <2> DEFINE secs == SectionsOf(outline)
  <2> HIDE DEF secs
  <2>1. secs \in Seq(Section) /\ secs # <<>>  BY <1>1 DEF secs
  <2>2. Len(secs) \in Nat /\ Len(secs) # 0 /\ DOMAIN secs = 1..Len(secs)
    BY <2>1, EmptySeq, LenProperties
  <2>3. 1 \in DOMAIN secs  BY <2>2
  <2>4. secs[1].key \in Nat  BY <2>1, <2>3, SectionElements
  <2> QED  BY <2>4 DEF secs
<1> QED  BY <1>1, <1>2

(* A page just opened, for a new paper or a stored one.                    *)
LEMMA PaperStart == PaperInit => PaperInv
<1> SUFFICES ASSUME PaperInit PROVE PaperInv  OBVIOUS
<1>0. PaperAssumption  BY PaperAssumption
<1>1. /\ released = Bank /\ withdrawing = {} /\ crossed = {} /\ copy = NoPaper /\ fields = [title |-> 0, status |-> "DRAFT"]
      /\ sections = DefaultSections /\ picker = [open |-> FALSE, found |-> {}]
      /\ pdirty = FALSE /\ psaving = FALSE /\ job = NoJob /\ edits = 0 /\ failures = 0
      /\ torn = FALSE /\ hasty = FALSE
  BY DEF PaperInit
<1>2. /\ creating \in BOOLEAN /\ (ploading <=> ~creating) /\ ploading \in BOOLEAN
      /\ step = (IF creating THEN NoStep ELSE Ask("load")) /\ step.answer = "none"
      /\ original \in {<<>>, DefaultSections} /\ active \in {0, 1}
  BY DEF PaperInit, NoStep, Ask
<1>f. Firm = Bank /\ step.answer # "checked"  BY <1>1, <1>2 DEF Firm
<1>3. /\ store.outline \in Outlines /\ SoundOutline(store.outline) /\ ReadyAgrees
      /\ store \in [paper : Papers, outline : Outlines] /\ (~creating => store.paper.live)
  <2>1. CASE creating = TRUE /\ store = [paper |-> NoPaper, outline |-> <<>>]
    <3>1. NoPaper \in Papers /\ NoPaper.status = "DRAFT"  BY <1>0 DEF NoPaper, Papers, Statuses, PaperAssumption
    <3> QED  BY <1>f, <2>1, <3>1, DefaultIsSound DEF ReadyAgrees
  <2>2. ASSUME creating = FALSE,
               NEW st \in Statuses, NEW qs \in {<<>>} \cup {<<b>> : b \in Bank},
               store = [paper |-> [live |-> TRUE, title |-> 1, status |-> st],
                        outline |-> <<[j \in DOMAIN qs |-> [q |-> qs[j], scored |-> TRUE]]>>],
               st = "PUBLISHED" => qs # <<>>
        PROVE  /\ store.outline \in Outlines /\ SoundOutline(store.outline) /\ ReadyAgrees
               /\ store \in [paper : Papers, outline : Outlines] /\ (~creating => store.paper.live)
    <3> DEFINE part == [j \in DOMAIN qs |-> [q |-> qs[j], scored |-> TRUE]]
    <3>1. part \in Seq(Outlined) /\ \A j, l \in DOMAIN part : j = l
      <4>1. CASE qs = <<>>
        <5>1. part = <<>>  BY <4>1
        <5> QED  BY <5>1
      <4>2. ASSUME NEW b \in Bank, qs = <<b>>
            PROVE  part \in Seq(Outlined) /\ \A j, l \in DOMAIN part : j = l
        <5>1. Len(<<b>>) = 1 /\ <<b>>[1] = b /\ <<b>> \in Seq(Bank)  OBVIOUS
        <5>2. DOMAIN qs = 1..1  BY <4>2, <5>1, LenProperties
        <5>3. \A j \in 1..1 : j = 1  OBVIOUS
        <5>4. part = [j \in 1..1 |-> [q |-> b, scored |-> TRUE]]  BY <4>2, <5>1, <5>2, <5>3
        <5>5. [q |-> b, scored |-> TRUE] \in Outlined  BY DEF Outlined
        <5> HIDE DEF part
        <5>6. part \in Seq(Outlined) /\ DOMAIN part = 1..1  BY <5>4, <5>5
        <5> QED  BY <5>3, <5>6
      <4> QED  BY <4>1, <4>2
    <3>2. qs # <<>> => Range(part) # {}
      <4>1. ASSUME NEW b \in Bank, qs = <<b>> PROVE Range(part) # {}
        <5>1. 1 \in DOMAIN part  BY <4>1
        <5> QED  BY <5>1 DEF Range
      <4> QED  BY <4>1
    <3>3. \A item \in Range(part) : item.scored /\ item.q \in released
      <4> SUFFICES ASSUME NEW j \in DOMAIN part PROVE part[j].scored /\ part[j].q \in released
        BY DEF Range
      <4>1. part[j] \in Outlined  BY <3>1, ElementOfSeq, LenProperties
      <4>2. part[j] = [q |-> qs[j], scored |-> TRUE]  OBVIOUS
      <4> QED  BY <1>1, <4>1, <4>2 DEF Outlined
    <3> HIDE DEF part
    <3>4. /\ store.outline = <<part>> /\ store.paper = [live |-> TRUE, title |-> 1, status |-> st]
          /\ store = [paper |-> store.paper, outline |-> store.outline]
      BY <2>2 DEF part
    <3>5. store.outline \in Outlines /\ Len(store.outline) = 1 /\ DOMAIN store.outline = {1}
          /\ store.outline[1] = part
      <4>1. <<part>> \in Seq(Seq(Outlined)) /\ Len(<<part>>) = 1 /\ <<part>>[1] = part  BY <3>1
      <4>2. DOMAIN <<part>> = 1..Len(<<part>>)  BY <4>1, LenProperties
      <4>3. 1..1 = {1}  OBVIOUS
      <4> QED  BY <3>4, <4>1, <4>2, <4>3 DEF Outlines
    <3>6. SoundOutline(store.outline)  BY <1>0, <3>1, <3>5 DEF SoundOutline, PaperAssumption
    <3>7. Items(store.outline) = Range(part)  BY <3>5 DEF Items
    <3>8. ReadyAgrees
      <4>1. \A item \in Range(part) : item.scored /\ item.q \in Firm  BY <1>1, <1>f, <3>3
      <4> QED  BY <1>f, <2>2, <3>2, <3>4, <3>7, <4>1 DEF ReadyAgrees
    <3>9. store.paper \in Papers  BY <1>0, <3>4 DEF Papers, PaperAssumption
    <3>10. store \in [paper : Papers, outline : Outlines]  BY <3>4, <3>5, <3>9
    <3>11. store.paper.live  BY <3>4
    <3> QED  BY <3>5, <3>6, <3>8, <3>10, <3>11
  <2> QED  BY <2>1, <2>2 DEF PaperInit
<1>4. NoJob \in Jobs /\ SoundOutline(NoJob.outline) /\ NoJob.defer = FALSE
  BY <1>0, DefaultIsSound DEF NoJob, Jobs, Statuses, PaperAssumption
<1>5. PaperTyped
  <2>1. step \in [name : Steps, answer : {"none", "checked", "done", "failed"}]
    BY <1>2 DEF NoStep, Ask, Steps
  <2>2. copy \in Papers /\ fields \in [title : 0..MaxTitles, status : Statuses]
    BY <1>0, <1>1 DEF NoPaper, Papers, Statuses, PaperAssumption
  <2>3. edits \in 0..MaxEdits /\ failures \in 0..MaxFailures  BY <1>0, <1>1 DEF PaperAssumption
  <2>4. sections \in Seq(Section) /\ original \in Seq(Section)  BY <1>1, <1>2, DefaultIsSound
  <2>5. active \in Nat  BY <1>2
  <2>6. /\ creating \in BOOLEAN /\ pdirty \in BOOLEAN /\ psaving \in BOOLEAN /\ ploading \in BOOLEAN
        /\ torn \in BOOLEAN /\ hasty \in BOOLEAN
    BY <1>1, <1>2
  <2>7. /\ picker \in [open : BOOLEAN, found : SUBSET Bank] /\ job \in Jobs
        /\ released \subseteq Bank /\ withdrawing \subseteq released /\ crossed \subseteq Bank
    BY <1>1, <1>4
  <2> QED  BY <1>3, <2>1, <2>2, <2>3, <2>4, <2>5, <2>6, <2>7 DEF PaperTyped
<1>6. AllSound  BY <1>1, <1>2, <1>3, <1>4, DefaultIsSound DEF AllSound
<1>7. StepsAgree /\ step.name \in {"none", "load"}  BY <1>1, <1>2 DEF StepsAgree, NoStep, Ask
<1>8. JobAgrees  BY <1>1, <1>4, <1>7 DEF JobAgrees
<1>9. StoreAgrees  BY <1>3, <1>7 DEF StoreAgrees
<1>10. PageAgrees  BY <1>1, <1>2, <1>7 DEF PageAgrees, Calm
<1> QED  BY <1>3, <1>5, <1>6, <1>7, <1>8, <1>9, <1>10 DEF PaperInv

(* What an edit of the page leaves true.                                   *)
LEMMA EditStep == ASSUME PaperInv, EditPaper PROVE PaperInv'
<1>0. /\ PaperAssumption /\ PaperTyped /\ sections \in Seq(Section) /\ Sound(sections)
      /\ original \in Seq(Section) /\ Sound(original)
      /\ fields \in [title : 0..MaxTitles, status : Statuses] /\ active \in Nat
      /\ picker \in [open : BOOLEAN, found : SUBSET Bank]
  BY PaperAssumption DEF PaperInv, PaperTyped, AllSound
<1>s. \A i \in DOMAIN sections : sections[i].key \in Nat  BY <1>0, SectionElements
<1>k. FreshKey \in Nat  BY <1>0, KeysAreFresh
<1>1. ASSUME NEW t \in 1..MaxTitles, NEW st \in Statuses, SetFields([title |-> t, status |-> st])
      PROVE  PaperInv'
  <2>1. Touch /\ UNCHANGED Working /\ sections' = sections /\ active' = active /\ picker' = picker
        /\ fields' = [title |-> t, status |-> st]
    BY <1>1 DEF SetFields
  <2>2. fields' \in [title : 0..MaxTitles, status : Statuses]
    BY <1>0, <2>1 DEF PaperAssumption
  <2> QED  BY <1>0, <2>1, <2>2, PaperEditKeeps
<1>2. ASSUME NEW new \in Seq(Section), Sound(new), Restructure(new), active' \in Nat PROVE PaperInv'
  <2>1. Touch /\ UNCHANGED Working /\ sections' = new /\ fields' = fields /\ picker' = picker
    BY <1>2 DEF Restructure, UpdateSections
  <2> QED  BY <1>0, <1>2, <2>1, PaperEditKeeps
<1>3. CASE AddSection
  <2> DEFINE new == Append(sections, [key |-> FreshKey, qs |-> <<>>])
  <2>1. Len(sections) < MaxSections /\ Restructure(new) /\ active' = FreshKey  BY <1>3 DEF AddSection
  <2>2. new \in Seq(Section) /\ Sound(new)  BY <1>0, <2>1, NewSection
  <2> HIDE DEF new
  <2> QED  BY <1>2, <1>k, <2>1, <2>2
<1>4. ASSUME NEW i \in DOMAIN sections, RemoveSection(i) PROVE PaperInv'
  <2> DEFINE others == RemoveAt(sections, i)
             new == IF others = <<>> THEN <<[key |-> FreshKey, qs |-> <<>>]>> ELSE others
  <2>1. /\ Restructure(new)
        /\ active' = IF active # sections[i].key THEN active
                     ELSE IF others = <<>> THEN 0 ELSE others[1].key
    BY <1>4 DEF RemoveSection
  <2>2. new \in Seq(Section) /\ Sound(new)  BY <1>0, RemovedSections
  <2>3. others # <<>> => others[1].key \in Nat
    <3> HIDE DEF others
    <3> SUFFICES ASSUME others # <<>> PROVE others[1].key \in Nat  OBVIOUS
    <3>1. others \in Seq(Section)  BY <2>2
    <3>2. Len(others) \in Nat /\ Len(others) # 0 /\ DOMAIN others = 1..Len(others)
      BY <3>1, EmptySeq, LenProperties
    <3>3. 1 \in DOMAIN others  BY <3>2
    <3> QED  BY <3>1, <3>3, SectionElements
  <2> HIDE DEF others
  <2>4. active' \in Nat  BY <1>0, <2>1, <2>3
  <2> HIDE DEF new
  <2> QED  BY <1>2, <2>1, <2>2, <2>4
<1>5. ASSUME NEW i \in DOMAIN sections, MoveSection(i) PROVE PaperInv'
  <2>1. i + 1 \in DOMAIN sections /\ Restructure(Swapped(sections, i)) /\ active' = active
    BY <1>5 DEF MoveSection
  <2>2. Swapped(sections, i) \in Seq(Section) /\ Sound(Swapped(sections, i))
    BY <1>0, <2>1, SwappedSections
  <2> QED  BY <1>0, <1>2, <2>1, <2>2
<1>6. ASSUME NEW i \in DOMAIN sections, NEW j \in DOMAIN sections[i].qs, RemoveQuestion(i, j)
      PROVE  PaperInv'
  <2> DEFINE new == [sections EXCEPT ![i].qs = RemoveAt(@, j)]
  <2>1. Restructure(new) /\ active' = active  BY <1>6 DEF RemoveQuestion
  <2>2. new \in Seq(Section) /\ Sound(new)  BY <1>0, RemovedQuestion
  <2> HIDE DEF new
  <2> QED  BY <1>0, <1>2, <2>1, <2>2
<1>7. ASSUME NEW i \in DOMAIN sections, NEW j \in DOMAIN sections[i].qs, EditScore(i, j)
      PROVE  PaperInv'
  <2> DEFINE new == [sections EXCEPT ![i].qs[j].scored = ~@]
  <2>1. Restructure(new) /\ active' = active  BY <1>7 DEF EditScore
  <2>2. new \in Seq(Section) /\ Sound(new)  BY <1>0, RescoredQuestion
  <2> HIDE DEF new
  <2> QED  BY <1>0, <1>2, <2>1, <2>2
<1>8. ASSUME NEW i \in DOMAIN sections, NEW j \in DOMAIN sections[i].qs, NEW k \in DOMAIN sections[i].qs,
             DragQuestion(i, j, k)
      PROVE  PaperInv'
  <2> DEFINE new == [sections EXCEPT ![i].qs = InsertAt(RemoveAt(@, j), k, @[j])]
  <2>1. Restructure(new) /\ active' = active  BY <1>8 DEF DragQuestion
  <2>2. new \in Seq(Section) /\ Sound(new)  BY <1>0, DraggedQuestion
  <2> HIDE DEF new
  <2> QED  BY <1>0, <1>2, <2>1, <2>2
<1>9. ASSUME NEW questions \in SUBSET picker.found, AddPickedQuestions(questions) PROVE PaperInv'
  <2> DEFINE added == SetToSeq(questions \ Picked(sections))
             new == [i \in DOMAIN sections |->
                       IF sections[i].key # active THEN sections[i]
                       ELSE [sections[i] EXCEPT !.qs = @ \o
                               [k \in DOMAIN added |-> [q |-> added[k], scored |-> TRUE, pub |-> TRUE]]]]
  <2>1. UpdateSections(new) /\ active' = active /\ picker' = [open |-> FALSE, found |-> {}]
    BY <1>9 DEF AddPickedQuestions
  <2>2. questions \in SUBSET Bank  BY <1>0
  <2>3. new \in Seq(Section) /\ Sound(new)
    BY <1>0, <2>2, AddedQuestions
  <2> HIDE DEF new
  <2>4. Touch /\ UNCHANGED Working /\ sections' = new /\ fields' = fields  BY <2>1 DEF UpdateSections
  <2>5. picker' \in [open : BOOLEAN, found : SUBSET Bank]  BY <2>1
  <2> QED  BY <1>0, <2>1, <2>3, <2>4, <2>5, PaperEditKeeps
<1>10. ASSUME NEW found \in SUBSET Bank, NEW o \in BOOLEAN, picker' = [open |-> o, found |-> found],
              active' \in Nat, UNCHANGED <<edits, fields, sections, pdirty, hasty, Working>>
       PROVE  PaperInv'
  <2>1. PaperTyped'  BY <1>0, <1>10 DEF PaperTyped, Working, Server
  <2> QED  BY <1>10, <2>1 DEF PaperInv, AllSound, StepsAgree, JobAgrees, StoreAgrees, FirstStatus, PageAgrees,
              Calm, OutlineOf, ReadyAgrees, Firm, Checked, About, FirstStatus, Working, Server
<1>11. ASSUME NEW i \in DOMAIN sections, OpenPicker(i) PROVE PaperInv'
  <2>1. released \ Picked(sections) \in SUBSET Bank  BY <1>0 DEF PaperTyped
  <2> QED  BY <1>s, <1>10, <1>11, <2>1 DEF OpenPicker
<1>12. CASE ClosePicker
  <2>1. active' = active /\ picker' = [open |-> FALSE, found |-> {}]
        /\ UNCHANGED <<edits, fields, sections, pdirty, hasty, Working>>
    BY <1>12 DEF ClosePicker
  <2> QED  BY <1>0, <1>10, <2>1
<1>13. CASE CancelPaperEdit
  <2>1. /\ ~ploading /\ ~pdirty' /\ pdirty' \in BOOLEAN /\ original' = sections'
        /\ UNCHANGED <<edits, creating, copy, picker, psaving, ploading, step, job, torn, store, released,
                       withdrawing, crossed, failures>>
    BY <1>13 DEF CancelPaperEdit, Server
  <2>2. (hasty' <=> hasty \/ psaving) /\ hasty' \in BOOLEAN
    BY <1>0, <1>13, Zenon DEF CancelPaperEdit, PaperTyped
  <2>3. sections' = IF creating THEN DefaultSections ELSE original  BY <1>13 DEF CancelPaperEdit
  <2>4. sections' \in Seq(Section) /\ Sound(sections')  BY <1>0, <2>3, DefaultIsSound
  <2>5. fields' = IF creating THEN [title |-> 0, status |-> "DRAFT"]
                  ELSE IF copy.live THEN [title |-> copy.title, status |-> copy.status] ELSE fields
    BY <1>13 DEF CancelPaperEdit
  <2>6. fields' \in [title : 0..MaxTitles, status : Statuses]
    <3>1. copy.title \in 0..MaxTitles /\ copy.status \in Statuses  BY <1>0 DEF PaperTyped, Papers
    <3>2. 0 \in 0..MaxTitles /\ "DRAFT" \in Statuses  BY <1>0 DEF PaperAssumption, Statuses
    <3> QED  BY <1>0, <2>5, <3>1, <3>2
  <2>7. active' \in Nat
    <3>1. active' = IF sections' = <<>> THEN 0 ELSE sections'[1].key  BY <1>13 DEF CancelPaperEdit
    <3>2. ASSUME sections' # <<>> PROVE sections'[1].key \in Nat
      <4>1. Len(sections') \in Nat /\ Len(sections') # 0 /\ DOMAIN sections' = 1..Len(sections')
        BY <2>4, <3>2, EmptySeq, LenProperties
      <4>2. 1 \in DOMAIN sections'  BY <4>1
      <4> QED  BY <2>4, <4>2, SectionElements
    <3> QED  BY <3>1, <3>2
  <2>8. PaperTyped'  BY <1>0, <2>1, <2>2, <2>4, <2>6, <2>7 DEF PaperTyped
  <2>9. AllSound'  BY <2>1, <2>4 DEF PaperInv, AllSound
  <2>10. StepsAgree' /\ JobAgrees' /\ StoreAgrees' /\ ReadyAgrees'
    BY <2>1 DEF PaperInv, StepsAgree, JobAgrees, StoreAgrees, FirstStatus, ReadyAgrees, Firm, Checked, About, FirstStatus
  <2>11. PageAgrees'
    <3>1. ASSUME ~torn, ~hasty', ~creating, ~psaving, ~ploading
          PROVE  /\ copy = store.paper /\ OutlineOf(original') = ShownOutline(store.outline)
                 /\ fields' = [title |-> store.paper.title, status |-> store.paper.status]
                 /\ OutlineOf(sections') = ShownOutline(store.outline)
      <4>1. Calm  BY <2>2, <3>1 DEF Calm
      <4>2. copy = store.paper /\ OutlineOf(original) = ShownOutline(store.outline) /\ store.paper.live
        BY <3>1, <4>1 DEF PaperInv, PageAgrees, StoreAgrees
      <4> QED  BY <2>1, <2>3, <2>5, <3>1, <4>2
    <3>2. psaving => hasty'  BY <2>2
    <3>3. step.name = "publish" => psaving  BY DEF PaperInv, StepsAgree
    <3> QED  BY <2>1, <3>1, <3>2, <3>3 DEF PageAgrees, Calm
  <2> QED  BY <2>8, <2>9, <2>10, <2>11 DEF PaperInv
<1> QED
  BY <1>1, <1>3, <1>4, <1>5, <1>6, <1>7, <1>8, <1>9, <1>11, <1>12, <1>13 DEF EditPaper

(* What the start of a save leaves true.                                   *)
LEMMA SaveStarts == ASSUME PaperInv, SavePaper PROVE PaperInv'
<1>0. PaperAssumption /\ PaperTyped /\ AllSound  BY PaperAssumption DEF PaperInv
<1>1. /\ ~ploading /\ ~psaving /\ psaving' = TRUE /\ step' = Ask("paper") /\ hasty' = FALSE
      /\ fields.status = "PUBLISHED" => CanPublish(sections)
      /\ UNCHANGED <<edits, creating, copy, fields, sections, original, active, picker, pdirty,
                     ploading, torn, store, released, withdrawing, crossed, failures>>
  BY DEF SavePaper, Server
<1>2. /\ job'.title = fields.title /\ job'.status = fields.status /\ job'.outline = OutlineOf(sections)
      /\ (job'.defer <=> fields.status = "PUBLISHED" /\ (creating \/ copy.status # "PUBLISHED"))
      /\ job' = [title |-> job'.title, status |-> job'.status, outline |-> job'.outline, defer |-> job'.defer]
      /\ job'.defer \in BOOLEAN
  BY DEF SavePaper
<1>3. /\ OutlineOf(sections) \in Outlines /\ SoundOutline(OutlineOf(sections))
      /\ CanPublish(sections) => Items(OutlineOf(sections)) # {}
  BY <1>0, OutlineOfSections DEF PaperTyped, AllSound
<1>4. fields.title \in 0..MaxTitles /\ fields.status \in Statuses /\ fields.title = fields.title
      /\ fields = [title |-> fields.title, status |-> fields.status]
  BY <1>0 DEF PaperTyped
<1>5. job' \in Jobs  BY <1>2, <1>3, <1>4 DEF Jobs
<1>6. step' \in [name : Steps, answer : {"none", "checked", "done", "failed"}] /\ step'.name = "paper" /\ step'.answer = "none"
  BY <1>1 DEF Ask, Steps
<1>7. PaperTyped'  BY <1>0, <1>1, <1>5, <1>6 DEF PaperTyped
<1>8. AllSound'  BY <1>0, <1>1, <1>2, <1>3 DEF AllSound
<1>9. StepsAgree'  BY <1>1, <1>6 DEF PaperInv, StepsAgree
<1>10. JobAgrees'  BY <1>1, <1>2, <1>3, <1>6 DEF JobAgrees
<1>11. StoreAgrees'  BY <1>1, <1>6 DEF PaperInv, StoreAgrees
<1>12. PageAgrees'  BY <1>1, <1>2, <1>4, <1>6 DEF PageAgrees, Calm
<1>13. ReadyAgrees'  BY <1>1, <1>6, ReadyStays DEF PaperInv
<1> QED  BY <1>7, <1>8, <1>9, <1>10, <1>11, <1>12, <1>13 DEF PaperInv

(* What the server's check of a request leaves true.                       *)
LEMMA CheckKeeps == ASSUME PaperInv, ServerChecks PROVE PaperInv'
<1>0. PaperTyped /\ AllSound /\ StepsAgree /\ JobAgrees /\ StoreAgrees /\ PageAgrees /\ ReadyAgrees
  BY DEF PaperInv
<1>1. /\ UNCHANGED <<edits, creating, released, withdrawing, copy, fields, sections, original, active,
                     picker, pdirty, psaving, ploading, job, torn, hasty, store, failures>>
      /\ crossed' = crossed \cup (withdrawing \cap Concerned) /\ Checked /\ Allowed
  BY DEF ServerChecks, AtServer
<1>2. /\ step'.name = step.name /\ step'.answer = "checked"
      /\ step' \in [name : Steps, answer : {"none", "checked", "done", "failed"}]
  BY <1>0 DEF ServerChecks, PaperTyped
<1>3. PaperTyped'
  <2>1. crossed' \subseteq Bank  BY <1>0, <1>1 DEF PaperTyped
  <2> QED  BY <1>0, <1>1, <1>2, <2>1 DEF PaperTyped
<1>4. AllSound'  BY <1>0, <1>1 DEF AllSound
<1>5. StepsAgree' /\ JobAgrees'  BY <1>0, <1>1, <1>2 DEF StepsAgree, JobAgrees
<1>6. StoreAgrees'  BY <1>0, <1>1, <1>2 DEF StoreAgrees, FirstStatus
<1>7. PageAgrees'  BY <1>0, <1>1, <1>2 DEF PageAgrees, Calm
<1>8. ReadyAgrees'
  <2>1. \A q \in Firm : q \in Firm'  BY <1>1 DEF Firm
  <2>2. Checked' /\ About' = About /\ (Firm' = (released \ withdrawing) \cup crossed')
    BY <1>1, <1>2 DEF Checked, FirstStatus, About, Firm
  <2>3. /\ step.name # "outline" => Items(store.outline) # {}
        /\ \A item \in Items(About) : item.scored /\ item.q \in released
    <3>1. CASE step.name = "outline"  BY <1>1, <3>1 DEF Allowed, About
    <3>2. CASE step.name # "outline"
      <4>1. ReadyToPublish(store.outline)  BY <1>1, <3>2 DEF Allowed, Checked
      <4> QED  BY <3>2, <4>1 DEF ReadyToPublish, About
    <3> QED  BY <3>1, <3>2
  <2>4. \A item \in Items(About) : item.q \in Concerned  BY DEF Concerned
  <2>5. \A item \in Items(About) : item.scored /\ item.q \in Firm'  BY <1>1, <2>2, <2>3, <2>4
  <2> QED  BY <1>0, <1>1, <1>2, <2>1, <2>2, <2>3, <2>5 DEF ReadyAgrees
<1> QED  BY <1>3, <1>4, <1>5, <1>6, <1>7, <1>8 DEF PaperInv

(* What the server does at the end of a request: nothing, or its effect,   *)
(* whether or not the page hears of it.                                    *)
LEMMA EndKeeps ==
  ASSUME PaperInv, AtServer, crossed' = crossed, failures' \in 0..MaxFailures,
         (MayWrite /\ Effect) \/ (store' = store /\ step'.answer = "failed"),
         step'.name = step.name, step'.answer \in {"done", "failed"},
         step' \in [name : Steps, answer : {"none", "checked", "done", "failed"}]
  PROVE  PaperInv'
<1>0. PaperAssumption /\ PaperTyped /\ AllSound /\ StepsAgree /\ JobAgrees /\ StoreAgrees /\ PageAgrees
      /\ ReadyAgrees
  BY PaperAssumption DEF PaperInv
<1>1. /\ step.name # "none" /\ step.answer \in {"none", "checked"}
      /\ UNCHANGED <<edits, creating, released, withdrawing, crossed, copy, fields, sections, original,
                     active, picker, pdirty, psaving, ploading, job, torn, hasty>>
  BY DEF AtServer
<1>2. /\ (MayWrite /\ Effect) \/ (store' = store /\ step'.answer = "failed")
      /\ step'.name = step.name /\ step' \in [name : Steps, answer : {"none", "checked", "done", "failed"}]
      /\ failures' \in 0..MaxFailures /\ step'.answer # "checked"
  OBVIOUS
<1>3. /\ store.outline \in Outlines /\ store.paper \in Papers /\ job.title \in 0..MaxTitles
      /\ job.status \in Statuses /\ job.outline \in Outlines /\ SoundOutline(job.outline)
      /\ SoundOutline(store.outline) /\ store = [paper |-> store.paper, outline |-> store.outline]
      /\ job.defer \in BOOLEAN
      /\ store.paper = [live |-> store.paper.live, title |-> store.paper.title, status |-> store.paper.status]
  BY <1>0 DEF PaperTyped, Jobs, AllSound, Papers
<1>4. FirstStatus \in Statuses /\ FirstStatus' = FirstStatus
  BY <1>1, <1>3 DEF FirstStatus, Statuses
<1>p. (FirstStatus = "PUBLISHED" => job.status = "PUBLISHED" /\ ~job.defer)
  BY DEF FirstStatus
<1> DEFINE Solid(outline) ==
      Items(outline) # {} /\ \A item \in Items(outline) : item.scored /\ item.q \in Firm
<1>s. /\ store.paper.status = "PUBLISHED" => Solid(store.outline)
      /\ step.answer = "checked" =>
           /\ step.name # "outline" => Solid(store.outline)
           /\ step.name = "outline" =>
                \A item \in Items(job.outline) : item.scored /\ item.q \in Firm
  BY <1>0 DEF ReadyAgrees, About
<1> HIDE DEF Solid
<1> DEFINE Good ==
      /\ store'.paper \in Papers /\ store'.outline \in Outlines /\ SoundOutline(store'.outline)
      /\ store' = [paper |-> store'.paper, outline |-> store'.outline]
      /\ store'.paper.status = "PUBLISHED" => Solid(store'.outline)
      /\ step.name = "paper" =>
           store'.paper = [live |-> TRUE, title |-> job.title, status |-> FirstStatus]
             \/ (store' = store /\ step'.answer = "failed")
      /\ step.name = "outline" => store'.paper = store.paper
      /\ step.name = "publish" => /\ store'.paper.live = store.paper.live
                                  /\ store'.paper.title = store.paper.title
                                  /\ store'.outline = store.outline
                                  /\ store'.paper.status = "PUBLISHED"
                                       \/ (store' = store /\ step'.answer = "failed")
      /\ store.paper.live => store'.paper.live
<1>5. ASSUME store' = store /\ step'.answer = "failed" PROVE Good
  BY <1>3, <1>5, <1>s
<1>6. ASSUME MayWrite /\ Effect /\ step.name = "load" PROVE Good
  <2>1. store' = store  BY <1>6 DEF Effect
  <2> QED  BY <1>3, <1>6, <1>s, <2>1
<1>7. ASSUME MayWrite /\ Effect /\ step.name = "paper" PROVE Good
  <2>1. /\ store'.paper = [live |-> TRUE, title |-> job.title, status |-> FirstStatus]
        /\ store'.outline = IF creating THEN <<>> ELSE store.outline
        /\ store' = [paper |-> store'.paper, outline |-> store'.outline]
    BY <1>7 DEF Effect
  <2>2. store'.outline \in Outlines /\ SoundOutline(store'.outline)  BY <1>3, <2>1, DefaultIsSound
  <2>3. store'.paper \in Papers /\ store'.paper.live /\ store'.paper.status = FirstStatus
    BY <1>3, <1>4, <2>1 DEF Papers
  <2>4. ASSUME FirstStatus = "PUBLISHED" PROVE Solid(store'.outline)
    <3>1. psaving  BY <1>0, <1>7 DEF StepsAgree
    <3>2. ~creating  BY <1>0, <1>p, <2>4, <3>1 DEF JobAgrees
    <3>3. step.answer = "checked"  BY <1>7, <2>4, <3>2 DEF MayWrite, Checked
    <3>4. Solid(store.outline)  BY <1>7, <1>s, <3>3
    <3> QED  BY <2>1, <3>2, <3>4
  <2> QED  BY <1>7, <2>1, <2>2, <2>3, <2>4
<1>8. ASSUME MayWrite /\ Effect /\ step.name = "outline" PROVE Good
  <2>1. store'.paper = store.paper /\ store'.outline = job.outline
        /\ store' = [paper |-> store'.paper, outline |-> store'.outline]
    BY <1>3, <1>8 DEF Effect
  <2>2. ASSUME store.paper.status = "PUBLISHED" PROVE Solid(job.outline)
    <3>1. store.paper.status = FirstStatus /\ psaving  BY <1>0, <1>8 DEF StoreAgrees, StepsAgree
    <3>2. Items(job.outline) # {}  BY <1>0, <1>p, <2>2, <3>1 DEF JobAgrees
    <3>3. \A item \in Items(job.outline) : item.scored /\ item.q \in Firm
      <4>1. step.answer = "checked"  BY <1>8 DEF MayWrite, Checked
      <4> QED  BY <1>8, <1>s, <4>1
    <3> QED  BY <3>2, <3>3 DEF Solid
  <2> QED  BY <1>3, <1>8, <2>1, <2>2
<1>9. ASSUME MayWrite /\ Effect /\ step.name = "publish" PROVE Good
  <2>1. store' = [store EXCEPT !.paper.status = "PUBLISHED"]  BY <1>9 DEF Effect
  <2>2. store' = [store EXCEPT !.paper = [store.paper EXCEPT !.status = "PUBLISHED"]]  BY <2>1
  <2>3. /\ store'.paper = [store.paper EXCEPT !.status = "PUBLISHED"] /\ store'.outline = store.outline
        /\ store' = [paper |-> store'.paper, outline |-> store'.outline]
    BY <1>3, <2>2
  <2>4. /\ store'.paper \in Papers /\ store'.paper.live = store.paper.live
        /\ store'.paper.title = store.paper.title /\ store'.paper.status = "PUBLISHED"
    BY <1>3, <2>3 DEF Papers, Statuses
  <2>5. Solid(store.outline)
    <3>1. step.answer = "checked"  BY <1>9 DEF MayWrite, Checked
    <3> QED  BY <1>9, <1>s, <3>1
  <2> QED  BY <1>3, <1>9, <2>3, <2>4, <2>5
<1>10. Good
  <2>1. step.name \in Steps  BY <1>0 DEF PaperTyped
  <2> HIDE DEF Good
  <2> QED  BY <1>1, <1>2, <1>5, <1>6, <1>7, <1>8, <1>9, <2>1 DEF Steps
<1>11. PaperTyped'
  <2>1. store' \in [paper : Papers, outline : Outlines]  BY <1>10
  <2> QED  BY <1>0, <1>1, <1>2, <2>1 DEF PaperTyped
<1>12. AllSound'  BY <1>0, <1>1, <1>10 DEF AllSound
<1>13. StepsAgree' /\ JobAgrees'  BY <1>0, <1>1, <1>2 DEF StepsAgree, JobAgrees
<1>14. StoreAgrees'
  <2>1. (step'.name = "paper" /\ step'.answer = "done") \/ step'.name = "outline" =>
          store'.paper = [live |-> TRUE, title |-> job.title, status |-> FirstStatus]
    <3>1. CASE step.name = "paper" /\ step'.answer = "done"  BY <1>10, <3>1
    <3>2. CASE step.name = "outline"  BY <1>0, <1>10, <3>2 DEF StoreAgrees
    <3> QED  BY <1>2, <3>1, <3>2
  <2>2. step'.name = "publish" => store'.paper.live /\ store'.paper.title = job.title
    BY <1>0, <1>2, <1>10 DEF StoreAgrees
  <2>3. step'.name = "publish" /\ step'.answer = "done" => store'.paper.status = "PUBLISHED"
    BY <1>2, <1>10
  <2>4. ~creating => store'.paper.live  BY <1>0, <1>10 DEF StoreAgrees
  <2> HIDE DEF Good
  <2> QED  BY <1>1, <1>4, <2>1, <2>2, <2>3, <2>4 DEF StoreAgrees
<1>15. PageAgrees'
  <2>1. psaving \/ ploading
    <3>1. step.name \in Steps  BY <1>0 DEF PaperTyped
    <3> QED  BY <1>0, <1>1, <3>1 DEF StepsAgree, Steps
  <2>2. step.name = "publish" => store'.outline = store.outline  BY <1>10
  <2> HIDE DEF Good
  <2> QED  BY <1>0, <1>1, <1>2, <2>1, <2>2 DEF PageAgrees, Calm
<1>16. ReadyAgrees'
  <2>1. store'.paper.status = "PUBLISHED" => Solid(store'.outline)  BY <1>10
  <2>2. Firm' = Firm  BY <1>1 DEF Firm
  <2> HIDE DEF Good
  <2> QED  BY <1>2, <2>1, <2>2 DEF ReadyAgrees, Solid
<1> QED  BY <1>11, <1>12, <1>13, <1>14, <1>15, <1>16 DEF PaperInv

(* A request at the server: checked, refused, carried out or lost.         *)
LEMMA ServeKeeps == ASSUME PaperInv, Serve PROVE PaperInv'
<1>0. /\ step \in [name : Steps, answer : {"none", "checked", "done", "failed"}]
      /\ failures \in 0..MaxFailures /\ MaxFailures \in Nat
  BY PaperAssumption DEF PaperInv, PaperTyped, PaperAssumption
<1>1. CASE ServerChecks  BY <1>1, CheckKeeps
<1>2. CASE ServerRefuses
  <2>1. /\ AtServer /\ crossed' = crossed /\ failures' = failures /\ store' = store
        /\ step' = [step EXCEPT !.answer = "failed"]
    BY <1>2 DEF ServerRefuses
  <2> QED  BY <1>0, <2>1, EndKeeps
<1>3. CASE ServerWrites
  <2>1. /\ AtServer /\ crossed' = crossed /\ failures' = failures /\ MayWrite /\ Effect
        /\ step' = [step EXCEPT !.answer = "done"]
    BY <1>3 DEF ServerWrites
  <2> QED  BY <1>0, <2>1, EndKeeps
<1>4. CASE ServerFails
  <2>1. /\ AtServer /\ crossed' = crossed /\ failures < MaxFailures /\ failures' = failures + 1
        /\ (MayWrite /\ Effect) \/ store' = store
        /\ step' = [step EXCEPT !.answer = "failed"]
    BY <1>4 DEF ServerFails
  <2>2. failures' \in 0..MaxFailures  BY <1>0, <2>1
  <2> QED  BY <1>0, <2>1, <2>2, EndKeeps
<1> QED  BY <1>1, <1>2, <1>3, <1>4 DEF Serve

(* What the page does with the paper it has read.                          *)
LEMMA PaperLoadKeeps == ASSUME PaperInv, LoadReturns PROVE PaperInv'
<1>0. PaperAssumption /\ PaperTyped /\ AllSound /\ StepsAgree /\ JobAgrees /\ StoreAgrees /\ PageAgrees
      /\ ReadyAgrees
  BY PaperAssumption DEF PaperInv
<1>1. /\ step.name = "load" /\ step' = NoStep /\ ploading' = FALSE
      /\ UNCHANGED <<edits, creating, picker, psaving, job, hasty, store, released, withdrawing, crossed, failures>>
      /\ ~psaving
  BY <1>0 DEF LoadReturns, Server, StepsAgree
<1>2. /\ step' \in [name : Steps, answer : {"none", "checked", "done", "failed"}] /\ step'.name = "none"
      /\ step'.answer = "none"
  BY <1>1 DEF NoStep, Steps
<1>r. ReadyAgrees'  BY <1>0, <1>1, <1>2, ReadyStays
<1>3. StepsAgree' /\ JobAgrees' /\ StoreAgrees' /\ ReadyAgrees'
  BY <1>0, <1>1, <1>2, <1>r DEF StepsAgree, JobAgrees, StoreAgrees
<1>4. CASE step.answer = "done"
  <2>1. /\ copy' = store.paper /\ sections' = SectionsOf(store.outline) /\ original' = sections'
        /\ active' = sections'[1].key /\ pdirty' = FALSE /\ torn' = FALSE
        /\ fields' = [title |-> store.paper.title, status |-> store.paper.status]
    BY <1>4 DEF LoadReturns, Adopt
  <2>2. /\ sections' \in Seq(Section) /\ Sound(sections') /\ sections'[1].key \in Nat
        /\ OutlineOf(sections') = ShownOutline(store.outline)
    <3>1. store.outline \in Outlines /\ SoundOutline(store.outline)  BY <1>0 DEF PaperTyped, AllSound
    <3>2. /\ SectionsOf(store.outline) \in Seq(Section) /\ Sound(SectionsOf(store.outline))
          /\ SectionsOf(store.outline)[1].key \in Nat
          /\ OutlineOf(SectionsOf(store.outline)) = ShownOutline(store.outline)
      BY <3>1, ShownSections
    <3> QED  BY <2>1, <3>2
  <2>3. store.paper \in Papers /\ store.paper.title \in 0..MaxTitles /\ store.paper.status \in Statuses
    BY <1>0 DEF PaperTyped, Papers
  <2>4. PaperTyped'  BY <1>0, <1>1, <1>2, <2>1, <2>2, <2>3 DEF PaperTyped
  <2>5. AllSound'  BY <1>0, <1>1, <2>1, <2>2 DEF AllSound
  <2>6. PageAgrees'  BY <1>1, <1>2, <2>1, <2>2 DEF PageAgrees, Calm
  <2> QED  BY <1>3, <2>4, <2>5, <2>6 DEF PaperInv
<1>5. CASE step.answer # "done"
  <2>1. torn' = TRUE /\ UNCHANGED <<copy, sections, original, active, fields, pdirty>>
    BY <1>5 DEF LoadReturns
  <2>2. PaperTyped'  BY <1>0, <1>1, <1>2, <2>1 DEF PaperTyped
  <2>3. AllSound'  BY <1>0, <1>1, <2>1 DEF AllSound
  <2>4. PageAgrees'  BY <1>1, <1>2, <2>1 DEF PageAgrees, Calm
  <2> QED  BY <1>3, <2>2, <2>3, <2>4 DEF PaperInv
<1> QED  BY <1>4, <1>5

(* The end of a save that went well.                                       *)
LEMMA SavedKeeps ==
  ASSUME PaperInv, NEW st \in Statuses, Saved(st), st = store.paper.status, psaving, ~ploading,
         UNCHANGED <<edits, fields, picker, hasty, store, released, withdrawing, crossed, failures>>,
         sections' \in Seq(Section), Sound(sections'), original' \in Seq(Section), Sound(original'),
         active' \in Nat, store.paper.live,
         ~hasty => /\ OutlineOf(original') = ShownOutline(store.outline)
                   /\ OutlineOf(sections') = ShownOutline(store.outline)
                   /\ fields = [title |-> store.paper.title, status |-> store.paper.status]
  PROVE  PaperInv'
<1>0. PaperAssumption /\ PaperTyped /\ AllSound /\ ReadyAgrees
  BY PaperAssumption DEF PaperInv
<1>1. /\ copy' = [store.paper EXCEPT !.status = st] /\ pdirty' = FALSE /\ psaving' = FALSE
      /\ torn' = FALSE /\ job' = NoJob /\ creating' = FALSE /\ ploading' = creating
      /\ step' = IF creating THEN Ask("load") ELSE NoStep
  BY DEF Saved
<1>2. store.paper \in Papers /\ creating \in BOOLEAN /\ copy' = store.paper
  <2>1. store.paper \in Papers /\ creating \in BOOLEAN  BY <1>0 DEF PaperTyped
  <2> QED  BY <1>1, <2>1 DEF Papers
<1>3. /\ step' \in [name : Steps, answer : {"none", "checked", "done", "failed"}]
      /\ step'.name = (IF creating THEN "load" ELSE "none") /\ step'.answer = "none"
  BY <1>1, <1>2 DEF Ask, NoStep, Steps
<1>4. NoJob \in Jobs /\ SoundOutline(NoJob.outline) /\ NoJob.defer = FALSE
  BY <1>0, DefaultIsSound DEF NoJob, Jobs, Statuses, PaperAssumption
<1>5. PaperTyped'  BY <1>0, <1>1, <1>2, <1>3, <1>4 DEF PaperTyped
<1>6. AllSound'  BY <1>0, <1>1, <1>4 DEF AllSound
<1>7. StepsAgree'  BY <1>1, <1>3 DEF StepsAgree
<1>8. JobAgrees'  BY <1>1, <1>3, <1>4 DEF JobAgrees
<1>9. StoreAgrees'  BY <1>1, <1>3 DEF StoreAgrees
<1>10. PageAgrees'
  <2>1. step'.name # "publish" /\ ~psaving'  BY <1>1, <1>3
  <2> QED  BY <1>1, <1>2, <2>1 DEF PageAgrees, Calm
<1>11. ReadyAgrees'  BY <1>0, <1>3, ReadyStays
<1> QED  BY <1>5, <1>6, <1>7, <1>8, <1>9, <1>10, <1>11 DEF PaperInv

(* What the page does with the answers to the requests of a save.          *)
LEMMA ReturnsKeep ==
  ASSUME PaperInv, PaperReturns \/ OutlineReturns \/ PublishReturns \/ SaveFails PROVE PaperInv'
<1>0. PaperAssumption /\ PaperTyped /\ AllSound /\ StepsAgree /\ JobAgrees /\ StoreAgrees /\ PageAgrees
      /\ ReadyAgrees
  BY PaperAssumption DEF PaperInv
<1>a. \A name \in Steps : /\ Ask(name) \in [name : Steps, answer : {"none", "checked", "done", "failed"}]
                          /\ Ask(name).name = name /\ Ask(name).answer = "none"
  BY DEF Ask
<1>b. "outline" \in Steps /\ "publish" \in Steps  BY DEF Steps
<1>c. FirstStatus = IF job.defer THEN "DRAFT" ELSE job.status  BY DEF FirstStatus
<1>1. CASE PaperReturns
  <2>1. /\ step.name = "paper" /\ step.answer = "done" /\ step' = Ask("outline")
        /\ UNCHANGED <<edits, creating, copy, fields, sections, original, active, picker, pdirty, psaving,
                       ploading, job, torn, hasty, store, released, withdrawing, crossed, failures>>
    BY <1>1 DEF PaperReturns, Server
  <2>2. PaperTyped'  BY <1>0, <1>a, <1>b, <2>1 DEF PaperTyped
  <2>3. AllSound'  BY <1>0, <2>1 DEF AllSound
  <2>4. StepsAgree' /\ JobAgrees'  BY <1>0, <1>a, <1>b, <2>1 DEF StepsAgree, JobAgrees
  <2>5. StoreAgrees'  BY <1>0, <1>a, <1>b, <2>1 DEF StoreAgrees, FirstStatus
  <2>6. PageAgrees'
    <3>1. psaving  BY <1>0, <2>1 DEF StepsAgree
    <3> QED  BY <1>0, <1>a, <1>b, <2>1, <3>1 DEF PageAgrees, Calm
  <2>7. ReadyAgrees'  BY <1>0, <1>a, <1>b, <2>1, ReadyStays
  <2> QED  BY <2>2, <2>3, <2>4, <2>5, <2>6, <2>7 DEF PaperInv
<1>2. CASE OutlineReturns
  <2>1. /\ step.name = "outline" /\ step.answer = "done"
        /\ sections' = SectionsOf(store.outline) /\ original' = sections'
        /\ active' = IF store.outline = <<>> THEN 0 ELSE sections'[1].key
        /\ UNCHANGED <<edits, fields, picker, hasty, store, released, withdrawing, crossed, failures>>
    BY <1>2 DEF OutlineReturns, Adopt, Server
  <2>2. /\ sections' \in Seq(Section) /\ Sound(sections') /\ sections'[1].key \in Nat
        /\ OutlineOf(sections') = ShownOutline(store.outline)
    <3>1. store.outline \in Outlines /\ SoundOutline(store.outline)  BY <1>0 DEF PaperTyped, AllSound
    <3>2. /\ SectionsOf(store.outline) \in Seq(Section) /\ Sound(SectionsOf(store.outline))
          /\ SectionsOf(store.outline)[1].key \in Nat
          /\ OutlineOf(SectionsOf(store.outline)) = ShownOutline(store.outline)
      BY <3>1, ShownSections
    <3> QED  BY <2>1, <3>2
  <2>3. active' \in Nat  BY <2>1, <2>2
  <2>4. /\ psaving /\ ~ploading /\ store.paper.live /\ store.paper.title = job.title
        /\ store.paper.status = FirstStatus
    BY <1>0, <2>1 DEF StepsAgree, StoreAgrees
  <2>5. CASE job.defer
    <3>1. step' = Ask("publish") /\ UNCHANGED <<creating, copy, pdirty, psaving, ploading, torn, job>>
      BY <1>2, <2>5 DEF OutlineReturns
    <3>2. PaperTyped'  BY <1>0, <1>a, <1>b, <2>1, <2>2, <2>3, <3>1 DEF PaperTyped
    <3>3. AllSound'  BY <1>0, <2>1, <2>2, <3>1 DEF AllSound
    <3>4. StepsAgree' /\ JobAgrees'  BY <1>0, <1>a, <1>b, <2>1, <2>4, <2>5, <3>1 DEF StepsAgree, JobAgrees
    <3>5. StoreAgrees'  BY <1>0, <1>a, <1>b, <2>1, <2>4, <3>1 DEF StoreAgrees
    <3>6. PageAgrees'  BY <1>0, <2>1, <2>2, <2>4, <3>1 DEF PageAgrees, Calm
    <3>7. ReadyAgrees'  BY <1>0, <1>a, <1>b, <2>1, <3>1, ReadyStays
    <3> QED  BY <3>2, <3>3, <3>4, <3>5, <3>6, <3>7 DEF PaperInv
  <2>6. CASE ~job.defer
    <3>1. Saved(store.paper.status)  BY <1>2, <2>6 DEF OutlineReturns
    <3>2. store.paper.status \in Statuses  BY <1>0 DEF PaperTyped, Papers
    <3>3. ~hasty => fields = [title |-> store.paper.title, status |-> store.paper.status]
      BY <1>0, <1>c, <2>4, <2>6 DEF PageAgrees
    <3> QED  BY <2>1, <2>2, <2>3, <2>4, <3>1, <3>2, <3>3, SavedKeeps
  <2> QED  BY <2>5, <2>6
<1>3. CASE PublishReturns
  <2>1. /\ step.name = "publish" /\ step.answer = "done" /\ Saved("PUBLISHED")
        /\ UNCHANGED <<edits, fields, sections, original, active, picker, hasty, store, released, withdrawing, crossed, failures>>
    BY <1>3 DEF PublishReturns, Server
  <2>2. /\ psaving /\ ~ploading /\ store.paper.live /\ store.paper.title = job.title
        /\ store.paper.status = "PUBLISHED" /\ job.status = "PUBLISHED"
    BY <1>0, <2>1 DEF StepsAgree, StoreAgrees, JobAgrees
  <2>3. ~hasty => /\ OutlineOf(original) = ShownOutline(store.outline)
                  /\ OutlineOf(sections) = ShownOutline(store.outline)
                  /\ fields = [title |-> store.paper.title, status |-> store.paper.status]
    BY <1>0, <2>1, <2>2 DEF PageAgrees
  <2>4. /\ sections \in Seq(Section) /\ original \in Seq(Section) /\ active \in Nat
        /\ Sound(sections) /\ Sound(original) /\ "PUBLISHED" \in Statuses
    BY <1>0 DEF PaperTyped, AllSound, Statuses
  <2> QED  BY <2>1, <2>2, <2>3, <2>4, SavedKeeps
<1>4. CASE SaveFails
  <2>1. /\ step.name \in {"paper", "outline", "publish"} /\ step' = NoStep /\ psaving' = FALSE
        /\ torn' = TRUE /\ job' = NoJob
        /\ UNCHANGED <<edits, creating, copy, fields, sections, original, active, picker, pdirty, ploading,
                       hasty, store, released, withdrawing, crossed, failures>>
    BY <1>4 DEF SaveFails, Server
  <2>2. /\ step' \in [name : Steps, answer : {"none", "checked", "done", "failed"}] /\ step'.name = "none"
        /\ step'.answer = "none"
    BY <2>1 DEF NoStep, Steps
  <2>3. NoJob \in Jobs /\ SoundOutline(NoJob.outline) /\ NoJob.defer = FALSE
    BY <1>0, DefaultIsSound DEF NoJob, Jobs, Statuses, PaperAssumption
  <2>4. PaperTyped'  BY <1>0, <2>1, <2>2, <2>3 DEF PaperTyped
  <2>5. AllSound'  BY <1>0, <2>1, <2>3 DEF AllSound
  <2>6. StepsAgree' /\ JobAgrees'  BY <1>0, <2>1, <2>2, <2>3 DEF StepsAgree, JobAgrees
  <2>7. StoreAgrees'  BY <1>0, <2>1, <2>2 DEF StoreAgrees
  <2>8. PageAgrees'  BY <2>1, <2>2 DEF PageAgrees, Calm
  <2>9. ReadyAgrees'  BY <1>0, <2>1, <2>2, ReadyStays
  <2> QED  BY <2>4, <2>5, <2>6, <2>7, <2>8, <2>9 DEF PaperInv
<1> QED  BY <1>1, <1>2, <1>3, <1>4

(* A withdrawal of a question that no published paper was found to have.   *)
LEMMA WithdrawalKeeps == ASSUME PaperInv, OthersWithdraw PROVE PaperInv'
<1>0. PaperTyped /\ AllSound /\ StepsAgree /\ JobAgrees /\ StoreAgrees /\ PageAgrees /\ ReadyAgrees
  BY DEF PaperInv
<1>1. PICK b \in Bank : WithdrawChecks(b) \/ WithdrawWrites(b)  BY DEF OthersWithdraw
<1>2. UNCHANGED <<edits, creating, store, copy, fields, sections, original, active, picker, pdirty,
                  psaving, ploading, step, job, failures, torn, hasty>>
  BY <1>1 DEF WithdrawChecks, WithdrawWrites
<1>3. AllSound'  BY <1>0, <1>2 DEF AllSound
<1>4. StepsAgree' /\ JobAgrees' /\ StoreAgrees'
  BY <1>0, <1>2 DEF StepsAgree, JobAgrees, StoreAgrees, FirstStatus
<1>5. PageAgrees'  BY <1>0, <1>2 DEF PageAgrees, Calm
<1>6. (Checked => Checked') /\ About' = About  BY <1>2 DEF Checked, FirstStatus, About
<1>7. CASE WithdrawChecks(b)
  <2>1. /\ b \in released \ withdrawing /\ released' = released /\ withdrawing' = withdrawing \cup {b}
        /\ store.paper.status = "PUBLISHED" => b \notin {item.q : item \in Items(store.outline)}
        /\ crossed' = IF step.answer = "checked" /\ b \in Concerned THEN crossed \cup {b} ELSE crossed
    BY <1>7 DEF WithdrawChecks
  <2>2. PaperTyped'
    <3>1. released' \subseteq Bank /\ withdrawing' \subseteq released' /\ crossed' \subseteq Bank
      BY <1>0, <2>1 DEF PaperTyped
    <3> QED  BY <1>0, <1>2, <3>1 DEF PaperTyped
  <2>3. /\ \A q \in Firm : q # b => q \in Firm'
        /\ step.answer = "checked" => \A q \in Firm : q \in Concerned => q \in Firm'
    BY <2>1 DEF Firm
  <2>4. ASSUME store.paper.status = "PUBLISHED"
        PROVE  /\ Items(store.outline) # {}
               /\ \A item \in Items(store.outline) : item.scored /\ item.q \in Firm'
    <3>1. \A item \in Items(store.outline) : item.q # b  BY <2>1, <2>4
    <3> QED  BY <1>0, <2>3, <2>4, <3>1 DEF ReadyAgrees
  <2>5. ASSUME step.answer = "checked"
        PROVE  \A item \in Items(About) : item.scored /\ item.q \in Firm'
    <3>1. \A item \in Items(About) : item.q \in Concerned  BY DEF Concerned
    <3> QED  BY <1>0, <2>3, <2>5, <3>1 DEF ReadyAgrees
  <2>6. ReadyAgrees'  BY <1>0, <1>2, <1>6, <2>4, <2>5 DEF ReadyAgrees
  <2> QED  BY <1>3, <1>4, <1>5, <2>2, <2>6 DEF PaperInv
<1>8. CASE WithdrawWrites(b)
  <2>1. /\ b \in withdrawing /\ withdrawing' = withdrawing \ {b} /\ released' = released \ {b}
        /\ crossed' = crossed
    BY <1>8 DEF WithdrawWrites
  <2>2. PaperTyped'
    <3>1. released' \subseteq Bank /\ withdrawing' \subseteq released' /\ crossed' \subseteq Bank
      BY <1>0, <2>1 DEF PaperTyped
    <3> QED  BY <1>0, <1>2, <3>1 DEF PaperTyped
  <2>3. Firm' = Firm  BY <2>1 DEF Firm
  <2>4. ReadyAgrees'  BY <1>0, <1>2, <1>6, <2>3 DEF ReadyAgrees
  <2> QED  BY <1>3, <1>4, <1>5, <2>2, <2>4 DEF PaperInv
<1> QED  BY <1>1, <1>7, <1>8

(* Every handler of the page, every answer, and what others withdraw.      *)
LEMMA PaperStep == PaperInv /\ [PaperNext]_paperVars => PaperInv'
<1> SUFFICES ASSUME PaperInv, [PaperNext]_paperVars PROVE PaperInv'  OBVIOUS
<1>1. CASE EditPaper  BY <1>1, EditStep
<1>2. CASE SavePaper  BY <1>2, SaveStarts
<1>3. CASE PaperGoesOn  BY <1>3, ServeKeeps, PaperLoadKeeps, ReturnsKeep DEF PaperGoesOn
<1>4. CASE OthersWithdraw  BY <1>4, WithdrawalKeeps
<1>5. CASE UNCHANGED paperVars
  <2>1. PaperTyped'  BY <1>5 DEF paperVars, PaperInv, PaperTyped
  <2> QED  BY <1>5, <2>1 DEF paperVars, PaperInv, AllSound, StepsAgree, JobAgrees, StoreAgrees, FirstStatus,
              PageAgrees, Calm, ReadyAgrees, Firm, Checked, About, FirstStatus
<1> QED  BY <1>1, <1>2, <1>3, <1>4, <1>5 DEF PaperNext

(* For any bank, sections, edits and losses: the page, the save in         *)
(* progress and the store agree, after each of its requests, answered or   *)
(* not, on which paper it is and how far it got.                           *)
THEOREM PaperInvariant == PaperSpec => []PaperInv
BY PaperStart, PaperStep, PTL DEF PaperSpec

(* No question is twice in the paper, whatever is moved, removed or added, *)
(* however long the picker was open, and whatever a save or a load has put *)
(* in the sections' place meanwhile (addPickedQuestions).                  *)
THEOREM QuestionsAreOnce == PaperSpec => []NoQuestionTwice
<1>1. PaperInv => NoQuestionTwice  BY DEF PaperInv, AllSound, Sound, Once, NoQuestionTwice
<1> QED  BY <1>1, PaperInvariant, PTL

(* A paper stored as published has questions, all of them scored, and each *)
(* published but for those whose withdrawal crossed a request about the    *)
(* paper between check and write (UpdatePaper, SavePaperOutline,           *)
(* PatchQuestionStatus): a save sends the outline before it publishes, and *)
(* a withdrawal is refused while a published paper has the question.       *)
THEOREM PublishedStaysReady == PaperSpec => []PublishedIsReady
<1>1. PaperInv => PublishedIsReady  BY DEF PaperInv, ReadyAgrees, Firm, PublishedIsReady
<1> QED  BY <1>1, PaperInvariant, PTL

(* A page that offers neither to save nor to cancel shows the stored       *)
(* paper, if it was left alone while it saved and its requests got         *)
(* through.                                                                *)
THEOREM CleanPageIsStored == PaperSpec => []CleanShowsStored
<1>1. ASSUME PaperInv PROVE CleanShowsStored
  <2>1. PageAgrees /\ store.outline \in Outlines /\ SoundOutline(store.outline)
    BY <1>1 DEF PaperInv, PaperTyped, AllSound
  <2>2. OutlineOf(SectionsOf(store.outline)) = ShownOutline(store.outline)  BY <2>1, ShownSections
  <2> QED  BY <2>1, <2>2 DEF PageAgrees, Calm, CleanShowsStored
<1> QED  BY <1>1, PaperInvariant, PTL

(* The types of the paper page as its module states them.                  *)
LEMMA PaperTypes == ASSUME PaperTyped PROVE PaperTypeOK
<1>1. {creating, pdirty, psaving, ploading, torn, hasty, picker.open} \subseteq BOOLEAN
  <2>1. picker.open \in BOOLEAN  BY DEF PaperTyped
  <2> QED  BY <2>1 DEF PaperTyped
<1>2. {store.paper, copy} \subseteq Papers /\ store.outline \in Seq(Seq(Outlined))
  BY DEF PaperTyped, Outlines
<1>3. fields.title \in 0..MaxTitles /\ fields.status \in Statuses  BY DEF PaperTyped
<1>4. \A s \in Range(sections) \cup Range(original) : s.key \in Nat /\ s.qs \in Seq(Shown)
  <2>1. \A secs \in Seq(Section) : \A s \in Range(secs) : s.key \in Nat /\ s.qs \in Seq(Shown)
    <3> SUFFICES ASSUME NEW secs \in Seq(Section), NEW i \in DOMAIN secs
                 PROVE  secs[i].key \in Nat /\ secs[i].qs \in Seq(Shown)
      BY DEF Range
    <3> QED  BY SectionElements
  <2>2. sections \in Seq(Section) /\ original \in Seq(Section)  BY DEF PaperTyped
  <2> QED  BY <2>1, <2>2
<1>5. /\ active \in Nat /\ picker.found \subseteq Bank
      /\ released \subseteq Bank /\ withdrawing \subseteq released /\ crossed \subseteq Bank
      /\ step.name \in Steps /\ step.answer \in {"none", "checked", "done", "failed"}
      /\ edits \in 0..MaxEdits /\ failures \in 0..MaxFailures
  BY DEF PaperTyped
<1> QED  BY <1>1, <1>2, <1>3, <1>4, <1>5 DEF PaperTypeOK

-----------------------------------------------------------------------------
(***************************************************************************)
(* One page beside the others.                                             *)
(***************************************************************************)
(* A page that is not mounted stays as it is; the one that is takes its    *)
(* own steps only.                                                         *)
EachPage == QuestionInv /\ PaperInv /\ DeskInv /\ AuthInv

(* One page just opened beside the others.                                 *)
LEMMA PagesStart == PagesInit => EachPage
BY QuestionStart, PaperStart, DeskInit, AuthStart DEF PagesInit, EachPage

(* A step of the page that is mounted.                                     *)
LEMMA PagesStep == EachPage /\ [PagesNext]_pageVars => EachPage'
<1> SUFFICES ASSUME EachPage, [PagesNext]_pageVars PROVE EachPage'  OBVIOUS
<1>1. /\ [QuestionNext]_questionVars /\ [PaperNext]_paperVars
      /\ [ResultNext]_resultVars /\ [AuthNext]_authVars
  <2>1. CASE PagesNext  BY <2>1 DEF PagesNext
  <2>2. CASE UNCHANGED pageVars  BY <2>2 DEF pageVars
  <2> QED  BY <2>1, <2>2
<1> QED  BY <1>1, QuestionStep, PaperStep, DeskStep, AuthStep DEF EachPage

(* For any constants at once: the pages one beside the other, one of them  *)
(* mounted, keep all that each keeps on its own.                           *)
THEOREM PagesInvariant == PagesSpec => []EachPage
BY PagesStart, PagesStep, PTL DEF PagesSpec

(* Whichever page is mounted, its form, its requests and what the server   *)
(* has of it stay of their types.                                          *)
THEOREM PagesTypes == PagesSpec => []PagesTypeOK
<1>1. QuestionInv => QuestionTypeOK
  BY DEF QuestionInv, QuestionTyped, QuestionTypeOK, Forms
<1>2. DeskInv => ResultTypeOK
  BY DEF DeskInv, DeskTyped, DeskRecords, ResultTypeOK
<1>3. PaperInv => PaperTypeOK  BY PaperTypes DEF PaperInv
<1>4. EachPage => PagesTypeOK  BY <1>1, <1>2, <1>3 DEF EachPage, AuthInv, PagesTypeOK
<1> QED  BY <1>4, PagesInvariant, PTL
=============================================================================
