------------------------------- MODULE AdminAuth --------------------------------
(***************************************************************************)
(* Signing in to the console and out of it, in several tabs of one         *)
(* browser: Login.tsx, getInitialState and ForbiddenPage in app.tsx,       *)
(* AvatarDropdown.tsx, the token in localStorage and the copy each tab     *)
(* keeps of it (auth/token.ts), request.ts and apiEnvelope.ts, over the    *)
(* handlers of internal/api/auth.go.  A token is the number of the login   *)
(* that issued it, 0 standing for none.                                    *)
(***************************************************************************)
EXTENDS Naturals, Sequences

CONSTANTS
  AuthTabs,
  People,
  Admins,     \* the people with the role admin
  Nobody,     \* a tab that shows no user
  MaxLogins   \* bound: tokens that are issued

VARIABLES
  owner,  \* the person of each token
  spent,  \* tokens that are revoked or expired
  stored, \* the token in localStorage
  visit,  \* [AuthTabs -> the page: where it is, its copy of the token, its user]
  call,   \* [AuthTabs -> the request of the page's own: login, me or logout]
  work    \* [AuthTabs -> a request for data]

authVars == <<owner, spent, stored, visit, call, work>>

ASSUME AuthAssumption == Admins \subseteq People /\ Nobody \notin People /\ MaxLogins \in Nat

Silent == [op |-> "none", token |-> 0, who |-> Nobody, reply |-> "none"]
Away   == [at |-> "closed", token |-> 0, user |-> Nobody]

Persons == People \cup {Nobody}

(* Pages and requests, while the tokens up to n have been issued.          *)
Visits(n) ==
  [at : {"closed", "login", "entering", "checking", "home", "leaving", "barred"},
   token : 0..n, user : Persons]
TokenCalls(n) ==
  [op : {"none", "login", "me", "logout", "data"}, token : 0..n, who : Persons,
   reply : {"none", "ok", "refused", "lost"}]

AuthTypeOK ==
  /\ owner \in Seq(People) /\ Len(owner) <= MaxLogins
  /\ spent \subseteq 1..Len(owner) /\ stored \in 0..Len(owner)
  /\ visit \in [AuthTabs -> Visits(Len(owner))]
  /\ call \in [AuthTabs -> TokenCalls(Len(owner))] /\ work \in [AuthTabs -> TokenCalls(Len(owner))]

AuthInit ==
  /\ owner = <<>> /\ spent = {} /\ stored = 0
  /\ visit = [t \in AuthTabs |-> Away]
  /\ call = [t \in AuthTabs |-> Silent] /\ work = [t \in AuthTabs |-> Silent]

-----------------------------------------------------------------------------
(* The page.  getAccessToken: the copy, else what is in localStorage.      *)

AccessToken_Stored(t) == stored

AccessToken(t) == IF visit[t].token # 0 THEN visit[t].token ELSE stored

Sends(t, op, k, p) == call' = [call EXCEPT ![t] = [op |-> op, token |-> k, who |-> p, reply |-> "none"]]

AtLogin == [at |-> "login", token |-> 0, user |-> Nobody]

(* getInitialState, when a page other than /login is loaded: the copy      *)
(* starts empty.                                                           *)
LoadPage(t) ==
  /\ visit' = [visit EXCEPT ![t] = IF stored = 0 THEN AtLogin
                                   ELSE [at |-> "checking", token |-> stored, user |-> Nobody]]
  /\ IF stored = 0 THEN call' = [call EXCEPT ![t] = Silent] ELSE Sends(t, "me", stored, Nobody)
  /\ work' = [work EXCEPT ![t] = Silent]
  /\ UNCHANGED <<owner, spent, stored>>

(* A tab is opened or loaded again at any time; what it waited for is      *)
(* lost.  One that is closed is one that does nothing any more.            *)
VisitConsole(t) == visit[t].at # "entering" /\ LoadPage(t)

VisitLogin(t) ==
  /\ visit[t].at \notin {"entering", "login"}
  /\ visit' = [visit EXCEPT ![t] = AtLogin]
  /\ call' = [call EXCEPT ![t] = Silent] /\ work' = [work EXCEPT ![t] = Silent]
  /\ UNCHANGED <<owner, spent, stored>>

(* handleSubmit of the login page.                                         *)
SubmitLogin(t, p) ==
  /\ visit[t].at = "login" /\ call[t] = Silent
  /\ Sends(t, "login", 0, p)
  /\ UNCHANGED <<owner, spent, stored, visit, work>>

(* setAccessToken, and the page is left for /, which takes a while;        *)
(* without a token the login page shows an error.                          *)
LoginReturns(t) ==
  /\ call[t].op = "login" /\ call[t].reply # "none"
  /\ IF call[t].reply = "ok"
     THEN /\ stored' = call[t].token
          /\ visit' = [visit EXCEPT ![t] = [at |-> "entering", token |-> call[t].token, user |-> Nobody]]
     ELSE UNCHANGED <<stored, visit>>
  /\ call' = [call EXCEPT ![t] = Silent]
  /\ UNCHANGED <<owner, spent, work>>

Enter(t) == visit[t].at = "entering" /\ LoadPage(t)

(* The rest of getInitialState: a user, and access.ts and the routes let   *)
(* administrators in; an envelope with another code, whatever its status,  *)
(* makes the page a forbidden one; and without an answer there is no user, *)
(* which onPageChange sends to the login page.                             *)
MeReturns(t) ==
  /\ call[t].op = "me" /\ call[t].reply # "none"
  /\ visit' = [visit EXCEPT
       ![t].at   = CASE call[t].reply = "lost"    -> "login"
                     [] call[t].reply = "refused" -> "barred"
                     [] OTHER -> IF call[t].who \in Admins THEN "home" ELSE "barred",
       ![t].user = IF call[t].reply = "ok" THEN call[t].who ELSE Nobody]
  /\ call' = [call EXCEPT ![t] = Silent]
  /\ UNCHANGED <<owner, spent, stored, work>>

(* Any page asks for data, the token put on by the interceptor or by       *)
(* fetchEnvelope.                                                          *)
AskForData(t) ==
  /\ visit[t].at = "home" /\ work[t] = Silent
  /\ work' = [work EXCEPT ![t] = [op |-> "data", token |-> AccessToken(t), who |-> Nobody, reply |-> "none"]]
  /\ UNCHANGED <<owner, spent, stored, visit, call>>

(* errorHandler leaves for /login when the answer was a 401; fetchEnvelope *)
(* and the requests with skipErrorHandler only show a message.             *)
DataReturns(t) ==
  /\ work[t].reply # "none" /\ work' = [work EXCEPT ![t] = Silent]
  /\ \/ UNCHANGED <<visit, call>>
     \/ /\ work[t].reply = "refused"
        /\ visit' = [visit EXCEPT ![t] = AtLogin] /\ call' = [call EXCEPT ![t] = Silent]
  /\ UNCHANGED <<owner, spent, stored>>

(* The menu's logout drops the user at once; the forbidden page's does     *)
(* not, and can have no token to send by now.                              *)
AskToLogout(t) ==
  /\ visit[t].at \in {"home", "barred"} /\ call[t] = Silent
  /\ visit' = [visit EXCEPT ![t].at = "leaving", ![t].user = IF visit[t].at = "home" THEN Nobody ELSE @]
  /\ Sends(t, "logout", AccessToken(t), Nobody)
  /\ UNCHANGED <<owner, spent, stored, work>>

(* Whatever the answer, clearAuthStorage and the login page.               *)
LogoutReturns(t) ==
  /\ call[t].op = "logout" /\ call[t].reply # "none"
  /\ stored' = 0
  /\ visit' = [visit EXCEPT ![t] = AtLogin]
  /\ call' = [call EXCEPT ![t] = Silent] /\ work' = [work EXCEPT ![t] = Silent]
  /\ UNCHANGED <<owner, spent>>

-----------------------------------------------------------------------------
(* The server.                                                             *)

Waiting(c) == c.op # "none" /\ c.reply = "none"

(* Authenticate: not blacklisted, not expired.                             *)
Authentic(k) == k # 0 /\ k \notin spent

Answer(f, t, reply) == [f EXCEPT ![t].reply = reply]

(* Login, or wrong credentials.                                            *)
ServeLogin(t) ==
  /\ call[t].op = "login" /\ Waiting(call[t])
  /\ \/ /\ Len(owner) < MaxLogins
        /\ owner' = Append(owner, call[t].who)
        /\ call' = [call EXCEPT ![t].reply = "ok", ![t].token = Len(owner) + 1]
     \/ call' = Answer(call, t, "refused") /\ UNCHANGED owner
  /\ UNCHANGED <<spent, stored, visit, work>>

ServeMe(t) ==
  /\ call[t].op = "me" /\ Waiting(call[t])
  /\ call' = IF Authentic(call[t].token)
             THEN [call EXCEPT ![t].reply = "ok", ![t].who = owner[call[t].token]]
             ELSE Answer(call, t, "refused")
  /\ UNCHANGED <<owner, spent, stored, visit, work>>

ServeData(t) ==
  /\ Waiting(work[t])
  /\ work' = Answer(work, t, IF Authentic(work[t].token) THEN "ok" ELSE "refused")
  /\ UNCHANGED <<owner, spent, stored, visit, call>>

(* Logout puts the token on the blacklist for longer than it is valid.     *)
ServeLogout(t) ==
  /\ call[t].op = "logout" /\ Waiting(call[t])
  /\ IF Authentic(call[t].token)
     THEN spent' = spent \cup {call[t].token} /\ call' = Answer(call, t, "ok")
     ELSE call' = Answer(call, t, "refused") /\ UNCHANGED spent
  /\ UNCHANGED <<owner, stored, visit, work>>

(* A request gets lost on its way to the server, or its answer on its way  *)
(* back.                                                                   *)
LoseCall(t) ==
  /\ call[t].op # "none" /\ call[t].reply # "lost"
  /\ call' = Answer(call, t, "lost")
  /\ UNCHANGED <<owner, spent, stored, visit, work>>

LoseData(t) ==
  /\ Waiting(work[t]) /\ work' = Answer(work, t, "lost")
  /\ UNCHANGED <<owner, spent, stored, visit, call>>

(* A token's time is over.                                                 *)
ExpireToken(k) ==
  /\ k \in 1..Len(owner) /\ k \notin spent
  /\ spent' = spent \cup {k}
  /\ UNCHANGED <<owner, stored, visit, call, work>>

TabReturns(t)  == LoginReturns(t) \/ MeReturns(t) \/ DataReturns(t) \/ LogoutReturns(t) \/ Enter(t)
ServerGoes(t)  == ServeLogin(t) \/ ServeMe(t) \/ ServeData(t) \/ ServeLogout(t)

AuthNext ==
  \/ \E t \in AuthTabs :
       \/ VisitConsole(t) \/ VisitLogin(t) \/ AskForData(t) \/ AskToLogout(t)
       \/ \E p \in People : SubmitLogin(t, p)
       \/ TabReturns(t) \/ ServerGoes(t) \/ LoseCall(t) \/ LoseData(t)
  \/ \E k \in 1..MaxLogins : ExpireToken(k)

AuthSpec == AuthInit /\ [][AuthNext]_authVars

-----------------------------------------------------------------------------
(* Properties.                                                             *)

(* What a page asks for it asks for as the user it shows, whoever signs in *)
(* or out in another tab: the copy of the token is the user's.             *)
ActsAsShown ==
  \A t \in AuthTabs : visit[t].user # Nobody /\ visit[t].at \in {"home", "barred"} =>
    /\ AccessToken(t) # 0 /\ owner[AccessToken(t)] = visit[t].user
    /\ work[t].op = "data" => owner[work[t].token] = visit[t].user
=============================================================================
