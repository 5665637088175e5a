------------------------------- MODULE Accounts --------------------------------
(***************************************************************************)
(* Accounts and the tokens that open them: registering, logging in,        *)
(* logging out, changing the password and the profile, and the check that  *)
(* isAuthenticated makes of every request (controller/auth, learners and   *)
(* staff, utils/verifyToken.ts, model/Auth).                               *)
(*                                                                         *)
(* A token is a signed text that nothing stores.  What ends it early is an *)
(* entry of the TokenBlacklist: one of the token itself, or one of its     *)
(* user, which has one key per user and lasts a year.  A request reads the *)
(* two in turn.  Refresh tokens are created only when one is exchanged,    *)
(* and no login makes the first, so there are none; nor are there reset    *)
(* tokens, for forgotPassword asks for a field that no User has.           *)
(***************************************************************************)
EXTENDS Naturals, FiniteSets

CONSTANTS
  Id,        \* the _ids of User and of the profile that shares it
  Email,     \* email addresses
  Password,  \* passwords
  Token,     \* the tokens that may be issued
  Visit,     \* the requests in flight at once
  None       \* no user, email, password or token

ASSUME AccountsAssumption ==
  /\ None \notin Id \cup Email \cup Password \cup Token

VARIABLES
  user,      \* user[i]: the User document with _id i
  profile,   \* the users that have an Admin, Staff or Learner document
  blocked,   \* the users that have the entry USER_<id>_ALL_TOKENS
  token,     \* token[t]: a token, and whether it is blacklisted itself
  visit,     \* visit[v]: where request v is and what it holds
  told       \* what users have been told (no variable of the code)

accounts == <<user, profile, blocked, token, visit, told>>

-------------------------------------------------------------------------------

Absent == [live |-> FALSE, email |-> None, password |-> None]
User == [live : {TRUE}, email : Email, password : Password] \cup {Absent}

(* `of` is the id that was signed; `expired` is decided by the signed time.*)
IssuedToken ==
  [of : Id \cup {None}, revoked : BOOLEAN, expired : BOOLEAN]

(* `late` is set when the request brings a token that its user was told is *)
(* no longer good (no variable of the code).                               *)
Errand ==
  [at : {"idle", "create", "profile", "answer", "issue", "verify", "in",
         "save", "block", "update"},
   id : Id \cup {None}, email : Email \cup {None},
   password : Password \cup {None}, old : Password \cup {None},
   token : Token \cup {None}, late : BOOLEAN]

(* registered: the users whose registration was answered 201; ended: the   *)
(* tokens that a logout or a change of password answered 200 has ended;    *)
(* replaced: passwords that an answered change has replaced.               *)
Told ==
  [registered : SUBSET Id, ended : SUBSET Token, replaced : [Id -> SUBSET Password]]

Idle ==
  [at |-> "idle", id |-> None, email |-> None, password |-> None, old |-> None,
   token |-> None, late |-> FALSE]

AccountsInit ==
  /\ user = [i \in Id |-> Absent]
  /\ profile = {}
  /\ blocked = {}
  /\ token = [t \in Token |-> [of |-> None, revoked |-> FALSE, expired |-> FALSE]]
  /\ visit = [v \in Visit |-> Idle]
  /\ told = [registered |-> {}, ended |-> {}, replaced |-> [i \in Id |-> {}]]

Owners(e) == {i \in Id : user[i].live /\ user[i].email = e}
Issued(i) == {t \in Token : token[t].of = i}

Turn(v, errand) == visit' = [visit EXCEPT ![v] = errand]
Leave(v) == Turn(v, Idle)

(* A change of password has replaced p; a logout everywhere has no p. *)
Replaced(i, p) == [told.replaced EXCEPT ![i] = @ \cup ({p} \cap Password)]

(* A password that is stored is no longer one that was replaced. *)
Stored(i, p) == [told.replaced EXCEPT ![i] = @ \ {p}]

-------------------------------------------------------------------------------

(* adminRegisterLearner, adminRegisterStaff and registerAdminCtrl.         *)
StartRegister(v, e, p) ==
  /\ visit[v].at = "idle"
  /\ Owners(e) = {}
  /\ Turn(v, [at |-> "create", id |-> None, email |-> e, password |-> p, old |-> None,
               token |-> None, late |-> FALSE])
  /\ UNCHANGED <<user, profile, blocked, token, told>>

(* Mutant: no unique index on email. *)
NoIndex(i, e) == FALSE

(* The unique index on email. *)
EmailRefused(i, e) == Owners(e) \ {i} # {}

CreateUser(v, i) ==
  /\ visit[v].at = "create"
  /\ ~user[i].live
  /\ ~EmailRefused(i, visit[v].email)
  /\ user' = [user EXCEPT ![i] =
       [live |-> TRUE, email |-> visit[v].email, password |-> visit[v].password]]
  /\ Turn(v, [at |-> "profile", id |-> i, email |-> None, password |-> None,
               old |-> None, token |-> None, late |-> FALSE])
  /\ UNCHANGED <<profile, blocked, token, told>>

(* Mutant: the answer does not wait for the profile. *)
CreateProfileLater(v) ==
  /\ visit[v].at = "profile"
  /\ \/ profile' = profile \cup {visit[v].id}
     \/ UNCHANGED profile
  /\ Turn(v, [visit[v] EXCEPT !.at = "answer"])
  /\ UNCHANGED <<user, blocked, token, told>>

(* Its pre-save hook looks for the user.  For staff, memberships are       *)
(* checked before, and a refusal leaves the user without a profile.        *)
CreateProfile(v) ==
  /\ visit[v].at = "profile"
  /\ user[visit[v].id].live
  /\ profile' = profile \cup {visit[v].id}
  /\ Turn(v, [visit[v] EXCEPT !.at = "answer"])
  /\ UNCHANGED <<user, blocked, token, told>>

AnswerRegistered(v) ==
  /\ visit[v].at = "answer"
  /\ told' = [told EXCEPT !.registered = @ \cup {visit[v].id}]
  /\ Leave(v)
  /\ UNCHANGED <<user, profile, blocked, token>>

-------------------------------------------------------------------------------

(* loginLearner, loginStaff, loginAdminCtrl: the password is compared with *)
(* the copy that was read.  Only the login of an admin asks for no profile.*)
StartLogin(v, i) ==
  /\ visit[v].at = "idle"
  /\ user[i].live
  /\ Turn(v, [at |-> "issue", id |-> i, email |-> None, password |-> None,
               old |-> user[i].password, token |-> None, late |-> FALSE])
  /\ UNCHANGED <<user, profile, blocked, token, told>>

(* generateToken; the answer gives it to the user. *)
IssueToken(v, t) ==
  /\ visit[v].at = "issue"
  /\ token[t].of = None
  /\ token' = [token EXCEPT ![t].of = visit[v].id]
  /\ told' = IF visit[v].old \in told.replaced[visit[v].id]
             THEN [told EXCEPT !.ended = @ \cup {t}]
             ELSE told
  /\ Leave(v)
  /\ UNCHANGED <<user, profile, blocked>>

(* jwt.verify looks at signature and time, then the token is looked up.    *)
StartRequest(v, t) ==
  /\ visit[v].at = "idle"
  /\ token[t].of # None
  /\ ~token[t].expired
  /\ ~token[t].revoked
  /\ Turn(v, [at |-> "verify", id |-> token[t].of, email |-> None, password |-> None,
               old |-> None, token |-> t, late |-> t \in told.ended])
  /\ UNCHANGED <<user, profile, blocked, token, told>>

(* The user's entry, the user, the profile of the primary role. *)
Authenticate(v) ==
  /\ visit[v].at = "verify"
  /\ visit[v].id \notin blocked
  /\ visit[v].id \in profile
  /\ Turn(v, [visit[v] EXCEPT !.at = "in"])
  /\ UNCHANGED <<user, profile, blocked, token, told>>

-------------------------------------------------------------------------------

(* logout: blacklistToken ignores a token that is expired or has its entry.*)
Logout(v) ==
  /\ visit[v].at = "in"
  /\ token' = [token EXCEPT ![visit[v].token].revoked = ~token[visit[v].token].expired]
  /\ told' = [told EXCEPT !.ended = @ \cup {visit[v].token}]
  /\ Leave(v)
  /\ UNCHANGED <<user, profile, blocked>>

(* blacklistAllUserTokens throws when the user has an entry already. *)
Block(v) ==
  /\ visit[v].id \notin blocked
  /\ blocked' = blocked \cup {visit[v].id}
  /\ told' = [registered |-> told.registered,
               ended |-> told.ended \cup Issued(visit[v].id),
               replaced |-> Replaced(visit[v].id, visit[v].old)]
  /\ Leave(v)
  /\ UNCHANGED <<user, profile, token>>

LogoutAll(v) ==
  /\ visit[v].at = "in"
  /\ Block(v)

(* Mutant: the update writes the fields the request leaves out. *)
UpdatedWhole(i, e, p) == [live |-> user[i].live, email |-> e, password |-> p]

Updated(i, e, p) ==
  [live |-> user[i].live,
   email |-> IF e = None THEN user[i].email ELSE e,
   password |-> IF p = None THEN user[i].password ELSE p]

(* changePassword compares the old password with the copy it read, saves   *)
(* the hash of the new one, and then blocks the user's tokens.             *)
StartChange(v, p) ==
  /\ visit[v].at = "in"
  /\ user[visit[v].id].password # p
  /\ Turn(v, [at |-> "save", id |-> visit[v].id, email |-> None, password |-> p,
               old |-> user[visit[v].id].password, token |-> visit[v].token,
               late |-> visit[v].late])
  /\ UNCHANGED <<user, profile, blocked, token, told>>

SavePassword(v) ==
  /\ visit[v].at = "save"
  /\ user' = [user EXCEPT ![visit[v].id] = Updated(visit[v].id, None, visit[v].password)]
  /\ told' = [told EXCEPT !.replaced = Stored(visit[v].id, visit[v].password)]
  /\ Turn(v, [visit[v] EXCEPT !.at = "block"])
  /\ UNCHANGED <<profile, blocked, token>>

BlockAfterChange(v) ==
  /\ visit[v].at = "block"
  /\ Block(v)

(* learnerUpdateProfile, staffUpdateProfile, updateAdminCtrl: an email that*)
(* another user has is refused; a password is taken as it is, and no token *)
(* ends.                                                                   *)
StartUpdate(v, e, p) ==
  /\ visit[v].at = "in"
  /\ e # None => Owners(e) \subseteq {visit[v].id}
  /\ Turn(v, [at |-> "update", id |-> visit[v].id, email |-> e, password |-> p,
               old |-> None, token |-> visit[v].token, late |-> visit[v].late])
  /\ UNCHANGED <<user, profile, blocked, token, told>>

(* adminUpdateLearner sets the email of another, after the same look; the   *)
(* profile it has found has a user.                                        *)
AdminUpdateLearner(v, i, e) ==
  /\ visit[v].at = "in"
  /\ i \in profile /\ user[i].live
  /\ Owners(e) \subseteq {i}
  /\ Turn(v, [at |-> "update", id |-> i, email |-> e, password |-> None,
               old |-> None, token |-> visit[v].token, late |-> visit[v].late])
  /\ UNCHANGED <<user, profile, blocked, token, told>>

UpdateUser(v) ==
  LET i == visit[v].id IN
  /\ visit[v].at = "update"
  /\ visit[v].email # None => ~EmailRefused(i, visit[v].email)
  /\ user' = [user EXCEPT ![i] = Updated(i, visit[v].email, visit[v].password)]
  /\ told' = [told EXCEPT !.replaced = Stored(i, visit[v].password)]
  /\ Leave(v)
  /\ UNCHANGED <<profile, blocked, token>>

-------------------------------------------------------------------------------

(* Refused with 4xx, an operation that fails, or a restart. *)
CutOff(v) ==
  /\ visit[v].at # "idle"
  /\ Leave(v)
  /\ UNCHANGED <<user, profile, blocked, token, told>>

(* Wrong credentials, forgotPassword, resetPassword and refresh: answered, *)
(* with no change.                                                         *)
Refuse == UNCHANGED accounts

(* The token's time comes, and its entry, which has the same, is removed.  *)
Expire(t) ==
  /\ token[t].of # None
  /\ token' = [token EXCEPT ![t] = [of |-> token[t].of, revoked |-> FALSE, expired |-> TRUE]]
  /\ UNCHANGED <<user, profile, blocked, visit, told>>

(* Mutant: the entry of the user lasts no longer than a token's life. *)
OutlivedAny(i) == TRUE

(* A year passes after the entry: tokens that were issued before it have   *)
(* expired, for they live days (JWT_EXPIRY).                               *)
Outlived(i) == \A t \in Issued(i) \cap told.ended : token[t].expired

EntryExpires(i) ==
  /\ i \in blocked
  /\ Outlived(i)
  /\ \A v \in Visit : visit[v].id # i
  /\ blocked' = blocked \ {i}
  /\ told' = [told EXCEPT !.replaced = [told.replaced EXCEPT ![i] = {}]]
  /\ UNCHANGED <<user, profile, token, visit>>

AccountsNext ==
  \/ Refuse
  \/ \E v \in Visit :
       \/ \E e \in Email, p \in Password : StartRegister(v, e, p)
       \/ \E i \in Id : CreateUser(v, i) \/ StartLogin(v, i)
       \/ CreateProfile(v) \/ AnswerRegistered(v)
       \/ \E t \in Token : IssueToken(v, t) \/ StartRequest(v, t)
       \/ Authenticate(v) \/ Logout(v) \/ LogoutAll(v)
       \/ \E p \in Password : StartChange(v, p)
       \/ SavePassword(v) \/ BlockAfterChange(v)
       \/ \E e \in Email \cup {None}, p \in Password \cup {None} : StartUpdate(v, e, p)
       \/ \E i \in Id, e \in Email : AdminUpdateLearner(v, i, e)
       \/ UpdateUser(v) \/ CutOff(v)
  \/ \E t \in Token : Expire(t)
  \/ \E i \in Id : EntryExpires(i)

AccountsSpec == AccountsInit /\ [][AccountsNext]_accounts

-------------------------------------------------------------------------------

(* Every variable has its type. *)
AccountsTypeOK ==
  /\ user \in [Id -> User]
  /\ profile \subseteq Id
  /\ blocked \subseteq Id
  /\ token \in [Token -> IssuedToken]
  /\ visit \in [Visit -> Errand]
  /\ told \in Told

(* An email names one account, although registrations and changes of email *)
(* each look for it before others have stored theirs, and however they     *)
(* overlap (User.ts:86; learnersCtrl.ts:61-74, 269, 322-327).              *)
EmailsApart ==
  \A i, j \in Id :
    user[i].live /\ user[j].live /\ user[i].email = user[j].email => i = j

(* A registration that was answered 201 has left a user with a profile, so *)
(* that its tokens are let in (learnersCtrl.ts:68-91, isAuthenticated.ts). *)
RegisteredServes ==
  \A i \in told.registered : user[i].live /\ i \in profile

(* A token that was ended, and one that a login gave out on a password     *)
(* replaced meanwhile, lets no later request in, until it expires, and     *)
(* also once the blacklist drops its entries (verifyToken.ts:27-40,        *)
(* TokenBlacklist.ts:36, 116).                                             *)
EndedStaysOut == \A v \in Visit : visit[v].late => visit[v].at \in {"idle", "verify"}

(* A user who has logged in is let in ("Please login with your new         *)
(* password", passwordCtrl.ts:131).  It fails: the entry that a change of  *)
(* password makes refuses the tokens of later logins too, for a year.      *)
LoginsServe ==
  \A t \in Token :
    token[t].of # None /\ ~token[t].expired /\ t \notin told.ended =>
      token[t].of \notin blocked

===============================================================================
