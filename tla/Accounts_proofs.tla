---------------------------- MODULE Accounts_proofs ----------------------------
(***************************************************************************)
(* Proofs about Accounts, for any users, emails, tokens and requests: an   *)
(* email names one account, a registration answered is complete, and a     *)
(* token that was ended lets no later request in.  Then about the scripts  *)
(* that run beside it: the migration of enrollments moves every one it     *)
(* found, that of roles loses none, and those of content, attempts and     *)
(* levels leave nothing behind and move nothing twice.                     *)
(***************************************************************************)
EXTENDS Accounts, EnrollmentMigration, RoleMigration, ContentMigration, TLAPS

(* What a request holds: a user there is, what it is to write, and, when   *)
(* it brought an ended token, a user whose tokens are blocked.             *)
Sound(q, users, profiles, blocks) ==
  /\ q.at \notin {"idle", "create"} => q.id \in Id /\ users[q.id].live
  /\ q.at \in {"verify", "in"} => q.token \in Token
  /\ q.at = "create" => q.email \in Email /\ q.password \in Password
  /\ q.at = "save" => q.password \in Password
  /\ q.at = "answer" => q.id \in profiles
  /\ q.late => q.at = "verify" /\ q.id \in blocks

(* A token was issued to a user there is. *)
TokensOwned == \A t \in Token : token[t].of # None => user[token[t].of].live

(* An ended token is refused by its own entry, by time, or by its user's;  *)
(* a password is known to be replaced while the user's entry stands.       *)
EndedRefused ==
  \A t \in told.ended :
    token[t].revoked \/ token[t].expired \/ token[t].of \in blocked
ReplacedBlocked == \A i \in Id : told.replaced[i] # {} => i \in blocked

AccInv ==
  /\ AccountsTypeOK
  /\ EmailsApart
  /\ RegisteredServes
  /\ TokensOwned
  /\ EndedRefused
  /\ ReplacedBlocked
  /\ \A v \in Visit : Sound(visit[v], user, profile, blocked)

-------------------------------------------------------------------------------

LEMMA UserIs ==
  ASSUME AccountsTypeOK, NEW i \in Id
  PROVE  /\ user[i] \in User
         /\ user[i].live \in BOOLEAN
         /\ user[i].live => user[i].email \in Email /\ user[i].password \in Password
         /\ user[i].email \in Email \cup {None}
         /\ user[i].password \in Password \cup {None}
<1>1. user[i] \in User
  BY DEF AccountsTypeOK
<1>2. CASE user[i] = Absent
  <2>1. /\ user[i].live = FALSE /\ user[i].email = None /\ user[i].password = None
    BY <1>2 DEF Absent
  <2> QED
    BY <1>1, <2>1
<1>3. CASE user[i] \in [live : {TRUE}, email : Email, password : Password]
  <2>1. user[i].live = TRUE /\ user[i].email \in Email /\ user[i].password \in Password
    BY <1>3
  <2> QED
    BY <1>1, <2>1
<1> QED
  BY <1>1, <1>2, <1>3 DEF User

LEMMA TokenIs ==
  ASSUME AccountsTypeOK, NEW t \in Token
  PROVE  /\ token[t] \in IssuedToken
         /\ token[t].of \in Id \cup {None}
         /\ token[t].revoked \in BOOLEAN
         /\ token[t].expired \in BOOLEAN
BY DEF AccountsTypeOK, IssuedToken

LEMMA VisitIs ==
  ASSUME AccountsTypeOK, NEW v \in Visit
  PROVE  /\ visit[v] \in Errand
         /\ visit[v].id \in Id \cup {None}
         /\ visit[v].email \in Email \cup {None}
         /\ visit[v].password \in Password \cup {None}
         /\ visit[v].old \in Password \cup {None}
         /\ visit[v].token \in Token \cup {None}
         /\ visit[v].late \in BOOLEAN
BY DEF AccountsTypeOK, Errand

LEMMA ToldIs ==
  ASSUME AccountsTypeOK
  PROVE  /\ told \in Told
         /\ told.registered \subseteq Id
         /\ told.ended \subseteq Token
         /\ told.replaced \in [Id -> SUBSET Password]
BY DEF AccountsTypeOK, Told

LEMMA IdleIs ==
  /\ Idle \in Errand /\ Idle.at = "idle"
  /\ \A users, profiles, blocks : Sound(Idle, users, profiles, blocks)
BY DEF Idle, Errand, Sound

(* Where a request may go next, keeping what else it holds. *)
LEMMA AtIs ==
  ASSUME AccountsTypeOK, NEW v \in Visit, NEW at \in {"answer", "in", "block"}
  PROVE  /\ [visit[v] EXCEPT !.at = at] \in Errand
         /\ [visit[v] EXCEPT !.at = at].at = at
         /\ [visit[v] EXCEPT !.at = at].id = visit[v].id
         /\ [visit[v] EXCEPT !.at = at].token = visit[v].token
         /\ [visit[v] EXCEPT !.at = at].late = visit[v].late
BY VisitIs DEF Errand

(* What a request holds stays true while users, profiles and blocks grow. *)
LEMMA SoundKept ==
  ASSUME NEW q \in Errand, NEW users, NEW profiles, NEW blocks,
         NEW users2, NEW profiles2, NEW blocks2,
         Sound(q, users, profiles, blocks),
         \A i \in Id : users[i].live => users2[i].live,
         profiles \subseteq profiles2,
         q.id \in blocks => q.id \in blocks2
  PROVE  Sound(q, users2, profiles2, blocks2)
BY DEF Sound

(* A step of one request, and what it leaves of the others. *)
LEMMA TurnStep ==
  ASSUME AccInv, NEW v \in Visit, NEW next \in Errand, Turn(v, next),
         Sound(next, user', profile', blocked'),
         \A i \in Id : user[i].live => user'[i].live,
         profile \subseteq profile', blocked \subseteq blocked'
  PROVE  /\ visit' \in [Visit -> Errand]
         /\ \A w \in Visit : Sound(visit'[w], user', profile', blocked')
<1>1. visit \in [Visit -> Errand]
  BY DEF AccInv, AccountsTypeOK
<1>2. visit'[v] = next /\ \A w \in Visit \ {v} : visit'[w] = visit[w]
  BY <1>1 DEF Turn
<1>3. visit' \in [Visit -> Errand]
  BY <1>1 DEF Turn
<1>4. ASSUME NEW w \in Visit PROVE Sound(visit'[w], user', profile', blocked')
  <2>1. CASE w = v
    BY <1>2, <2>1
  <2>2. CASE w # v
    <3>1. visit[w] \in Errand /\ Sound(visit[w], user, profile, blocked)
      BY VisitIs DEF AccInv
    <3>2. visit[w].id \in blocked => visit[w].id \in blocked'
      OBVIOUS
    <3>3. Sound(visit[w], user', profile', blocked')
      BY <3>1, <3>2, SoundKept
    <3> QED
      BY <1>2, <2>2, <3>3
  <2> QED
    BY <2>1, <2>2
<1> QED
  BY <1>3, <1>4

(* A step that changes one request and nothing else. *)
LEMMA VisitStep ==
  ASSUME AccInv, NEW v \in Visit, NEW next \in Errand, Turn(v, next),
         UNCHANGED <<user, profile, blocked, token, told>>,
         Sound(next, user, profile, blocked)
  PROVE  AccInv'
<1>1. /\ visit' \in [Visit -> Errand]
      /\ \A w \in Visit : Sound(visit'[w], user', profile', blocked')
  BY TurnStep
<1>2. AccountsTypeOK'
  BY <1>1 DEF AccInv, AccountsTypeOK
<1>3. EmailsApart' /\ RegisteredServes' /\ TokensOwned' /\ EndedRefused' /\ ReplacedBlocked'
  BY DEF AccInv, EmailsApart, RegisteredServes, TokensOwned, EndedRefused, ReplacedBlocked
<1> QED
  BY <1>1, <1>2, <1>3 DEF AccInv

-------------------------------------------------------------------------------

LEMMA InitAccounts == AccountsInit => AccInv
<1> SUFFICES ASSUME AccountsInit PROVE AccInv
  OBVIOUS
<1>1. \A i \in Id : user[i] = Absent /\ ~user[i].live
  BY DEF AccountsInit, Absent
<1>2. AccountsTypeOK
  <2>1. told \in Told
    BY DEF AccountsInit, Told
  <2>2. [of |-> None, revoked |-> FALSE, expired |-> FALSE] \in IssuedToken
    BY DEF IssuedToken
  <2>3. user \in [Id -> User]
    BY DEF AccountsInit, User
  <2> QED
    BY <2>1, <2>2, <2>3, IdleIs DEF AccountsInit, AccountsTypeOK
<1>3. told.registered = {} /\ told.ended = {} /\ \A i \in Id : told.replaced[i] = {}
  BY DEF AccountsInit
<1>4. EmailsApart /\ RegisteredServes /\ EndedRefused /\ ReplacedBlocked
  BY <1>1, <1>3 DEF EmailsApart, RegisteredServes, EndedRefused, ReplacedBlocked
<1>5. TokensOwned
  BY DEF AccountsInit, TokensOwned
<1>6. \A v \in Visit : Sound(visit[v], user, profile, blocked)
  BY IdleIs DEF AccountsInit
<1> QED
  BY <1>2, <1>4, <1>5, <1>6 DEF AccInv

LEMMA StartRegisterKeeps ==
  ASSUME AccInv, NEW v \in Visit, NEW e \in Email, NEW p \in Password,
         StartRegister(v, e, p)
  PROVE  AccInv'
<1> DEFINE next == [at |-> "create", id |-> None, email |-> e, password |-> p,
                    old |-> None, token |-> None, late |-> FALSE]
<1>1. next \in Errand /\ Sound(next, user, profile, blocked)
  BY DEF Errand, Sound
<1>2. Turn(v, next) /\ UNCHANGED <<user, profile, blocked, token, told>>
  BY DEF StartRegister
<1> HIDE DEF next
<1> QED
  BY <1>1, <1>2, VisitStep

LEMMA StartLoginKeeps ==
  ASSUME AccInv, NEW v \in Visit, NEW i \in Id, StartLogin(v, i)
  PROVE  AccInv'
<1> DEFINE next == [at |-> "issue", id |-> i, email |-> None, password |-> None,
                    old |-> user[i].password, token |-> None, late |-> FALSE]
<1>1. user[i].live /\ Turn(v, next) /\ UNCHANGED <<user, profile, blocked, token, told>>
  BY DEF StartLogin
<1>2. next \in Errand /\ Sound(next, user, profile, blocked)
  BY <1>1, UserIs DEF Errand, Sound, AccInv
<1> HIDE DEF next
<1> QED
  BY <1>1, <1>2, VisitStep

(* A token that was ended and is still let through the first check is one  *)
(* of a user whose tokens are blocked.                                     *)
LEMMA StartRequestKeeps ==
  ASSUME AccInv, NEW v \in Visit, NEW t \in Token, StartRequest(v, t)
  PROVE  AccInv'
<1> DEFINE late == t \in told.ended
           next == [at |-> "verify", id |-> token[t].of, email |-> None, password |-> None,
                    old |-> None, token |-> t, late |-> late]
<1>1. /\ token[t].of # None /\ ~token[t].expired /\ ~token[t].revoked
      /\ Turn(v, next) /\ UNCHANGED <<user, profile, blocked, token, told>>
  BY DEF StartRequest
<1>2. late => token[t].of \in blocked
  BY <1>1 DEF AccInv, EndedRefused
<1>3. token[t].of \in Id /\ user[token[t].of].live
  BY <1>1, TokenIs DEF AccInv, TokensOwned
<1>4. late \in BOOLEAN
  OBVIOUS
<1> HIDE DEF late
<1>5. next \in Errand /\ Sound(next, user, profile, blocked)
  BY <1>2, <1>3, <1>4 DEF Errand, Sound
<1> HIDE DEF next
<1> QED
  BY <1>1, <1>5, VisitStep

LEMMA AuthenticateKeeps ==
  ASSUME AccInv, NEW v \in Visit, Authenticate(v)
  PROVE  AccInv'
<1> DEFINE next == [visit[v] EXCEPT !.at = "in"]
<1>1. /\ visit[v].at = "verify" /\ visit[v].id \notin blocked
      /\ Turn(v, next) /\ UNCHANGED <<user, profile, blocked, token, told>>
  BY DEF Authenticate
<1>2. /\ next \in Errand /\ next.at = "in" /\ next.id = visit[v].id
      /\ next.token = visit[v].token /\ next.late = visit[v].late
  BY AtIs DEF AccInv
<1> HIDE DEF next
<1>3. Sound(visit[v], user, profile, blocked)
  BY DEF AccInv
<1>4. Sound(next, user, profile, blocked)
  BY <1>1, <1>2, <1>3 DEF Sound
<1> QED
  BY <1>1, <1>2, <1>4, VisitStep

LEMMA StartChangeKeeps ==
  ASSUME AccInv, NEW v \in Visit, NEW p \in Password, StartChange(v, p)
  PROVE  AccInv'
<1> DEFINE next == [at |-> "save", id |-> visit[v].id, email |-> None, password |-> p,
                    old |-> user[visit[v].id].password, token |-> visit[v].token,
                    late |-> visit[v].late]
<1>1. /\ visit[v].at = "in" /\ Turn(v, next)
      /\ UNCHANGED <<user, profile, blocked, token, told>>
  BY DEF StartChange
<1>2. visit[v].id \in Id /\ user[visit[v].id].live /\ ~visit[v].late
  BY <1>1 DEF AccInv, Sound
<1>3. next \in Errand
  BY <1>2, UserIs, VisitIs DEF Errand, AccInv
<1>4. Sound(next, user, profile, blocked)
  BY <1>2 DEF Sound
<1> HIDE DEF next
<1> QED
  BY <1>1, <1>3, <1>4, VisitStep

LEMMA AdminUpdateKeeps ==
  ASSUME AccInv, NEW v \in Visit, NEW i \in Id, NEW e \in Email,
         AdminUpdateLearner(v, i, e)
  PROVE  AccInv'
<1> DEFINE next == [at |-> "update", id |-> i, email |-> e, password |-> None,
                    old |-> None, token |-> visit[v].token, late |-> visit[v].late]
<1>1. /\ visit[v].at = "in" /\ user[i].live /\ Turn(v, next)
      /\ UNCHANGED <<user, profile, blocked, token, told>>
  BY DEF AdminUpdateLearner
<1>2. ~visit[v].late
  BY <1>1 DEF AccInv, Sound
<1>3. next \in Errand
  BY <1>2, VisitIs DEF Errand, AccInv
<1>4. Sound(next, user, profile, blocked)
  BY <1>1, <1>2 DEF Sound
<1> HIDE DEF next
<1> QED
  BY <1>1, <1>3, <1>4, VisitStep

LEMMA StartUpdateKeeps ==
  ASSUME AccInv, NEW v \in Visit, NEW e \in Email \cup {None},
         NEW p \in Password \cup {None}, StartUpdate(v, e, p)
  PROVE  AccInv'
<1> DEFINE next == [at |-> "update", id |-> visit[v].id, email |-> e, password |-> p,
                    old |-> None, token |-> visit[v].token, late |-> visit[v].late]
<1>1. /\ visit[v].at = "in" /\ Turn(v, next)
      /\ UNCHANGED <<user, profile, blocked, token, told>>
  BY DEF StartUpdate
<1>2. visit[v].id \in Id /\ user[visit[v].id].live /\ ~visit[v].late
  BY <1>1 DEF AccInv, Sound
<1>3. next \in Errand
  BY <1>2, VisitIs DEF Errand, AccInv
<1>4. Sound(next, user, profile, blocked)
  BY <1>2 DEF Sound
<1> HIDE DEF next
<1> QED
  BY <1>1, <1>3, <1>4, VisitStep

LEMMA CutOffKeeps ==
  ASSUME AccInv, NEW v \in Visit, CutOff(v)
  PROVE  AccInv'
BY IdleIs, VisitStep DEF CutOff, Leave

-------------------------------------------------------------------------------

(* A step that writes one user, with an email of its own. *)
LEMMA UserStep ==
  ASSUME AccInv, NEW v \in Visit, NEW next \in Errand, Turn(v, next),
         NEW i \in Id, NEW new \in User, new.live,
         user' = [user EXCEPT ![i] = new],
         \A j \in Id \ {i} : ~(user[j].live /\ user[j].email = new.email),
         Sound(next, user', profile, blocked),
         UNCHANGED <<profile, blocked, token>>,
         told' \in Told, told'.registered = told.registered, told'.ended = told.ended,
         \A j \in Id : told'.replaced[j] \subseteq told.replaced[j]
  PROVE  AccInv'
<1> USE DEF AccInv
<1>1. user' \in [Id -> User] /\ user'[i] = new /\ \A j \in Id \ {i} : user'[j] = user[j]
  BY DEF AccountsTypeOK
<1>2. \A j \in Id : user[j].live => user'[j].live
  BY <1>1
<1>3. /\ visit' \in [Visit -> Errand]
      /\ \A w \in Visit : Sound(visit'[w], user', profile', blocked')
  BY <1>2, TurnStep
<1>4. AccountsTypeOK'
  BY <1>1, <1>3 DEF AccountsTypeOK
<1>5. EmailsApart'
  BY <1>1 DEF EmailsApart
<1>6. RegisteredServes' /\ TokensOwned'
  BY <1>2, ToldIs, TokenIs DEF RegisteredServes, TokensOwned
<1>7. EndedRefused' /\ ReplacedBlocked'
  BY DEF EndedRefused, ReplacedBlocked
<1> QED
  BY <1>3, <1>4, <1>5, <1>6, <1>7

LEMMA CreateUserKeeps ==
  ASSUME AccInv, NEW v \in Visit, NEW i \in Id, CreateUser(v, i)
  PROVE  AccInv'
<1> DEFINE new == [live |-> TRUE, email |-> visit[v].email, password |-> visit[v].password]
           next == [at |-> "profile", id |-> i, email |-> None, password |-> None,
                    old |-> None, token |-> None, late |-> FALSE]
<1>1. /\ visit[v].at = "create" /\ ~EmailRefused(i, visit[v].email)
      /\ user' = [user EXCEPT ![i] = new] /\ Turn(v, next)
      /\ UNCHANGED <<profile, blocked, token, told>>
  BY DEF CreateUser
<1>2. visit[v].email \in Email /\ visit[v].password \in Password
  BY <1>1 DEF AccInv, Sound
<1>3. new \in User /\ new.live /\ new.email = visit[v].email
  BY <1>2 DEF User
<1> HIDE DEF new
<1>4. user'[i] = new
  BY <1>1 DEF AccInv, AccountsTypeOK
<1>5. next \in Errand /\ Sound(next, user', profile, blocked)
  BY <1>3, <1>4 DEF Errand, Sound
<1>6. \A j \in Id \ {i} : ~(user[j].live /\ user[j].email = new.email)
  BY <1>1, <1>3 DEF EmailRefused, Owners
<1> HIDE DEF next
<1>7. told' \in Told
  BY <1>1, ToldIs DEF AccInv
<1> QED
  BY <1>1, <1>3, <1>5, <1>6, <1>7, UserStep

LEMMA UpdatedIs ==
  ASSUME AccInv, NEW i \in Id, user[i].live, NEW e \in Email \cup {None},
         NEW p \in Password \cup {None}
  PROVE  /\ Updated(i, e, p) \in User /\ Updated(i, e, p).live
         /\ Updated(i, e, p).email = IF e = None THEN user[i].email ELSE e
<1>1. user[i].email \in Email /\ user[i].password \in Password /\ user[i].live = TRUE
  BY UserIs DEF AccInv
<1>2. Updated(i, e, p) = [live |-> TRUE, email |-> IF e = None THEN user[i].email ELSE e,
                          password |-> IF p = None THEN user[i].password ELSE p]
  BY <1>1 DEF Updated
<1>3. Updated(i, e, p).live = TRUE
  BY <1>2
<1> QED
  BY <1>1, <1>2, <1>3 DEF User

LEMMA StoredIs ==
  ASSUME AccInv, NEW i \in Id, NEW p
  PROVE  /\ [told EXCEPT !.replaced = Stored(i, p)] \in Told
         /\ [told EXCEPT !.replaced = Stored(i, p)].registered = told.registered
         /\ [told EXCEPT !.replaced = Stored(i, p)].ended = told.ended
         /\ \A j \in Id :
              [told EXCEPT !.replaced = Stored(i, p)].replaced[j] \subseteq told.replaced[j]
<1>1. told.replaced \in [Id -> SUBSET Password] /\ told \in Told
  BY ToldIs DEF AccInv
<1>2. Stored(i, p) \in [Id -> SUBSET Password]
      /\ \A j \in Id : Stored(i, p)[j] \subseteq told.replaced[j]
  BY <1>1 DEF Stored
<1> QED
  BY <1>1, <1>2 DEF Told

LEMMA SavePasswordKeeps ==
  ASSUME AccInv, NEW v \in Visit, SavePassword(v)
  PROVE  AccInv'
<1> DEFINE i == visit[v].id
           new == Updated(i, None, visit[v].password)
           next == [visit[v] EXCEPT !.at = "block"]
<1>1. /\ visit[v].at = "save" /\ user' = [user EXCEPT ![i] = new] /\ Turn(v, next)
      /\ told' = [told EXCEPT !.replaced = Stored(i, visit[v].password)]
      /\ UNCHANGED <<profile, blocked, token>>
  BY DEF SavePassword
<1>2. i \in Id /\ user[i].live /\ ~visit[v].late
  BY <1>1 DEF AccInv, Sound
<1>3. new \in User /\ new.live /\ new.email = user[i].email
  BY <1>2, UpdatedIs, VisitIs DEF AccInv
<1> HIDE DEF new
<1>4. user'[i] = new
  BY <1>1, <1>2 DEF AccInv, AccountsTypeOK
<1>5. /\ next \in Errand /\ next.at = "block" /\ next.id = i /\ next.late = visit[v].late
  BY AtIs DEF AccInv
<1> HIDE DEF next
<1>6. Sound(next, user', profile, blocked)
  BY <1>2, <1>3, <1>4, <1>5 DEF Sound
<1>7. \A j \in Id \ {i} : ~(user[j].live /\ user[j].email = new.email)
  BY <1>2, <1>3 DEF AccInv, EmailsApart
<1>8. /\ told' \in Told /\ told'.registered = told.registered /\ told'.ended = told.ended
      /\ \A j \in Id : told'.replaced[j] \subseteq told.replaced[j]
  BY <1>1, <1>2, StoredIs
<1> HIDE DEF i
<1> QED
  BY <1>1, <1>2, <1>3, <1>5, <1>6, <1>7, <1>8, UserStep

LEMMA UpdateUserKeeps ==
  ASSUME AccInv, NEW v \in Visit, UpdateUser(v)
  PROVE  AccInv'
<1> DEFINE i == visit[v].id
           e == visit[v].email
           new == Updated(i, e, visit[v].password)
<1>1. /\ visit[v].at = "update" /\ user' = [user EXCEPT ![i] = new] /\ Turn(v, Idle)
      /\ e # None => ~EmailRefused(i, e)
      /\ told' = [told EXCEPT !.replaced = Stored(i, visit[v].password)]
      /\ UNCHANGED <<profile, blocked, token>>
  BY DEF UpdateUser, Leave
<1>2. i \in Id /\ user[i].live
  BY <1>1 DEF AccInv, Sound
<1>3. new \in User /\ new.live /\ new.email = IF e = None THEN user[i].email ELSE e
  BY <1>2, UpdatedIs, VisitIs DEF AccInv
<1> HIDE DEF new
<1>4. \A j \in Id \ {i} : ~(user[j].live /\ user[j].email = new.email)
  <2>1. CASE e = None
    BY <1>2, <1>3, <2>1 DEF AccInv, EmailsApart
  <2>2. CASE e # None
    BY <1>1, <1>3, <2>2 DEF EmailRefused, Owners
  <2> QED
    BY <2>1, <2>2
<1>5. /\ told' \in Told /\ told'.registered = told.registered /\ told'.ended = told.ended
      /\ \A j \in Id : told'.replaced[j] \subseteq told.replaced[j]
  BY <1>1, <1>2, StoredIs
<1> HIDE DEF i, e
<1> QED
  BY <1>1, <1>2, <1>3, <1>4, <1>5, IdleIs, UserStep

-------------------------------------------------------------------------------

LEMMA CreateProfileKeeps ==
  ASSUME AccInv, NEW v \in Visit, CreateProfile(v)
  PROVE  AccInv'
<1> USE DEF AccInv
<1> DEFINE next == [visit[v] EXCEPT !.at = "answer"]
<1>1. /\ visit[v].at = "profile" /\ profile' = profile \cup {visit[v].id}
      /\ Turn(v, next) /\ UNCHANGED <<user, blocked, token, told>>
  BY DEF CreateProfile
<1>2. visit[v].id \in Id /\ user[visit[v].id].live /\ ~visit[v].late
  BY <1>1 DEF Sound
<1>3. next \in Errand /\ next.at = "answer" /\ next.id = visit[v].id /\ next.late = visit[v].late
  BY AtIs
<1> HIDE DEF next
<1>4. Sound(next, user', profile', blocked')
  BY <1>1, <1>2, <1>3 DEF Sound
<1>5. /\ visit' \in [Visit -> Errand]
      /\ \A w \in Visit : Sound(visit'[w], user', profile', blocked')
  BY <1>1, <1>3, <1>4, TurnStep
<1>6. AccountsTypeOK'
  BY <1>1, <1>2, <1>5 DEF AccountsTypeOK
<1>7. EmailsApart' /\ RegisteredServes' /\ TokensOwned' /\ EndedRefused' /\ ReplacedBlocked'
  BY <1>1 DEF EmailsApart, RegisteredServes, TokensOwned, EndedRefused, ReplacedBlocked
<1> QED
  BY <1>5, <1>6, <1>7

LEMMA AnswerRegisteredKeeps ==
  ASSUME AccInv, NEW v \in Visit, AnswerRegistered(v)
  PROVE  AccInv'
<1> USE DEF AccInv
<1>1. /\ visit[v].at = "answer" /\ Turn(v, Idle) /\ UNCHANGED <<user, profile, blocked, token>>
      /\ told' = [told EXCEPT !.registered = told.registered \cup {visit[v].id}]
  BY DEF AnswerRegistered, Leave
<1>2. visit[v].id \in Id /\ user[visit[v].id].live /\ visit[v].id \in profile
  BY <1>1 DEF Sound
<1>3. /\ told' \in Told /\ told'.registered = told.registered \cup {visit[v].id}
      /\ told'.ended = told.ended /\ told'.replaced = told.replaced
  BY <1>1, <1>2, ToldIs DEF Told
<1>4. /\ visit' \in [Visit -> Errand]
      /\ \A w \in Visit : Sound(visit'[w], user', profile', blocked')
  BY <1>1, IdleIs, TurnStep
<1>5. AccountsTypeOK'
  BY <1>1, <1>3, <1>4 DEF AccountsTypeOK
<1>6. EmailsApart' /\ RegisteredServes' /\ TokensOwned' /\ EndedRefused' /\ ReplacedBlocked'
  BY <1>1, <1>2, <1>3
     DEF EmailsApart, RegisteredServes, TokensOwned, EndedRefused, ReplacedBlocked
<1> QED
  BY <1>4, <1>5, <1>6

(* What becoming ended makes of what users have been told. *)
LEMMA EndingIs ==
  ASSUME AccInv, NEW T \in SUBSET Token
  PROVE  /\ [told EXCEPT !.ended = told.ended \cup T] \in Told
         /\ [told EXCEPT !.ended = told.ended \cup T].registered = told.registered
         /\ [told EXCEPT !.ended = told.ended \cup T].ended = told.ended \cup T
         /\ [told EXCEPT !.ended = told.ended \cup T].replaced = told.replaced
BY ToldIs DEF Told, AccInv

(* A step that changes tokens and what was told of them. *)
LEMMA TokenStep ==
  ASSUME AccInv, UNCHANGED <<user, profile, blocked>>,
         visit' \in [Visit -> Errand],
         \A w \in Visit : Sound(visit'[w], user', profile', blocked'),
         token' \in [Token -> IssuedToken],
         \A t \in Token : token'[t].of # None => user[token'[t].of].live,
         told' \in Told, told'.registered = told.registered, told'.replaced = told.replaced,
         \A t \in told'.ended :
           token'[t].revoked \/ token'[t].expired \/ token'[t].of \in blocked
  PROVE  AccInv'
<1>1. AccountsTypeOK'
  BY DEF AccInv, AccountsTypeOK
<1>2. EmailsApart' /\ RegisteredServes' /\ TokensOwned' /\ EndedRefused' /\ ReplacedBlocked'
  BY DEF AccInv, EmailsApart, RegisteredServes, TokensOwned, EndedRefused, ReplacedBlocked
<1> QED
  BY <1>1, <1>2 DEF AccInv

LEMMA IssueTokenKeeps ==
  ASSUME AccInv, NEW v \in Visit, NEW t \in Token, IssueToken(v, t)
  PROVE  AccInv'
<1> USE DEF AccInv
<1> DEFINE i == visit[v].id
           new == [token[t] EXCEPT !.of = i]
<1>1. /\ visit[v].at = "issue" /\ token[t].of = None
      /\ token' = [token EXCEPT ![t] = new]
      /\ told' = IF visit[v].old \in told.replaced[i]
                 THEN [told EXCEPT !.ended = told.ended \cup {t}] ELSE told
      /\ Turn(v, Idle) /\ UNCHANGED <<user, profile, blocked>>
  BY DEF IssueToken, Leave
<1>2. i \in Id /\ user[i].live
  BY <1>1 DEF Sound
<1>3. /\ new \in IssuedToken /\ new.of = i
      /\ new.revoked = token[t].revoked /\ new.expired = token[t].expired
  BY <1>2, TokenIs DEF IssuedToken
<1> HIDE DEF new
<1>4. token' \in [Token -> IssuedToken] /\ token'[t] = new
      /\ \A s \in Token \ {t} : token'[s] = token[s]
  BY <1>1, <1>3 DEF AccountsTypeOK
<1>5. \A s \in Token : token'[s].of # None => user[token'[s].of].live
  BY <1>2, <1>3, <1>4 DEF TokensOwned
<1>6. /\ visit' \in [Visit -> Errand]
      /\ \A w \in Visit : Sound(visit'[w], user', profile', blocked')
  BY <1>1, IdleIs, TurnStep
<1>7. told' \in Told /\ told'.registered = told.registered /\ told'.replaced = told.replaced
      /\ told.ended \subseteq Token
      /\ told'.ended = IF visit[v].old \in told.replaced[i] THEN told.ended \cup {t}
                                                           ELSE told.ended
  BY <1>1, EndingIs, ToldIs
<1>8. \A s \in told'.ended :
        token'[s].revoked \/ token'[s].expired \/ token'[s].of \in blocked
  <2> SUFFICES ASSUME NEW s \in told'.ended
               PROVE  token'[s].revoked \/ token'[s].expired \/ token'[s].of \in blocked
    OBVIOUS
  <2>1. CASE s = t /\ visit[v].old \in told.replaced[i]
    <3>1. i \in blocked
      BY <1>2, <2>1 DEF ReplacedBlocked
    <3> QED
      BY <1>3, <1>4, <2>1, <3>1
  <2>2. CASE s = t /\ visit[v].old \notin told.replaced[i]
    <3>1. token[t].revoked \/ token[t].expired
      BY <1>1, <1>7, <2>2, AccountsAssumption DEF EndedRefused, AccountsTypeOK
    <3> QED
      BY <1>3, <1>4, <2>2, <3>1
  <2>3. CASE s # t
    BY <1>4, <1>7, <2>3 DEF EndedRefused
  <2> QED
    BY <2>1, <2>2, <2>3
<1> HIDE DEF i
<1> QED
  BY <1>1, <1>4, <1>5, <1>6, <1>7, <1>8, TokenStep

LEMMA LogoutKeeps ==
  ASSUME AccInv, NEW v \in Visit, Logout(v)
  PROVE  AccInv'
<1> USE DEF AccInv
<1> DEFINE t == visit[v].token
           new == [token[t] EXCEPT !.revoked = ~token[t].expired]
<1>1. /\ visit[v].at = "in" /\ token' = [token EXCEPT ![t] = new]
      /\ told' = [told EXCEPT !.ended = told.ended \cup {t}]
      /\ Turn(v, Idle) /\ UNCHANGED <<user, profile, blocked>>
  BY DEF Logout, Leave
<1>2. t \in Token
  BY <1>1 DEF Sound
<1>3. (~token[t].expired) \in BOOLEAN
  OBVIOUS
<1>4. /\ new \in IssuedToken /\ new.of = token[t].of
      /\ new.revoked \/ new.expired
  BY <1>2, <1>3, TokenIs DEF IssuedToken
<1> HIDE DEF new
<1>5. token' \in [Token -> IssuedToken] /\ token'[t] = new
      /\ \A s \in Token \ {t} : token'[s] = token[s]
  BY <1>1, <1>2, <1>4 DEF AccountsTypeOK
<1>6. \A s \in Token : token'[s].of # None => user[token'[s].of].live
  BY <1>4, <1>5 DEF TokensOwned
<1>7. /\ visit' \in [Visit -> Errand]
      /\ \A w \in Visit : Sound(visit'[w], user', profile', blocked')
  BY <1>1, IdleIs, TurnStep
<1>8. told' \in Told /\ told'.registered = told.registered /\ told'.replaced = told.replaced
      /\ told.ended \subseteq Token /\ told'.ended = told.ended \cup {t}
  BY <1>1, <1>2, EndingIs, ToldIs
<1>9. \A s \in told'.ended :
        token'[s].revoked \/ token'[s].expired \/ token'[s].of \in blocked
  BY <1>4, <1>5, <1>8 DEF EndedRefused
<1> HIDE DEF t
<1> QED
  BY <1>1, <1>5, <1>6, <1>7, <1>8, <1>9, TokenStep

LEMMA ExpireKeeps ==
  ASSUME AccInv, NEW t \in Token, Expire(t)
  PROVE  AccInv'
<1> USE DEF AccInv
<1> DEFINE new == [of |-> token[t].of, revoked |-> FALSE, expired |-> TRUE]
<1>1. token' = [token EXCEPT ![t] = new] /\ UNCHANGED <<user, profile, blocked, visit, told>>
  BY DEF Expire
<1>2. new \in IssuedToken /\ new.of = token[t].of /\ new.expired
  BY TokenIs DEF IssuedToken
<1> HIDE DEF new
<1>3. token' \in [Token -> IssuedToken] /\ token'[t] = new
      /\ \A s \in Token \ {t} : token'[s] = token[s]
  BY <1>1, <1>2 DEF AccountsTypeOK
<1>4. \A s \in Token : token'[s].of # None => user[token'[s].of].live
  BY <1>2, <1>3 DEF TokensOwned
<1>5. \A s \in told.ended :
        token'[s].revoked \/ token'[s].expired \/ token'[s].of \in blocked
  BY <1>2, <1>3, ToldIs DEF EndedRefused
<1>6. visit \in [Visit -> Errand] /\ \A w \in Visit : Sound(visit[w], user, profile, blocked)
  BY DEF AccountsTypeOK
<1> QED
  BY <1>1, <1>3, <1>4, <1>5, <1>6, ToldIs, TokenStep

(* Every token of a user whose tokens are blocked is refused from now on,  *)
(* those that were issued on the password that the change has replaced too.*)
LEMMA BlockKeeps ==
  ASSUME AccInv, NEW v \in Visit, visit[v].at \in {"in", "block"}, Block(v)
  PROVE  AccInv'
<1> USE DEF AccInv
<1> DEFINE i == visit[v].id
           replaced == Replaced(i, visit[v].old)
           new == [registered |-> told.registered, ended |-> told.ended \cup Issued(i),
                   replaced |-> replaced]
<1>1. /\ blocked' = blocked \cup {i} /\ told' = new
      /\ Turn(v, Idle) /\ UNCHANGED <<user, profile, token>>
  BY DEF Block, Leave
<1>2. i \in Id
  BY DEF Sound
<1>3. /\ replaced \in [Id -> SUBSET Password]
      /\ \A j \in Id \ {i} : replaced[j] = told.replaced[j]
  BY <1>2, ToldIs DEF Replaced
<1>4. Issued(i) \subseteq Token /\ \A t \in Issued(i) : token[t].of = i
  BY DEF Issued
<1> HIDE DEF replaced
<1>5. /\ new \in Told /\ new.registered = told.registered
      /\ new.ended = told.ended \cup Issued(i) /\ new.replaced = replaced
  BY <1>3, <1>4, ToldIs DEF Told
<1> HIDE DEF new, i
<1>6. /\ visit' \in [Visit -> Errand]
      /\ \A w \in Visit : Sound(visit'[w], user', profile', blocked')
  BY <1>1, IdleIs, TurnStep
<1>7. AccountsTypeOK'
  BY <1>1, <1>2, <1>5, <1>6 DEF AccountsTypeOK
<1>8. EmailsApart' /\ RegisteredServes' /\ TokensOwned'
  BY <1>1, <1>5 DEF EmailsApart, RegisteredServes, TokensOwned
<1>9. EndedRefused'
  BY <1>1, <1>4, <1>5 DEF EndedRefused
<1>10. ReplacedBlocked'
  BY <1>1, <1>3, <1>5 DEF ReplacedBlocked
<1> QED
  BY <1>6, <1>7, <1>8, <1>9, <1>10

(* The entry of a user goes when no token that it refuses is left. *)
LEMMA EntryExpiresKeeps ==
  ASSUME AccInv, NEW i \in Id, EntryExpires(i)
  PROVE  AccInv'
<1> USE DEF AccInv
<1> DEFINE replaced == [told.replaced EXCEPT ![i] = {}]
           new == [told EXCEPT !.replaced = replaced]
<1>1. /\ \A t \in Issued(i) \cap told.ended : token[t].expired
      /\ \A v \in Visit : visit[v].id # i
      /\ blocked' = blocked \ {i} /\ told' = new
      /\ UNCHANGED <<user, profile, token, visit>>
  BY DEF EntryExpires, Outlived
<1>2. /\ replaced \in [Id -> SUBSET Password] /\ replaced[i] = {}
      /\ \A j \in Id \ {i} : replaced[j] = told.replaced[j]
  BY ToldIs
<1> HIDE DEF replaced
<1>3. /\ new \in Told /\ new.registered = told.registered
      /\ new.ended = told.ended /\ new.replaced = replaced
  BY <1>2, ToldIs DEF Told
<1> HIDE DEF new
<1>4. ASSUME NEW v \in Visit PROVE Sound(visit[v], user, profile, blocked')
  <2>1. visit[v] \in Errand /\ Sound(visit[v], user, profile, blocked)
    BY VisitIs
  <2>2. visit[v].id \in blocked => visit[v].id \in blocked'
    BY <1>1
  <2> QED
    BY <2>1, <2>2, SoundKept
<1>5. AccountsTypeOK'
  BY <1>1, <1>3 DEF AccountsTypeOK
<1>6. EmailsApart' /\ RegisteredServes' /\ TokensOwned'
  BY <1>1, <1>3 DEF EmailsApart, RegisteredServes, TokensOwned
<1>7. EndedRefused'
  <2> SUFFICES ASSUME NEW t \in told.ended
               PROVE  token[t].revoked \/ token[t].expired \/ token[t].of \in blocked'
    BY <1>1, <1>3 DEF EndedRefused
  <2>1. t \in Token /\ (token[t].revoked \/ token[t].expired \/ token[t].of \in blocked)
    BY ToldIs DEF EndedRefused
  <2>2. CASE token[t].of = i
    BY <1>1, <2>1, <2>2 DEF Issued
  <2>3. CASE token[t].of # i
    BY <1>1, <2>1, <2>3
  <2> QED
    BY <2>2, <2>3
<1>8. ReplacedBlocked'
  BY <1>1, <1>2, <1>3 DEF ReplacedBlocked
<1>9. \A v \in Visit : Sound(visit'[v], user', profile', blocked')
  BY <1>1, <1>4
<1> QED
  BY <1>5, <1>6, <1>7, <1>8, <1>9

LEMMA IdleAccountsKeeps ==
  ASSUME AccInv, UNCHANGED accounts
  PROVE  AccInv'
<1> USE DEF AccInv, accounts
<1>1. AccountsTypeOK'
  BY DEF AccountsTypeOK
<1>2. EmailsApart' /\ RegisteredServes' /\ TokensOwned' /\ EndedRefused' /\ ReplacedBlocked'
  BY DEF EmailsApart, RegisteredServes, TokensOwned, EndedRefused, ReplacedBlocked
<1>3. \A v \in Visit : Sound(visit'[v], user', profile', blocked')
  OBVIOUS
<1> QED
  BY <1>1, <1>2, <1>3

-------------------------------------------------------------------------------

LEMMA AccountsNextKeeps ==
  ASSUME AccInv, [AccountsNext]_accounts
  PROVE  AccInv'
<1>1. CASE Refuse \/ UNCHANGED accounts
  BY <1>1, IdleAccountsKeeps DEF Refuse
<1>2. ASSUME NEW v \in Visit, NEW e \in Email, NEW p \in Password, StartRegister(v, e, p)
      PROVE  AccInv'
  BY <1>2, StartRegisterKeeps
<1>3. ASSUME NEW v \in Visit, NEW i \in Id, CreateUser(v, i) \/ StartLogin(v, i)
      PROVE  AccInv'
  BY <1>3, CreateUserKeeps, StartLoginKeeps
<1>4. ASSUME NEW v \in Visit, CreateProfile(v) \/ AnswerRegistered(v)
      PROVE  AccInv'
  BY <1>4, CreateProfileKeeps, AnswerRegisteredKeeps
<1>5. ASSUME NEW v \in Visit, NEW t \in Token, IssueToken(v, t) \/ StartRequest(v, t)
      PROVE  AccInv'
  BY <1>5, IssueTokenKeeps, StartRequestKeeps
<1>6. ASSUME NEW v \in Visit, Authenticate(v) \/ Logout(v)
      PROVE  AccInv'
  BY <1>6, AuthenticateKeeps, LogoutKeeps
<1>7. ASSUME NEW v \in Visit, LogoutAll(v) \/ BlockAfterChange(v)
      PROVE  AccInv'
  BY <1>7, BlockKeeps DEF LogoutAll, BlockAfterChange
<1>8. ASSUME NEW v \in Visit, NEW p \in Password, StartChange(v, p)
      PROVE  AccInv'
  BY <1>8, StartChangeKeeps
<1>9. ASSUME NEW v \in Visit, SavePassword(v) \/ UpdateUser(v) \/ CutOff(v)
      PROVE  AccInv'
  BY <1>9, SavePasswordKeeps, UpdateUserKeeps, CutOffKeeps
<1>10. ASSUME NEW v \in Visit, NEW e \in Email \cup {None}, NEW p \in Password \cup {None},
              StartUpdate(v, e, p)
       PROVE  AccInv'
  BY <1>10, StartUpdateKeeps
<1>11. ASSUME NEW v \in Visit, NEW i \in Id, NEW e \in Email, AdminUpdateLearner(v, i, e)
       PROVE  AccInv'
  BY <1>11, AdminUpdateKeeps
<1>12. ASSUME NEW t \in Token, Expire(t) PROVE AccInv'
  BY <1>12, ExpireKeeps
<1>13. ASSUME NEW i \in Id, EntryExpires(i) PROVE AccInv'
  BY <1>13, EntryExpiresKeeps
<1> QED
  BY <1>1, <1>2, <1>3, <1>4, <1>5, <1>6, <1>7, <1>8, <1>9, <1>10, <1>11, <1>12, <1>13
     DEF AccountsNext

(* In every reachable state an ended token is refused by its own entry, by *)
(* time or by its user's entry, and what each request holds is sound.      *)
THEOREM AccountsCorrect == AccountsSpec => []AccInv
<1>1. AccountsInit => AccInv
  BY InitAccounts
<1>2. AccInv /\ [AccountsNext]_accounts => AccInv'
  BY AccountsNextKeeps
<1> QED
  BY <1>1, <1>2, PTL DEF AccountsSpec

(* Every variable keeps its type. *)
THEOREM AccountsTypeCorrect == AccountsSpec => []AccountsTypeOK
<1>1. AccInv => AccountsTypeOK
  BY DEF AccInv
<1> QED
  BY <1>1, AccountsCorrect, PTL

(* An email names one account, however registrations and changes of email  *)
(* overlap (User.ts:86).                                                   *)
THEOREM EmailsApartCorrect == AccountsSpec => []EmailsApart
<1>1. AccInv => EmailsApart
  BY DEF AccInv
<1> QED
  BY <1>1, AccountsCorrect, PTL

(* A registration that was answered 201 has left a user with a profile     *)
(* (learnersCtrl.ts:68-91).                                                *)
THEOREM RegisteredServesCorrect == AccountsSpec => []RegisteredServes
<1>1. AccInv => RegisteredServes
  BY DEF AccInv
<1> QED
  BY <1>1, AccountsCorrect, PTL

(* A token that was ended lets no later request in (verifyToken.ts:27-40). *)
THEOREM EndedStaysOutCorrect == AccountsSpec => []EndedStaysOut
<1>1. AccInv => EndedStaysOut
  BY DEF AccInv, Sound, EndedStaysOut
<1> QED
  BY <1>1, AccountsCorrect, PTL

-------------------------------------------------------------------------------
(* The migration of enrollments. *)

(* What a run without a skip has done so far.  Of the program enrollments  *)
(* it found active, those it still owes alone may be active: none becomes  *)
(* absent, so neither the backfill nor the server makes one active again.  *)
(* Of the legacy enrollments it found, those it still owes alone may be    *)
(* missing in the ledger.                                                  *)
StatusesDone ==
  \A o \in migrate.owners :
    /\ program[o] # "absent"
    /\ program[o] = "active" => migrate.at = "statuses" /\ o \in migrate.owed
CoursesDone ==
  \A s \in Seat :
    \/ InLedger(s, migrate.found[s])
    \/ migrate.at = "courses" /\ s \in migrate.owed

MigInv ==
  /\ MigrationTypeOK
  /\ CompletedOnce
  /\ ~migrate.skipped => StatusesDone /\ CoursesDone

-------------------------------------------------------------------------------

LEMMA CountedIs ==
  ASSUME NEW n \in 0..MaxCopies
  PROVE  Counted(n) \in 1..MaxCopies
<1>1. MaxCopies \in Nat /\ MaxCopies > 1
  BY MigrationAssumption
<1> QED
  BY <1>1 DEF Counted

LEMMA OffIs == Off \in Migrate
<1>1. NoLegacy \in Legacy
  BY DEF NoLegacy, Legacy
<1> QED
  BY <1>1 DEF Off, Migrate

(* The cases of InLedger as a formula. *)
LEMMA InLedgerIs ==
  ASSUME NEW s, NEW doc
  PROVE  InLedger(s, doc) <=>
           \/ doc = NoLegacy
           \/ doc.status = "active" /\ (s \in current \/ activity[s] # NoActivity)
           \/ doc.status # "active" /\ doc.dated /\ activity[s].dated > 0
           \/ doc.status # "active" /\ ~doc.dated /\ activity[s].undated > 0
<1> QED
  BY DEF InLedger, NoLegacy

LEMMA ActivityIs ==
  ASSUME MigrationTypeOK, NEW s \in Seat
  PROVE  /\ activity[s] \in Activity
         /\ activity[s].dated \in 0..MaxCopies /\ activity[s].undated \in 0..MaxCopies
         /\ activity[s].live \in 0..MaxCopies
<1> QED
  BY DEF MigrationTypeOK, Activity

(* What the ledger holds of a seat stays there: records are only added,    *)
(* and a current enrollment goes only where an activity comes.             *)
LedgerGrows(s) ==
  /\ s \in current => s \in current' \/ activity'[s] # NoActivity
  /\ activity[s] # NoActivity => activity'[s] # NoActivity
  /\ activity[s].dated > 0 => activity'[s].dated > 0
  /\ activity[s].undated > 0 => activity'[s].undated > 0

LEMMA LedgerKept ==
  ASSUME NEW s \in Seat, InLedger(s, migrate.found[s]), LedgerGrows(s),
         migrate'.found[s] = migrate.found[s]
  PROVE  InLedger(s, migrate.found[s])'
<1> DEFINE doc == migrate.found[s]
<1>1. InLedger(s, doc)' <=>
        \/ doc = NoLegacy
        \/ doc.status = "active" /\ (s \in current' \/ activity'[s] # NoActivity)
        \/ doc.status # "active" /\ doc.dated /\ activity'[s].dated > 0
        \/ doc.status # "active" /\ ~doc.dated /\ activity'[s].undated > 0
  BY DEF InLedger, NoLegacy
<1>2. InLedger(s, doc) <=>
        \/ doc = NoLegacy
        \/ doc.status = "active" /\ (s \in current \/ activity[s] # NoActivity)
        \/ doc.status # "active" /\ doc.dated /\ activity[s].dated > 0
        \/ doc.status # "active" /\ ~doc.dated /\ activity[s].undated > 0
  BY InLedgerIs
<1> HIDE DEF doc
<1>3. InLedger(s, doc)
  BY DEF doc
<1>4. InLedger(s, doc)'
  BY <1>1, <1>2, <1>3 DEF LedgerGrows
<1> QED
  BY <1>4 DEF doc

(* A step of the migration that leaves the collections alone.              *)
LEMMA QuietMigration ==
  ASSUME MigInv, UNCHANGED collections, backfill' \in Backfill, migrate' \in Migrate,
         ~migrate'.skipped => (StatusesDone /\ CoursesDone)'
  PROVE  MigInv'
<1>1. MigrationTypeOK'
  BY DEF MigInv, MigrationTypeOK, collections
<1>2. CompletedOnce'
  BY DEF MigInv, CompletedOnce, collections
<1> QED
  BY <1>1, <1>2 DEF MigInv

(* A step that leaves the migration as it is.                              *)
LEMMA MigrationStands ==
  ASSUME MigInv, UNCHANGED migrate, MigrationTypeOK', CompletedOnce',
         \A o \in Owner : program[o] # "absent" =>
           program'[o] # "absent" /\ (program[o] # "active" => program'[o] # "active"),
         \A s \in Seat : LedgerGrows(s)
  PROVE  MigInv'
<1>1. SUFFICES ASSUME ~migrate.skipped
                PROVE  (StatusesDone /\ CoursesDone)'
  BY <1>1 DEF MigInv
<1>2. StatusesDone'
  BY <1>1 DEF MigInv, StatusesDone, MigrationTypeOK, Migrate
<1>3. ASSUME NEW s \in Seat
      PROVE  \/ InLedger(s, migrate.found[s])'
             \/ migrate.at = "courses" /\ s \in migrate.owed
  BY <1>1, LedgerKept DEF MigInv, CoursesDone
<1>4. CoursesDone'
  BY <1>3 DEF CoursesDone
<1> QED
  BY <1>2, <1>4

-------------------------------------------------------------------------------

LEMMA InitMigration == MigrationInit => MigInv
<1> SUFFICES ASSUME MigrationInit PROVE MigInv
  OBVIOUS
<1>1. MaxCopies \in Nat /\ NoLegacy \in Legacy /\ NoActivity \in Activity
  BY MigrationAssumption DEF NoLegacy, Legacy, NoActivity, Activity
<1>2. MigrationTypeOK
  BY <1>1, OffIs DEF MigrationInit, MigrationTypeOK, ProgramStatus, AtRest, Backfill
<1>3. CompletedOnce
  BY DEF MigrationInit, CompletedOnce, NoActivity
<1>4. StatusesDone
  BY DEF MigrationInit, StatusesDone, Off
<1>5. ASSUME NEW s \in Seat
      PROVE  InLedger(s, migrate.found[s])
  <2>1. migrate.found[s] = NoLegacy
    BY DEF MigrationInit, Off
  <2> QED
    BY <2>1, InLedgerIs
<1> QED
  BY <1>2, <1>3, <1>4, <1>5 DEF MigInv, CoursesDone

(* The backfill. *)
LEMMA BackfillKeeps ==
  ASSUME MigInv, \/ StartBackfill \/ BackfillCrash
                 \/ \E e \in Entry : BackfillProgram(e)
                 \/ \E s \in Seat : BackfillCourse(s)
  PROVE  MigInv'
<1>1. UNCHANGED <<migrate, current, activity, appended>>
  BY DEF StartBackfill, BackfillCrash, BackfillProgram, BackfillCourse, collections
<1>2. \A s \in Seat : LedgerGrows(s)
  BY <1>1 DEF LedgerGrows
<1>3. CompletedOnce'
  BY <1>1 DEF MigInv, CompletedOnce
<1>4. CASE StartBackfill \/ BackfillCrash
  <2>1. MigrationTypeOK' /\ program' = program
    BY <1>4 DEF MigInv, MigrationTypeOK, StartBackfill, BackfillCrash, collections, Backfill, AtRest
  <2> QED
    BY <1>1, <1>2, <1>3, <2>1, MigrationStands
<1>5. ASSUME NEW e \in Entry, BackfillProgram(e)
      PROVE  MigInv'
  <2>1. EntryOwner[e] \in Owner /\ EntrySeats[e] \subseteq Seat
    BY MigrationAssumption
  <2>2. program' \in [Owner -> ProgramStatus]
    BY <1>5, <2>1 DEF MigInv, MigrationTypeOK, BackfillProgram, ProgramStatus
  <2>3. backfill' \in Backfill
    BY <1>5, <2>1 DEF MigInv, MigrationTypeOK, BackfillProgram, Backfill
  <2>4. MigrationTypeOK'
    BY <1>1, <1>5, <2>2, <2>3 DEF MigInv, MigrationTypeOK, BackfillProgram
  <2>5. \A o \in Owner : program[o] # "absent" => program'[o] = program[o]
    BY <1>5, <2>1 DEF MigInv, MigrationTypeOK, BackfillProgram
  <2> QED
    BY <1>1, <1>2, <1>3, <2>4, <2>5, MigrationStands
<1>6. ASSUME NEW s \in Seat, BackfillCourse(s)
      PROVE  MigInv'
  <2>1. legacy' \in [Seat -> Legacy]
    BY <1>6 DEF MigInv, MigrationTypeOK, BackfillCourse, Legacy, ActiveLegacy
  <2>2. backfill' \in Backfill
    BY <1>6 DEF MigInv, MigrationTypeOK, BackfillCourse, Backfill
  <2>3. MigrationTypeOK' /\ program' = program
    BY <1>1, <1>6, <2>1, <2>2 DEF MigInv, MigrationTypeOK, BackfillCourse
  <2> QED
    BY <1>1, <1>2, <1>3, <2>3, MigrationStands
<1> QED
  BY <1>4, <1>5, <1>6

(* The server. *)
LEMMA LiveProgramKeeps ==
  ASSUME MigInv, NEW o \in Owner, LiveProgram(o)
  PROVE  MigInv'
<1>1. program' \in [Owner -> ProgramStatus]
  BY DEF MigInv, MigrationTypeOK, LiveProgram, ProgramStatus
<1>2. UNCHANGED <<migrate, current, activity>>
  BY DEF LiveProgram
<1>3. MigrationTypeOK' /\ CompletedOnce'
  BY <1>1 DEF MigInv, MigrationTypeOK, CompletedOnce, LiveProgram
<1>4. \A w \in Owner : program[w] # "absent" =>
        program'[w] # "absent" /\ (program[w] # "active" => program'[w] # "active")
  BY DEF MigInv, MigrationTypeOK, LiveProgram
<1>5. \A s \in Seat : LedgerGrows(s)
  BY <1>2 DEF LedgerGrows
<1> QED
  BY <1>2, <1>3, <1>4, <1>5, MigrationStands

LEMMA LiveSeatKeeps ==
  ASSUME MigInv, NEW s \in Seat, LiveLegacy(s) \/ LiveEnroll(s) \/ LiveFinish(s)
  PROVE  MigInv'
<1>1. UNCHANGED <<program, backfill, migrate>>
  BY DEF LiveLegacy, LiveEnroll, LiveFinish
<1>2. CASE LiveLegacy(s)
  <2>1. legacy' \in [Seat -> Legacy]
    <3>1. legacy \in [Seat -> Legacy] /\ ActiveLegacy \in Legacy
      BY DEF MigInv, MigrationTypeOK, Legacy, ActiveLegacy
    <3>2. legacy[s].dated \in BOOLEAN
      BY <3>1 DEF Legacy
    <3>3. ASSUME NEW status \in {"active", "completed", "withdrawn"}
          PROVE  [status |-> status, dated |-> legacy[s].dated \/ status = "completed"] \in Legacy
      BY <3>2 DEF Legacy
    <3>4. \E d \in Legacy : legacy' = [legacy EXCEPT ![s] = d]
      BY <1>2, <3>1, <3>3 DEF LiveLegacy
    <3> QED
      BY <3>1, <3>4
  <2>2. MigrationTypeOK' /\ CompletedOnce'
    BY <1>2, <2>1 DEF MigInv, MigrationTypeOK, CompletedOnce, LiveLegacy
  <2>3. \A q \in Seat : LedgerGrows(q)
    BY <1>2 DEF LedgerGrows, LiveLegacy
  <2> QED
    BY <1>1, <2>2, <2>3, MigrationStands
<1>3. CASE LiveEnroll(s)
  <2>1. MigrationTypeOK' /\ CompletedOnce'
    BY <1>3 DEF MigInv, MigrationTypeOK, CompletedOnce, LiveEnroll
  <2>2. \A q \in Seat : LedgerGrows(q)
    BY <1>3 DEF LedgerGrows, LiveEnroll
  <2> QED
    BY <1>1, <2>1, <2>2, MigrationStands
<1>4. CASE LiveFinish(s)
  <2>1. activity[s] \in Activity
    BY ActivityIs DEF MigInv
  <2>2. activity' = [activity EXCEPT ![s].live = Counted(@)]
    BY <1>4 DEF LiveFinish
  <2>3. Counted(activity[s].live) \in 1..MaxCopies
    BY <2>1, CountedIs DEF Activity
  <2>4. MaxCopies \in Nat
    BY MigrationAssumption
  <2>5. activity \in [Seat -> Activity]
    BY DEF MigInv, MigrationTypeOK
  <2>6. activity'[s] = [activity[s] EXCEPT !.live = Counted(activity[s].live)]
    BY <2>2, <2>5
  <2>7. /\ activity'[s] \in Activity /\ activity'[s].live > 0
        /\ activity'[s].dated = activity[s].dated /\ activity'[s].undated = activity[s].undated
    BY <2>1, <2>3, <2>4, <2>6 DEF Activity
  <2>8. \A q \in Seat : q # s => activity'[q] = activity[q]
    BY <2>2, <2>5
  <2>9. activity' \in [Seat -> Activity]
    <3>1. DOMAIN activity' = Seat /\ activity' = [q \in Seat |-> activity'[q]]
      BY <2>2, <2>5
    <3>2. \A q \in Seat : activity'[q] \in Activity
      BY <2>5, <2>7, <2>8
    <3> QED
      BY <3>1, <3>2
  <2>10. MigrationTypeOK'
    BY <1>4, <2>4, <2>9 DEF MigInv, MigrationTypeOK, LiveFinish
  <2>11. CompletedOnce'
    BY <2>7, <2>8 DEF MigInv, CompletedOnce
  <2>12. \A q \in Seat : LedgerGrows(q)
    <3>1. activity'[s] # NoActivity
      BY <2>7 DEF NoActivity
    <3>2. current' = current \ {s}
      BY <1>4 DEF LiveFinish
    <3> QED
      BY <2>7, <2>8, <3>1, <3>2 DEF LedgerGrows
  <2> QED
    BY <1>1, <2>10, <2>11, <2>12, MigrationStands
<1> QED
  BY <1>2, <1>3, <1>4

(* The migration. *)
LEMMA StartMigrateKeeps ==
  ASSUME MigInv, StartMigrate
  PROVE  MigInv'
<1> DEFINE active == {o \in Owner : program[o] = "active"}
<1>1. migrate' = [Off EXCEPT !.at = "statuses", !.owners = active, !.owed = active]
  BY DEF StartMigrate
<1>2. /\ migrate' \in Migrate /\ migrate'.at = "statuses"
      /\ migrate'.owners = active /\ migrate'.owed = active
      /\ migrate'.found = [s \in Seat |-> NoLegacy]
  BY <1>1, OffIs DEF Off, Migrate
<1>3. UNCHANGED collections /\ backfill' \in Backfill
  BY DEF StartMigrate, MigInv, MigrationTypeOK
<1>4. StatusesDone'
  BY <1>2, <1>3 DEF StatusesDone, collections
<1>5. ASSUME NEW s \in Seat
      PROVE  InLedger(s, migrate.found[s])'
  BY <1>2 DEF InLedger, NoLegacy
<1> QED
  BY <1>2, <1>3, <1>4, <1>5, QuietMigration DEF CoursesDone

(* Ends of phases, and a document passed over.                             *)
LEMMA PhaseKeeps ==
  ASSUME MigInv, StartCourses \/ StartProgress \/ MigrateDone \/ MigrateCrash
  PROVE  MigInv'
<1>1. UNCHANGED collections /\ backfill' \in Backfill /\ migrate \in Migrate
  BY DEF StartCourses, StartProgress, MigrateDone, MigrateCrash, MigInv, MigrationTypeOK
<1>2. program' = program /\ current' = current /\ activity' = activity /\ legacy' = legacy
  BY <1>1 DEF collections
<1>3. \A s \in Seat : LedgerGrows(s)
  BY <1>2 DEF LedgerGrows
<1>4. CASE StartCourses
  <2>1. migrate' = [migrate EXCEPT !.at = "courses", !.found = legacy,
                                   !.owed = {s \in Seat : legacy[s] # NoLegacy}]
    BY <1>4 DEF StartCourses
  <2>2. /\ migrate' \in Migrate /\ migrate'.at = "courses" /\ migrate'.found = legacy
        /\ migrate'.owed = {s \in Seat : legacy[s] # NoLegacy}
        /\ migrate'.owners = migrate.owners /\ migrate'.skipped = migrate.skipped
    BY <1>1, <2>1 DEF Migrate, MigInv, MigrationTypeOK
  <2>3. ~migrate.skipped => StatusesDone'
    BY <1>2, <1>4, <2>2 DEF MigInv, StatusesDone, StartCourses, PhaseOver
  <2>4. ASSUME NEW s \in Seat, s \notin migrate'.owed
        PROVE  InLedger(s, migrate.found[s])'
    BY <1>2, <2>2, <2>4 DEF InLedger, NoLegacy
  <2>5. CoursesDone'
    BY <2>2, <2>4 DEF CoursesDone
  <2> QED
    BY <1>1, <2>2, <2>3, <2>5, QuietMigration
<1>5. CASE StartProgress
  <2>1. migrate' = [migrate EXCEPT !.at = "progress", !.owed = Studied]
    BY <1>5 DEF StartProgress
  <2>2. /\ migrate' \in Migrate /\ migrate'.found = migrate.found
        /\ migrate'.owners = migrate.owners /\ migrate'.skipped = migrate.skipped
    BY <1>1, <2>1, MigrationAssumption DEF Migrate
  <2>3. ~migrate.skipped => StatusesDone'
    BY <1>2, <1>5, <2>2 DEF MigInv, StatusesDone, StartProgress, PhaseOver
  <2>4. ASSUME ~migrate.skipped, NEW s \in Seat
        PROVE  InLedger(s, migrate.found[s])'
    <3>1. InLedger(s, migrate.found[s])
      BY <1>5, <2>4 DEF MigInv, CoursesDone, StartProgress, PhaseOver
    <3> QED
      BY <1>3, <2>2, <3>1, LedgerKept
  <2> QED
    BY <1>1, <2>2, <2>3, <2>4, QuietMigration DEF CoursesDone
<1>6. CASE MigrateDone
  <2>1. migrate' = [migrate EXCEPT !.at = "done"]
    BY <1>6 DEF MigrateDone
  <2>2. /\ migrate' \in Migrate /\ migrate'.found = migrate.found
        /\ migrate'.owners = migrate.owners /\ migrate'.skipped = migrate.skipped
    BY <1>1, <2>1 DEF Migrate
  <2>3. ~migrate.skipped => StatusesDone'
    BY <1>2, <1>6, <2>2 DEF MigInv, StatusesDone, MigrateDone, PhaseOver
  <2>4. ASSUME ~migrate.skipped, NEW s \in Seat
        PROVE  InLedger(s, migrate.found[s])'
    <3>1. InLedger(s, migrate.found[s])
      BY <1>6, <2>4 DEF MigInv, CoursesDone, MigrateDone, PhaseOver
    <3> QED
      BY <1>3, <2>2, <3>1, LedgerKept
  <2> QED
    BY <1>1, <2>2, <2>3, <2>4, QuietMigration DEF CoursesDone
<1>7. CASE MigrateCrash
  <2>1. /\ migrate' \in Migrate /\ migrate'.owners = {}
        /\ migrate'.found = [s \in Seat |-> NoLegacy]
    BY <1>7, OffIs DEF MigrateCrash, Off
  <2>2. StatusesDone'
    BY <2>1 DEF StatusesDone
  <2>3. ASSUME NEW s \in Seat
        PROVE  InLedger(s, migrate.found[s])'
    BY <2>1 DEF InLedger, NoLegacy
  <2> QED
    BY <1>1, <2>1, <2>2, <2>3, QuietMigration DEF CoursesDone
<1> QED
  BY <1>4, <1>5, <1>6, <1>7

LEMMA MigrateSkipKeeps ==
  ASSUME MigInv, NEW d \in Owner \cup Seat, MigrateSkip(d)
  PROVE  MigInv'
<1>1. migrate \in Migrate /\ UNCHANGED collections /\ backfill' \in Backfill
  BY DEF MigInv, MigrationTypeOK, MigrateSkip
<1>2. migrate' = [migrate EXCEPT !.owed = @ \ {d}, !.skipped = TRUE]
  BY DEF MigrateSkip
<1>3. migrate' \in Migrate /\ migrate'.skipped
  BY <1>1, <1>2 DEF Migrate
<1> QED
  BY <1>1, <1>3, QuietMigration

LEMMA MigrateStatusKeeps ==
  ASSUME MigInv, NEW o \in Owner, MigrateStatus(o)
  PROVE  MigInv'
<1>1. /\ migrate \in Migrate /\ program \in [Owner -> ProgramStatus]
      /\ migrate' = [migrate EXCEPT !.owed = @ \ {o}]
      /\ program' = [program EXCEPT ![o] = "enrolled"]
      /\ UNCHANGED <<legacy, current, activity, appended, backfill>>
  BY DEF MigInv, MigrationTypeOK, MigrateStatus
<1>2. /\ migrate' \in Migrate /\ migrate'.found = migrate.found /\ migrate'.at = migrate.at
      /\ migrate'.owners = migrate.owners /\ migrate'.skipped = migrate.skipped
      /\ migrate'.owed = migrate.owed \ {o}
  BY <1>1 DEF Migrate
<1>3. MigrationTypeOK' /\ CompletedOnce'
  BY <1>1, <1>2 DEF MigInv, MigrationTypeOK, CompletedOnce, ProgramStatus
<1>4. \A s \in Seat : LedgerGrows(s)
  BY <1>1 DEF LedgerGrows
<1>5. migrate.at # "courses"
  BY DEF MigrateStatus, Working
<1>6. ASSUME ~migrate.skipped
      PROVE  (StatusesDone /\ CoursesDone)'
  <2>1. \A w \in Owner : program'[w] = IF w = o THEN "enrolled" ELSE program[w]
    BY <1>1
  <2>2. migrate.owners \subseteq Owner
    BY <1>1 DEF Migrate
  <2>3. StatusesDone'
    BY <1>2, <1>6, <2>1, <2>2 DEF MigInv, StatusesDone
  <2>4. ASSUME NEW s \in Seat
        PROVE  InLedger(s, migrate.found[s])'
    <3>1. InLedger(s, migrate.found[s])
      BY <1>5, <1>6 DEF MigInv, CoursesDone
    <3> QED
      BY <1>2, <1>4, <3>1, LedgerKept
  <2> QED
    BY <2>3, <2>4 DEF CoursesDone
<1> QED
  BY <1>2, <1>3, <1>6 DEF MigInv

LEMMA MigrateProgressKeeps ==
  ASSUME MigInv, NEW s \in Seat, MigrateProgress(s)
  PROVE  MigInv'
<1>1. /\ migrate \in Migrate
      /\ migrate' = [migrate EXCEPT !.owed = @ \ {s}]
      /\ appended' = IF s \in current THEN [appended EXCEPT ![s] = Counted(@)] ELSE appended
      /\ UNCHANGED <<program, legacy, current, activity, backfill>>
      /\ migrate.at = "progress"
  BY DEF MigInv, MigrationTypeOK, MigrateProgress, Working
<1>2. /\ migrate' \in Migrate /\ migrate'.found = migrate.found /\ migrate'.at = migrate.at
      /\ migrate'.owners = migrate.owners /\ migrate'.skipped = migrate.skipped
  BY <1>1 DEF Migrate
<1>3. appended' \in [Seat -> 0..MaxCopies]
  <2>1. appended \in [Seat -> 0..MaxCopies] /\ MaxCopies \in Nat
    BY MigrationAssumption DEF MigInv, MigrationTypeOK
  <2>2. Counted(appended[s]) \in 0..MaxCopies
    BY <2>1, CountedIs
  <2> QED
    BY <1>1, <2>1, <2>2
<1>4. MigrationTypeOK' /\ CompletedOnce'
  BY <1>1, <1>2, <1>3 DEF MigInv, MigrationTypeOK, CompletedOnce
<1>5. \A q \in Seat : LedgerGrows(q)
  BY <1>1 DEF LedgerGrows
<1>6. ASSUME ~migrate.skipped
      PROVE  (StatusesDone /\ CoursesDone)'
  <2>1. StatusesDone'
    BY <1>1, <1>2, <1>6 DEF MigInv, StatusesDone
  <2>2. ASSUME NEW q \in Seat
        PROVE  InLedger(q, migrate.found[q])'
    <3>1. InLedger(q, migrate.found[q])
      BY <1>1, <1>6 DEF MigInv, CoursesDone
    <3> QED
      BY <1>2, <1>5, <3>1, LedgerKept
  <2> QED
    BY <2>1, <2>2 DEF CoursesDone
<1> QED
  BY <1>2, <1>4, <1>6 DEF MigInv

(* What a document of a seat becomes: the seat's own records are there     *)
(* then, one at most with a date, and those of other seats are as before.  *)
LEMMA CourseMoved ==
  ASSUME MigInv, NEW s \in Seat, MigrateCourse(s)
  PROVE  /\ activity' \in [Seat -> Activity] /\ current' \subseteq Seat
         /\ CompletedOnce'
         /\ \A q \in Seat : LedgerGrows(q)
         /\ migrate.found[s].status = "active" => s \in current'
         /\ migrate.found[s].status # "active" =>
              IF migrate.found[s].dated THEN activity'[s].dated > 0
                                        ELSE activity'[s].undated > 0
<1>1. activity \in [Seat -> Activity] /\ current \subseteq Seat /\ MaxCopies \in Nat \ {0, 1}
  BY MigrationAssumption DEF MigInv, MigrationTypeOK
<1>2. CASE migrate.found[s].status = "active"
  <2>1. current' = current \cup {s} /\ activity' = activity
    BY <1>2 DEF MigrateCourse, ToCurrent
  <2> QED
    BY <1>1, <1>2, <2>1 DEF LedgerGrows, CompletedOnce, MigInv
<1>3. CASE migrate.found[s].status # "active"
  <2>1. /\ current' = current
        /\ activity' = IF migrate.found[s].dated
                       THEN [activity EXCEPT ![s].dated = IF @ = 0 THEN 1 ELSE @]
                       ELSE [activity EXCEPT ![s].undated = Counted(@)]
    BY <1>3 DEF MigrateCourse, ToActivity
  <2>2. \A q \in Seat : q # s => activity'[q] = activity[q]
    BY <1>1, <2>1
  <2>3. activity[s] \in Activity /\ activity[s].dated \in 0..1
    BY <1>1 DEF MigInv, CompletedOnce, Activity
  <2> DEFINE Added ==
        /\ activity'[s] \in Activity /\ activity'[s].dated \in 0..1
        /\ activity[s].dated > 0 => activity'[s].dated > 0
        /\ activity[s].undated > 0 => activity'[s].undated > 0
        /\ IF migrate.found[s].dated THEN activity'[s].dated > 0
                                     ELSE activity'[s].undated > 0
  <2>4. ASSUME migrate.found[s].dated
        PROVE  Added
    <3>1. activity'[s] = [activity[s] EXCEPT !.dated = IF @ = 0 THEN 1 ELSE @]
      BY <1>1, <2>1, <2>4
    <3>2. /\ activity'[s] \in Activity /\ activity'[s].dated = 1
          /\ activity'[s].undated = activity[s].undated
      BY <1>1, <2>3, <3>1 DEF Activity
    <3> QED
      BY <2>4, <3>2
  <2>5. ASSUME ~migrate.found[s].dated
        PROVE  Added
    <3>1. Counted(activity[s].undated) \in 1..MaxCopies
      BY <2>3, CountedIs DEF Activity
    <3>2. activity'[s] = [activity[s] EXCEPT !.undated = Counted(@)]
      BY <1>1, <2>1, <2>5
    <3>3. /\ activity'[s] \in Activity /\ activity'[s].undated > 0
          /\ activity'[s].dated = activity[s].dated
      BY <1>1, <2>3, <3>1, <3>2 DEF Activity
    <3> QED
      BY <2>3, <2>5, <3>3
  <2>6. Added
    BY <2>4, <2>5
  <2>7. activity'[s] # NoActivity
    BY <2>6 DEF NoActivity
  <2>8. \A q \in Seat : LedgerGrows(q)
    BY <2>1, <2>2, <2>6, <2>7 DEF LedgerGrows
  <2>9. CompletedOnce'
    BY <2>2, <2>6 DEF MigInv, CompletedOnce
  <2>10. activity' \in [Seat -> Activity]
    <3>1. activity' = [q \in Seat |-> activity'[q]]
      BY <1>1, <2>1
    <3>2. \A q \in Seat : activity'[q] \in Activity
      BY <1>1, <2>2, <2>6
    <3> QED
      BY <3>1, <3>2
  <2> QED
    BY <1>1, <1>3, <2>1, <2>6, <2>8, <2>9, <2>10
<1> QED
  BY <1>2, <1>3

LEMMA MigrateCourseKeeps ==
  ASSUME MigInv, NEW s \in Seat, MigrateCourse(s)
  PROVE  MigInv'
<1>1. /\ migrate \in Migrate /\ program \in [Owner -> ProgramStatus] /\ OwnerOf[s] \in Owner
      /\ program' = [program EXCEPT ![OwnerOf[s]] = IF @ = "absent" THEN "enrolled" ELSE @]
      /\ migrate' = [migrate EXCEPT !.owed = @ \ {s}]
      /\ UNCHANGED <<legacy, appended, backfill>>
      /\ migrate.at = "courses"
  BY MigrationAssumption DEF MigInv, MigrationTypeOK, MigrateCourse, Working
<1>2. /\ migrate' \in Migrate /\ migrate'.found = migrate.found /\ migrate'.at = migrate.at
      /\ migrate'.owners = migrate.owners /\ migrate'.skipped = migrate.skipped
      /\ migrate'.owed = migrate.owed \ {s}
  BY <1>1 DEF Migrate
<1>3. /\ activity' \in [Seat -> Activity] /\ current' \subseteq Seat
      /\ CompletedOnce'
      /\ \A q \in Seat : LedgerGrows(q)
  BY CourseMoved
<1>4. program' \in [Owner -> ProgramStatus]
  BY <1>1 DEF ProgramStatus
<1>5. MigrationTypeOK'
  BY <1>1, <1>2, <1>3, <1>4 DEF MigInv, MigrationTypeOK
<1>6. ASSUME ~migrate.skipped
      PROVE  (StatusesDone /\ CoursesDone)'
  <2>1. \A o \in Owner : program[o] # "absent" => program'[o] = program[o]
    BY <1>1
  <2>2. migrate.owners \subseteq Owner
    BY <1>1 DEF Migrate
  <2>3. StatusesDone'
    BY <1>1, <1>2, <1>6, <2>1, <2>2 DEF MigInv, StatusesDone
  <2>4. ASSUME NEW q \in Seat, q # s
        PROVE  \/ InLedger(q, migrate.found[q])'
               \/ migrate'.at = "courses" /\ q \in migrate'.owed
    <3>1. CASE InLedger(q, migrate.found[q])
      BY <1>2, <1>3, <3>1, LedgerKept
    <3>2. CASE migrate.at = "courses" /\ q \in migrate.owed
      BY <1>2, <2>4, <3>2
    <3> QED
      BY <1>6, <3>1, <3>2 DEF MigInv, CoursesDone
  <2>5. InLedger(s, migrate.found[s])'
    <3> DEFINE doc == migrate.found[s]
    <3>1. doc' = doc
      BY <1>2
    <3>2. InLedger(s, doc)' <=>
            \/ doc = NoLegacy
            \/ doc.status = "active" /\ (s \in current' \/ activity'[s] # NoActivity)
            \/ doc.status # "active" /\ doc.dated /\ activity'[s].dated > 0
            \/ doc.status # "active" /\ ~doc.dated /\ activity'[s].undated > 0
      BY <3>1 DEF InLedger, NoLegacy
    <3>3. doc \in Legacy
      BY <1>1 DEF Migrate
    <3>4. /\ doc.status = "active" => s \in current'
          /\ doc.status # "active" =>
               IF doc.dated THEN activity'[s].dated > 0 ELSE activity'[s].undated > 0
      BY CourseMoved
    <3> HIDE DEF doc
    <3>5. InLedger(s, doc)'
      BY <3>2, <3>3, <3>4 DEF Legacy
    <3> QED
      BY <3>5 DEF doc
  <2> QED
    BY <2>3, <2>4, <2>5 DEF CoursesDone
<1> QED
  BY <1>2, <1>3, <1>5, <1>6 DEF MigInv

LEMMA MigrationStutters ==
  ASSUME MigInv, UNCHANGED migration
  PROVE  MigInv'
<1>1. UNCHANGED <<program, legacy, current, activity, appended, backfill, migrate>>
  BY DEF migration, collections
<1>2. MigrationTypeOK' /\ CompletedOnce' /\ \A s \in Seat : LedgerGrows(s)
  BY <1>1 DEF MigInv, MigrationTypeOK, CompletedOnce, LedgerGrows
<1> QED
  BY <1>1, <1>2, MigrationStands

(* Wherever the scripts stand or were killed, and whatever the server did, *)
(* what a run without a skip has still to do is what it still owes         *)
(* (migrate-enrollment-system.ts:38-176).                                  *)
THEOREM MigrationCorrect == MigrationSpec => []MigInv
<1>1. MigInv /\ [MigrationNext]_migration => MigInv'
  BY BackfillKeeps, LiveProgramKeeps, LiveSeatKeeps, StartMigrateKeeps, PhaseKeeps,
     MigrateSkipKeeps, MigrateStatusKeeps, MigrateProgressKeeps, MigrateCourseKeeps,
     MigrationStutters
  DEF MigrationNext
<1> QED
  BY <1>1, InitMigration, PTL DEF MigrationSpec

(* Every variable of the two scripts and their collections has its type.   *)
THEOREM MigrationTypeCorrect == MigrationSpec => []MigrationTypeOK
<1>1. MigInv => MigrationTypeOK
  BY DEF MigInv
<1> QED
  BY <1>1, MigrationCorrect, PTL

(* A run that is through without a skip has moved every enrollment it      *)
(* found, and a completed one has one activity record however often the    *)
(* scripts are run (migrate-enrollment-system.ts:38-83, 85-176).           *)
THEOREM EnrollmentsMigratedCorrect == MigrationSpec => []EnrollmentsMigrated
<1>1. MigInv => EnrollmentsMigrated
  BY DEF MigInv, StatusesDone, CoursesDone, EnrollmentsMigrated, MigrationCovers
<1> QED
  BY <1>1, MigrationCorrect, PTL

-------------------------------------------------------------------------------
(* The migration of roles. *)

(* A document and the roles its user was given.                            *)
Carries(p, g) ==
  /\ g \subseteq RolesOfUser(p)
  /\ ~p.there => p.roles = {} /\ p.role = Nobody /\ p.subroles = Nobody
  /\ p.primary \in p.roles \cup {Nobody}
  /\ p.roles # {} /\ p.role # Nobody => g = p.roles

(* What the end of a run asks of a document.                               *)
Through(p, g) ==
  /\ p.roles # {} /\ p.primary \in p.roles
  /\ p.role # Nobody => g = p.roles
  /\ p.subroles # Nobody => p.staffRoles # Nobody

(* A document still as it was read, but for the staffRoles the server      *)
(* wrote.                                                                  *)
StillAs(now, old) ==
  /\ old.there
  /\ \A f \in {"there", "role", "roles", "primary", "subroles"} : now[f] = old[f]
  /\ old.staffRoles # Nobody => now.staffRoles # Nobody

RolesTypeOK ==
  /\ person \in [Person -> Persons]
  /\ seen \in [Person -> Persons] \cup {Nobody}
  /\ due \subseteq Person /\ (due # {} => seen # Nobody)
  /\ finished \in BOOLEAN
  /\ granted \in [Person -> SUBSET Role]

(* While the script runs, the documents it owes are as it read them, and   *)
(* those it read and owes no more are through.                             *)
RolesInv ==
  /\ RolesTypeOK
  /\ \A u \in Person : Carries(person[u], granted[u])
  /\ seen # Nobody =>
       /\ ~finished
       /\ \A u \in due : StillAs(person[u], seen[u])
       /\ \A u \in Person \ due : seen[u].there => Through(person[u], granted[u])
  /\ finished => \A u \in Person : person[u].there => Through(person[u], granted[u])

-------------------------------------------------------------------------------

(* The documents there are.                                                *)
LEMMA DocumentsAre ==
  ASSUME NEW r \in Role, NEW q \in Role \cup {Nobody}, NEW d \in Duty \cup {Nobody},
         NEW w \in Role \cup {Nobody}
  PROVE  /\ Old(w, d) \in Persons /\ New(r, q) \in Persons /\ Unregistered \in Persons
         /\ Both(r, Nobody) \in Persons
<1> QED
  BY DEF Old, New, Unregistered, Both, Persons

LEMMA NewIs ==
  ASSUME NEW r \in Role
  PROVE  New(r, r) \in Persons /\ Carries(New(r, r), {r}) /\ Through(New(r, r), {r})
<1>1. r # Nobody
  BY RolesAssumption
<1> QED
  BY <1>1 DEF New, Persons, Carries, Through, RolesOfUser

LEMMA RoleSetIs ==
  ASSUME NEW old \in Persons
  PROVE  /\ RolesSet(old) \subseteq Role /\ RolesSet(old) # {}
         /\ old.roles # {} => RolesSet(old) = old.roles
         /\ old.roles = {} /\ old.role # Nobody => RolesSet(old) = {old.role}
<1> QED
  BY RolesAssumption DEF RolesSet, Persons

(* What the script makes of a document it read as it is now: through, with *)
(* every role it carried.                                                  *)
LEMMA MigratedIs ==
  ASSUME NEW now \in Persons, NEW old \in Persons, NEW g \in SUBSET Role,
         Carries(now, g), StillAs(now, old)
  PROVE  LET new == MigratedUser(now, old)
         IN  new \in Persons /\ Carries(new, g) /\ Through(new, g)
<1> DEFINE given == RolesSet(old)
           renames == old.subroles # Nobody /\ old.staffRoles = Nobody
           first == CHOOSE r \in given : TRUE
           new == MigratedUser(now, old)
<1>1. given \subseteq Role /\ first \in given /\ Nobody \notin Role
  BY RoleSetIs, RolesAssumption
<1>2. /\ now.there /\ now.role = old.role /\ now.roles = old.roles
      /\ now.primary = old.primary /\ now.subroles = old.subroles
      /\ old.staffRoles # Nobody => now.staffRoles # Nobody
  BY DEF StillAs
<1> DEFINE roles == IF old.roles = {} THEN given ELSE now.roles
           primary == IF old.roles = {} \/ old.primary = Nobody THEN first ELSE now.primary
           role == IF old.roles = {} THEN Nobody ELSE now.role
           staffRoles == IF renames THEN old.subroles ELSE now.staffRoles
           subroles == IF renames THEN Nobody ELSE now.subroles
<1>3. /\ now.there \in BOOLEAN /\ roles \in SUBSET Role /\ primary \in Role \cup {Nobody}
      /\ role \in Role \cup {Nobody} /\ staffRoles \in Duty \cup {Nobody}
      /\ subroles \in Duty \cup {Nobody}
  BY <1>1 DEF Persons
<1>4. /\ new.there = now.there /\ new.roles = roles /\ new.primary = primary
      /\ new.role = role /\ new.staffRoles = staffRoles /\ new.subroles = subroles
      /\ new \in Persons
  <2>1. new = [now EXCEPT !.roles = roles, !.primary = primary, !.role = role,
                          !.staffRoles = staffRoles, !.subroles = subroles]
    BY DEF MigratedUser
  <2> HIDE DEF new, roles, primary, role, staffRoles, subroles
  <2> QED
    BY <1>3, <2>1 DEF Persons
<1> HIDE DEF new, first, given
<1>5. new.roles = given
  BY <1>2, <1>4, RoleSetIs DEF given
<1>6. new.primary \in given
  BY <1>1, <1>2, <1>4, RoleSetIs DEF given, Carries
<1>7. new.role # Nobody => g = new.roles
  BY <1>2, <1>4 DEF Carries
<1>8. g \subseteq given
  <2>1. CASE old.roles = {}
    <3>1. g \subseteq {old.role} \ {Nobody}
      BY <1>2, <2>1 DEF Carries, RolesOfUser
    <3> QED
      BY <2>1, <3>1, RoleSetIs DEF given
  <2>2. CASE old.roles # {} /\ old.role # Nobody
    BY <1>2, <2>2, RoleSetIs DEF given, Carries
  <2>3. CASE old.roles # {} /\ old.role = Nobody
    BY <1>2, <2>3, RoleSetIs DEF given, Carries, RolesOfUser
  <2> QED
    BY <2>1, <2>2, <2>3
<1>9. new.subroles # Nobody => new.staffRoles # Nobody
  BY <1>2, <1>4
<1>10. Carries(new, g)
  BY <1>2, <1>4, <1>5, <1>6, <1>7, <1>8 DEF Carries, RolesOfUser
<1>11. Through(new, g)
  BY <1>1, <1>5, <1>6, <1>7, <1>9 DEF Through
<1> QED
  BY <1>4, <1>10, <1>11 DEF new

-------------------------------------------------------------------------------

LEMMA InitRoles == RolesInit => RolesInv
<1> SUFFICES ASSUME RolesInit PROVE RolesInv
  OBVIOUS
<1> DEFINE First == {Unregistered} \cup {Old(r, d) : r \in Role \cup {Nobody}, d \in Duty \cup {Nobody}}
                      \cup {New(r, p) : r \in Role, p \in Role \cup {Nobody}}
                      \cup {Both(r, Nobody) : r \in Role}
       Fine(p) ==
         /\ p \in Persons /\ RolesOfUser(p) \subseteq Role
         /\ ~p.there => p.roles = {} /\ p.role = Nobody /\ p.subroles = Nobody
         /\ p.roles # {} /\ p.role # Nobody => RolesOfUser(p) = p.roles
<1>1. /\ person \in [Person -> First]
      /\ granted = [u \in Person |-> RolesOfUser(person[u])]
      /\ \A u \in Person : person[u].primary \in person[u].roles \cup {Nobody}
      /\ seen = Nobody /\ due = {} /\ finished = FALSE
  BY DEF RolesInit
<1>2. ASSUME NEW p \in First
      PROVE  Fine(p)
  <2>1. CASE p = Unregistered
    <3>1. p \in Persons
      BY <2>1, DocumentsAre, RolesAssumption
    <3>2. p.role = Nobody /\ p.roles = {} /\ p.subroles = Nobody
      BY <2>1 DEF Unregistered, Old
    <3> QED
      BY <3>1, <3>2 DEF RolesOfUser
  <2>2. ASSUME NEW r \in Role \cup {Nobody}, NEW d \in Duty \cup {Nobody}, p = Old(r, d)
        PROVE  Fine(p)
    BY <2>2 DEF Old, Persons, RolesOfUser
  <2>3. ASSUME NEW r \in Role, NEW q \in Role \cup {Nobody}, p = New(r, q)
        PROVE  Fine(p)
    BY <2>3 DEF New, Persons, RolesOfUser
  <2>4. ASSUME NEW r \in Role, p = Both(r, Nobody)
        PROVE  Fine(p)
    <3>1. p \in Persons
      BY <2>4, DocumentsAre
    <3>2. p.role = r /\ p.roles = {r} /\ p.there
      BY <2>4 DEF Both, Old
    <3> QED
      BY <3>1, <3>2 DEF RolesOfUser
  <2> QED
    BY <2>1, <2>2, <2>3, <2>4
<1> HIDE DEF First
<1>3. RolesTypeOK
  <2>1. person \in [Person -> Persons] /\ granted \in [Person -> SUBSET Role]
    BY <1>1, <1>2
  <2> QED
    BY <1>1, <2>1 DEF RolesTypeOK
<1>4. \A u \in Person : Carries(person[u], granted[u])
  BY <1>1, <1>2 DEF Carries
<1> QED
  BY <1>1, <1>3, <1>4 DEF RolesInv

(* The script reads what there is. *)
LEMMA StartRolesKeeps ==
  ASSUME RolesInv, StartRoles
  PROVE  RolesInv'
<1>1. /\ seen = Nobody /\ seen' = person /\ due' = {u \in Person : person[u].there}
      /\ finished' = FALSE /\ person' = person /\ granted' = granted
  BY DEF StartRoles
<1>2. seen' # Nobody
  BY <1>1, SeenAssumption DEF RolesInv, RolesTypeOK
<1>3. RolesTypeOK'
  BY <1>1, <1>2 DEF RolesInv, RolesTypeOK
<1>4. \A u \in due' : StillAs(person'[u], seen'[u])
  BY <1>1 DEF StillAs
<1> QED
  BY <1>1, <1>3, <1>4 DEF RolesInv

LEMMA EndRolesKeeps ==
  ASSUME RolesInv, EndRoles \/ RolesKilled
  PROVE  RolesInv'
<1>1. seen' = Nobody /\ due' = {} /\ person' = person /\ granted' = granted /\ seen # Nobody
  BY DEF EndRoles, RolesKilled
<1>2. RolesTypeOK'
  BY <1>1 DEF RolesInv, RolesTypeOK, EndRoles, RolesKilled
<1>3. finished' => \A u \in Person : person[u].there => Through(person[u], granted[u])
  BY <1>1 DEF RolesInv, EndRoles, RolesKilled
<1> QED
  BY <1>1, <1>2, <1>3 DEF RolesInv

(* A step that leaves the script and what it read as they are.             *)
LEMMA PersonStep ==
  ASSUME RolesInv, UNCHANGED <<seen, due, finished>>, NEW u \in Person,
         NEW p \in Persons, NEW g \in SUBSET Role,
         person' = [person EXCEPT ![u] = p], granted' = [granted EXCEPT ![u] = g],
         Carries(p, g),
         seen # Nobody =>
           /\ u \in due => StillAs(p, seen[u])
           /\ u \notin due /\ seen[u].there => Through(p, g),
         finished => Through(p, g)
  PROVE  RolesInv'
<1>1. RolesTypeOK'
  BY DEF RolesInv, RolesTypeOK
<1>2. /\ person'[u] = p /\ granted'[u] = g
      /\ \A w \in Person \ {u} : person'[w] = person[w] /\ granted'[w] = granted[w]
  BY DEF RolesInv, RolesTypeOK
<1>3. \A w \in Person : Carries(person'[w], granted'[w])
  BY <1>2 DEF RolesInv
<1>4. ASSUME seen # Nobody
      PROVE  /\ \A w \in due : StillAs(person'[w], seen[w])
             /\ \A w \in Person \ due : seen[w].there => Through(person'[w], granted'[w])
  BY <1>2, <1>4 DEF RolesInv, RolesTypeOK
<1>5. ASSUME finished
      PROVE  \A w \in Person : person'[w].there => Through(person'[w], granted'[w])
  BY <1>2, <1>5 DEF RolesInv
<1> QED
  BY <1>1, <1>3, <1>4, <1>5 DEF RolesInv

(* A user who was not there when the script read is none of its documents. *)
LEMMA RegisterKeeps ==
  ASSUME RolesInv, NEW u \in Person, NEW r \in Role, Register(u, r)
  PROVE  RolesInv'
<1> DEFINE p == New(r, r)
           g == {r}
<1>1. /\ ~person[u].there /\ person' = [person EXCEPT ![u] = p]
      /\ granted' = [granted EXCEPT ![u] = g] /\ UNCHANGED <<seen, due, finished>>
  BY DEF Register
<1>2. seen # Nobody => u \notin due
  BY <1>1 DEF RolesInv, StillAs
<1>3. p \in Persons /\ g \in SUBSET Role /\ Carries(p, g) /\ Through(p, g)
  BY NewIs
<1> HIDE DEF p, g
<1> QED
  BY <1>1, <1>2, <1>3, PersonStep

LEMMA WriteStaffRolesKeeps ==
  ASSUME RolesInv, NEW u \in Person, NEW d \in Duty, WriteStaffRoles(u, d)
  PROVE  RolesInv'
<1> DEFINE p == [person[u] EXCEPT !.staffRoles = d]
<1>1. /\ person' = [person EXCEPT ![u] = p] /\ granted' = [granted EXCEPT ![u] = granted[u]]
      /\ UNCHANGED <<seen, due, finished>> /\ person[u].there
  BY DEF WriteStaffRoles, RolesInv, RolesTypeOK
<1>2. person[u] \in Persons /\ granted[u] \in SUBSET Role /\ d # Nobody
  BY RolesAssumption DEF RolesInv, RolesTypeOK
<1>3. /\ p \in Persons /\ p.there = person[u].there /\ p.role = person[u].role
      /\ p.roles = person[u].roles /\ p.primary = person[u].primary
      /\ p.subroles = person[u].subroles /\ p.staffRoles = d
  BY <1>2 DEF Persons
<1> HIDE DEF p
<1>4. Carries(p, granted[u])
  BY <1>3 DEF RolesInv, Carries, RolesOfUser
<1>5. Through(person[u], granted[u]) => Through(p, granted[u])
  BY <1>2, <1>3 DEF Through
<1>6. StillAs(person[u], seen[u]) => StillAs(p, seen[u])
  BY <1>2, <1>3 DEF StillAs
<1>7. seen # Nobody =>
        /\ u \in due => StillAs(p, seen[u])
        /\ u \notin due /\ seen[u].there => Through(p, granted[u])
  BY <1>5, <1>6 DEF RolesInv
<1>8. finished => Through(p, granted[u])
  BY <1>1, <1>5 DEF RolesInv
<1> QED
  BY <1>1, <1>2, <1>3, <1>4, <1>7, <1>8, PersonStep

LEMMA MigrateUserKeeps ==
  ASSUME RolesInv, NEW u \in Person, MigrateUser(u)
  PROVE  RolesInv'
<1> DEFINE p == MigratedUser(person[u], seen[u])
<1>1. /\ u \in due /\ seen # Nobody /\ person' = [person EXCEPT ![u] = p]
      /\ due' = due \ {u} /\ UNCHANGED <<seen, finished, granted>>
  BY DEF MigrateUser, RolesInv, RolesTypeOK
<1>2. person[u] \in Persons /\ granted[u] \in SUBSET Role /\ seen[u] \in Persons
  BY <1>1 DEF RolesInv, RolesTypeOK
<1>3. p \in Persons /\ Carries(p, granted[u]) /\ Through(p, granted[u])
  BY <1>1, <1>2, MigratedIs DEF RolesInv
<1> HIDE DEF p
<1>4. person'[u] = p /\ \A w \in Person \ {u} : person'[w] = person[w]
  BY <1>1 DEF RolesInv, RolesTypeOK
<1>5. RolesTypeOK'
  BY <1>1, <1>3 DEF RolesInv, RolesTypeOK
<1>6. \A w \in Person : Carries(person'[w], granted'[w])
  BY <1>1, <1>3, <1>4 DEF RolesInv
<1>7. \A w \in due' : StillAs(person'[w], seen'[w])
  BY <1>1, <1>4 DEF RolesInv, RolesTypeOK
<1>8. \A w \in Person \ due' : seen'[w].there => Through(person'[w], granted'[w])
  BY <1>1, <1>3, <1>4 DEF RolesInv
<1>9. ~finished'
  BY <1>1 DEF RolesInv
<1> QED
  BY <1>5, <1>6, <1>7, <1>8, <1>9 DEF RolesInv

LEMMA MigrateUserFailsKeeps ==
  ASSUME RolesInv, NEW u \in Person, MigrateUserFails(u)
  PROVE  RolesInv'
<1>1. /\ u \in due /\ seen # Nobody /\ due' = due \ {u}
      /\ seen' = [seen EXCEPT ![u] = Unregistered] /\ UNCHANGED <<person, finished, granted>>
  BY DEF MigrateUserFails, RolesInv, RolesTypeOK
<1>2. Unregistered \in Persons /\ ~Unregistered.there
  BY DocumentsAre, RolesAssumption DEF Unregistered, Old
<1>3. /\ seen' \in [Person -> Persons] /\ seen'[u] = Unregistered
      /\ \A w \in Person \ {u} : seen'[w] = seen[w]
  BY <1>1, <1>2 DEF RolesInv, RolesTypeOK
<1>4. seen' # Nobody
  BY <1>3, SeenAssumption
<1>5. RolesTypeOK'
  BY <1>1, <1>3, <1>4 DEF RolesInv, RolesTypeOK
<1>6. \A w \in due' : StillAs(person'[w], seen'[w])
  BY <1>1, <1>3 DEF RolesInv, RolesTypeOK
<1>7. \A w \in Person \ due' : seen'[w].there => Through(person'[w], granted'[w])
  BY <1>1, <1>2, <1>3 DEF RolesInv
<1> QED
  BY <1>1, <1>5, <1>6, <1>7 DEF RolesInv

LEMMA RolesNextKeeps ==
  ASSUME RolesInv, [RolesNext]_rolesVars
  PROVE  RolesInv'
<1>1. CASE UNCHANGED rolesVars
  <2>1. UNCHANGED <<person, seen, due, finished, granted>>
    BY <1>1 DEF rolesVars
  <2> QED
    BY <2>1 DEF RolesInv, RolesTypeOK
<1>2. CASE RolesNext
  BY <1>2, StartRolesKeeps, EndRolesKeeps, RegisterKeeps, WriteStaffRolesKeeps,
     MigrateUserKeeps, MigrateUserFailsKeeps
  DEF RolesNext
<1> QED
  BY <1>1, <1>2

(* Beside the server, wherever the script is killed, a document it owes is *)
(* as it read it and one it owes no more is through                        *)
(* (migrate-user-role-to-roles.ts:74-160).                                 *)
THEOREM RolesCorrect == RolesSpec => []RolesInv
<1> QED
  BY InitRoles, RolesNextKeeps, PTL DEF RolesSpec

(* Nobody loses a role, and a run without errors leaves the verification   *)
(* only who had both fields (migrate-user-role-to-roles.ts:74-105).        *)
THEOREM RolesCarriedCorrect == RolesSpec => []RolesCarried
<1>1. ASSUME RolesInv PROVE RolesCarried
  <2>1. \A u \in Person : granted[u] \subseteq RolesOfUser(person[u])
    BY <1>1 DEF RolesInv, Carries
  <2>2. ASSUME finished
        PROVE  /\ ValidUsers = {u \in Person : person[u].there}
               /\ \A u \in ValidUsers : person[u].primary \in person[u].roles
               /\ \A u \in LegacyUsers : granted[u] = person[u].roles
               /\ \A u \in SubroleUsers : person[u].staffRoles # Nobody
    <3>1. \A u \in Person : person[u].there => Through(person[u], granted[u])
      BY <1>1, <2>2 DEF RolesInv
    <3>2. \A u \in Person : Carries(person[u], granted[u])
      BY <1>1 DEF RolesInv
    <3>3. ASSUME NEW u \in Person
          PROVE  /\ person[u].there <=> person[u].roles # {}
                 /\ person[u].role # Nobody \/ person[u].subroles # Nobody => person[u].there
      BY <3>1, <3>2 DEF Carries, Through
    <3> QED
      BY <3>1, <3>3 DEF ValidUsers, LegacyUsers, SubroleUsers, Through
  <2> QED
    BY <2>1, <2>2 DEF RolesCarried
<1> QED
  BY <1>1, RolesCorrect, PTL

-------------------------------------------------------------------------------
(* ContentMigration. *)

(* The phases of each script. *)
PhasesOK ==
  \/ job.script = "none" /\ job.phase = "none"
  \/ job.script = "subjects" /\ job.phase \in {"subjects", "exams", "packages", "done"}
  \/ job.script \in {"attempts", "levels"} /\ job.phase \in {job.script, "done"}

JobFields == {"script", "phase", "todo", "known", "found"}
IsJob(j) == DOMAIN j = JobFields /\ j = [f \in JobFields |-> j[f]]

(* A content to be made of x, at the course c, is not there by the script. *)
ContentDue(f, x, c) ==
  /\ f.doc.course = c /\ f.doc.item = x /\ f.doc.scripted
  /\ \A y \in contents : y.course = c /\ y.item = x => ~y.scripted

(* What has been found missing is still missing, or the server made it.    *)
FoundRight(f) ==
  /\ job.phase = "subjects" => f.of \in Subject
  /\ job.phase = "exams" => ContentDue(f, f.of, CourseOf[SubjectOf[f.of]])
  /\ job.phase = "packages" => ContentDue(f, f.of, PlaceOf[f.of])
  /\ job.phase = "attempts" => f.of \in Sitting /\ copied[f.of] = 0
  /\ job.phase = "levels" => f.doc = LevelOf[f.of]

JobOK ==
  /\ IsJob(job) /\ PhasesOK
  /\ job.phase = "done" => job.todo = {}
  /\ \A f \in job.found : job.found = {f} /\ f.of \in job.todo /\ FoundRight(f)

(* The courses, exams and packages that the script at work is through with. *)
CoursesThrough == IF job.phase = "subjects" THEN Subject \ job.todo ELSE Subject
ExamsThrough ==
  IF job.phase = "subjects" THEN {} ELSE IF job.phase = "exams" THEN Exam \ job.todo ELSE Exam
PackagesThrough ==
  IF job.phase \in {"subjects", "exams"} THEN {}
  ELSE IF job.phase = "packages" THEN Package \ job.todo ELSE Package

MovedSoFar ==
  /\ job.script = "attempts" => \A a \in Mapped \ job.todo : copied[a] = 1 \/ a \in synced
  /\ job.script = "levels" =>
       \A c \in ClassLevel \ job.todo :
         LevelOf[c] # Unmapped => \E l \in levels : SameName(l, LevelOf[c])
  /\ job.script = "subjects" => \A s \in CoursesThrough : CourseOf[s] # Unmapped => s \in job.known
  /\ job.script = "subjects" /\ ~spoiled =>
       /\ \A e \in ExamsThrough : SubjectOf[e] # Unmapped /\ CourseOf[SubjectOf[e]] # Unmapped =>
            There(CourseOf[SubjectOf[e]], e)
       /\ \A k \in PackagesThrough : PlaceOf[k] # Unmapped => There(PlaceOf[k], k)

MovesInv ==
  /\ copied \in [Sitting -> Nat]
  /\ JobOK
  /\ MovedOnce
  /\ MovedSoFar

-------------------------------------------------------------------------------

LEMMA MissingIs ==
  ASSUME IsJob(job), NEW x, NEW doc, Missing(x, doc)
  PROVE  /\ IsJob(job)' /\ job'.found = {[of |-> x, doc |-> doc]}
         /\ job'.script = job.script /\ job'.phase = job.phase
         /\ job'.todo = job.todo /\ job'.known = job.known
<1> QED
  BY DEF Missing, IsJob, JobFields

LEMMA PastIs ==
  ASSUME IsJob(job), NEW x, Past(x)
  PROVE  /\ IsJob(job)' /\ job'.found = {} /\ job'.todo = job.todo \ {x}
         /\ job'.script = job.script /\ job'.phase = job.phase /\ job'.known = job.known
<1> QED
  BY DEF Past, IsJob, JobFields

LEMMA KnownIs ==
  ASSUME IsJob(job), NEW s,
         job' = [job EXCEPT !.todo = @ \ {s}, !.found = {}, !.known = @ \cup {s}]
  PROVE  /\ IsJob(job)' /\ job'.found = {} /\ job'.todo = job.todo \ {s}
         /\ job'.script = job.script /\ job'.phase = job.phase
         /\ job'.known = job.known \cup {s}
<1> QED
  BY DEF IsJob, JobFields

LEMMA NewDocIs ==
  ASSUME JobOK, NEW phase, NEW x, Creating(phase, x)
  PROVE  /\ x \in job.todo /\ job.phase = phase
         /\ \E f \in job.found : f.of = x /\ f.doc = NewDoc /\ FoundRight(f)
<1>1. PICK f \in job.found : f.of = x
  BY DEF Creating
<1>2. job.found = {f} /\ f.of \in job.todo /\ FoundRight(f)
  BY <1>1 DEF JobOK
<1>3. NewDoc = f.doc
  BY <1>2 DEF NewDoc
<1> QED
  BY <1>1, <1>2, <1>3 DEF Creating

(* A script finds that what it makes of x is missing. *)
LEMMA MissingKeeps ==
  ASSUME MovesInv, NEW x \in job.todo, NEW doc, Missing(x, doc), job.phase # "done",
         FoundRight([of |-> x, doc |-> doc])
  PROVE  MovesInv'
<1>1. /\ IsJob(job)' /\ job'.found = {[of |-> x, doc |-> doc]}
      /\ job'.script = job.script /\ job'.phase = job.phase
      /\ job'.todo = job.todo /\ job'.known = job.known
  BY MissingIs DEF MovesInv, JobOK
<1>2. UNCHANGED <<moved, spoiled>>
  BY DEF Missing
<1>3. JobOK'
  <2>1. FoundRight([of |-> x, doc |-> doc])'
    BY <1>1, <1>2 DEF FoundRight, ContentDue, moved
  <2> QED
    BY <1>1, <2>1 DEF MovesInv, JobOK, PhasesOK
<1>4. MovedSoFar'
  BY <1>1, <1>2
  DEF MovesInv, MovedSoFar, CoursesThrough, ExamsThrough, PackagesThrough, There, Filled, moved
<1> QED
  BY <1>2, <1>3, <1>4 DEF MovesInv, MovedOnce, moved

(* What holds of x once the script at work is through with it. *)
MovedThrough(x) ==
  /\ job.phase = "attempts" /\ x \in Mapped => copied[x] = 1 \/ x \in synced
  /\ job.phase = "levels" /\ LevelOf[x] # Unmapped => \E l \in levels : SameName(l, LevelOf[x])
  /\ job.phase = "subjects" /\ CourseOf[x] # Unmapped => x \in job.known
  /\ job.phase = "exams" /\ SubjectOf[x] # Unmapped /\ CourseOf[SubjectOf[x]] # Unmapped =>
       There(CourseOf[SubjectOf[x]], x)
  /\ job.phase = "packages" /\ PlaceOf[x] # Unmapped => There(PlaceOf[x], x)

LEMMA ThroughKeeps ==
  ASSUME MovesInv, NEW x \in job.todo,
         IsJob(job)', job'.found = {}, job'.todo = job.todo \ {x},
         job'.script = job.script, job'.phase = job.phase, job.known \subseteq job'.known,
         spoiled' = spoiled, synced' = synced, levels \subseteq levels', contents \subseteq contents',
         copied' \in [Sitting -> Nat], \A a \in Sitting : copied[a] = 1 => copied'[a] = 1,
         MovedOnce', MovedThrough(x)'
  PROVE  MovesInv'
<1>1. JobOK'
  BY DEF MovesInv, JobOK, PhasesOK
<1>2. \A c, y : There(c, y) => There(c, y)'
  BY DEF There, Filled
<1>3. MovedSoFar'
  <2>1. job'.script = "attempts" => \A a \in Mapped \ job'.todo : copied'[a] = 1 \/ a \in synced'
    BY MovesAssumption DEF MovesInv, MovedSoFar, MovedThrough, JobOK, PhasesOK
  <2>2. job'.script = "levels" => \A c \in ClassLevel \ job'.todo :
          LevelOf[c] # Unmapped => \E l \in levels' : SameName(l, LevelOf[c])
    BY DEF MovesInv, MovedSoFar, MovedThrough, JobOK, PhasesOK
  <2>3. job'.script = "subjects" => \A s \in CoursesThrough' : CourseOf[s] # Unmapped => s \in job'.known
    BY DEF MovesInv, MovedSoFar, MovedThrough, CoursesThrough
  <2>4. ASSUME job'.script = "subjects", ~spoiled', NEW e \in ExamsThrough',
               SubjectOf[e] # Unmapped, CourseOf[SubjectOf[e]] # Unmapped
        PROVE  There(CourseOf[SubjectOf[e]], e)'
    BY <1>2, <2>4 DEF MovesInv, MovedSoFar, MovedThrough, ExamsThrough
  <2>5. ASSUME job'.script = "subjects", ~spoiled', NEW k \in PackagesThrough', PlaceOf[k] # Unmapped
        PROVE  There(PlaceOf[k], k)'
    BY <1>2, <2>5 DEF MovesInv, MovedSoFar, MovedThrough, PackagesThrough
  <2> QED
    BY <2>1, <2>2, <2>3, <2>4, <2>5 DEF MovedSoFar
<1> QED
  BY <1>1, <1>3 DEF MovesInv

LEMMA SkipKeeps ==
  ASSUME MovesInv, NEW x \in job.todo, Skip(x), MovedThrough(x)
  PROVE  MovesInv'
<1>1. /\ IsJob(job)' /\ job'.found = {} /\ job'.todo = job.todo \ {x}
      /\ job'.script = job.script /\ job'.phase = job.phase /\ job'.known = job.known
  BY PastIs DEF MovesInv, JobOK, Skip
<1>2. UNCHANGED <<moved, spoiled>>
  BY DEF Skip
<1>3. MovedThrough(x)'
  BY <1>1, <1>2 DEF MovedThrough, There, Filled, moved
<1> QED
  BY <1>1, <1>2, <1>3, ThroughKeeps DEF MovesInv, MovedOnce, moved

LEMMA SubjectsKeep ==
  ASSUME MovesInv, NEW s \in Subject, LookSubject(s) \/ CreateCourseOf(s)
  PROVE  MovesInv'
<1>1. CASE LookSubject(s)
  <2>1. s \in job.todo /\ job.phase = "subjects"
    BY <1>1 DEF LookSubject, Doing
  <2>2. CASE CourseOf[s] = Unmapped
    <3>1. Skip(s) /\ MovedThrough(s)
      BY <1>1, <2>1, <2>2 DEF LookSubject, MovedThrough
    <3> QED
      BY <2>1, <3>1, SkipKeeps
  <2>3. CASE CourseOf[s] # Unmapped /\ CourseOf[s] \in courses
    <3>1. KnownWhenFound(s) /\ UNCHANGED <<moved, spoiled>>
      BY <1>1, <2>3 DEF LookSubject
    <3>2. /\ IsJob(job)' /\ job'.found = {} /\ job'.todo = job.todo \ {s}
          /\ job'.script = job.script /\ job'.phase = job.phase /\ job'.known = job.known \cup {s}
      BY <3>1, KnownIs DEF KnownWhenFound, MovesInv, JobOK
    <3>3. MovedThrough(s)'
      BY <2>1, <3>2 DEF MovedThrough
    <3> QED
      BY <2>1, <3>1, <3>2, <3>3, ThroughKeeps DEF MovesInv, MovedOnce, moved
  <2>4. CASE CourseOf[s] # Unmapped /\ CourseOf[s] \notin courses
    <3>1. Missing(s, CourseOf[s])
      BY <1>1, <2>4 DEF LookSubject
    <3>2. FoundRight([of |-> s, doc |-> CourseOf[s]])
      BY <2>1 DEF FoundRight
    <3> QED
      BY <2>1, <3>1, <3>2, MissingKeeps
  <2> QED
    BY <2>2, <2>3, <2>4
<1>2. CASE CreateCourseOf(s)
  <2>1. s \in job.todo /\ job.phase = "subjects"
    BY <1>2, NewDocIs DEF CreateCourseOf, MovesInv
  <2>2. /\ IsJob(job)' /\ job'.found = {} /\ job'.todo = job.todo \ {s}
        /\ job'.script = job.script /\ job'.phase = job.phase /\ job'.known = job.known \cup {s}
    BY <1>2, KnownIs DEF CreateCourseOf, MovesInv, JobOK
  <2>3. MovedThrough(s)'
    BY <2>1, <2>2 DEF MovedThrough
  <2> QED
    BY <1>2, <2>1, <2>2, <2>3, ThroughKeeps DEF CreateCourseOf, MovesInv, MovedOnce
<1> QED
  BY <1>1, <1>2

(* Content goes where it is due, and is there once.                        *)
LEMMA ContentKeeps ==
  ASSUME MovesInv, NEW phase \in {"exams", "packages"}, NEW x, NEW c, NEW place,
         place = IF phase = "exams" THEN CourseOf[SubjectOf[x]] ELSE PlaceOf[x],
         c # Unmapped => c = place,
         c = Unmapped /\ phase = "exams" =>
           SubjectOf[x] = Unmapped \/ CourseOf[SubjectOf[x]] = Unmapped,
         c = Unmapped /\ phase = "packages" => PlaceOf[x] = Unmapped,
         LookContent(phase, x, c) \/ CreateContentOf(phase, x)
  PROVE  MovesInv'
<1>1. CASE LookContent(phase, x, c)
  <2>1. x \in job.todo /\ job.phase = phase
    BY <1>1 DEF LookContent, Doing
  <2>2. CASE c = Unmapped \/ There(c, x)
    <3>1. Skip(x)
      BY <1>1, <2>2 DEF LookContent
    <3>2. MovedThrough(x)
      BY <2>1, <2>2 DEF MovedThrough
    <3> QED
      BY <2>1, <3>1, <3>2, SkipKeeps
  <2>3. CASE ~(c = Unmapped \/ There(c, x))
    <3> DEFINE doc == [course |-> c, item |-> x, order |-> Cardinality(Filled(c)) + 1, scripted |-> TRUE]
    <3>1. Missing(x, doc)
      BY <1>1, <2>3 DEF LookContent
    <3>2. doc.course = c /\ doc.item = x /\ doc.scripted
      OBVIOUS
    <3> HIDE DEF doc
    <3>3. ContentDue([of |-> x, doc |-> doc], x, place)
      BY <2>3, <3>2 DEF ContentDue, There, Filled
    <3>4. FoundRight([of |-> x, doc |-> doc])
      BY <2>1, <3>3 DEF FoundRight
    <3> QED
      BY <2>1, <3>1, <3>4, MissingKeeps
  <2> QED
    BY <2>2, <2>3
<1>2. CASE CreateContentOf(phase, x)
  <2>1. PICK f \in job.found : f.of = x /\ f.doc = NewDoc /\ FoundRight(f)
    BY <1>2, NewDocIs DEF CreateContentOf, MovesInv
  <2>2. x \in job.todo /\ job.phase = phase
    BY <1>2, NewDocIs DEF CreateContentOf, MovesInv
  <2>3. ContentDue(f, x, place)
    BY <2>1, <2>2 DEF FoundRight
  <2>4. /\ IsJob(job)' /\ job'.found = {} /\ job'.todo = job.todo \ {x}
        /\ job'.script = job.script /\ job'.phase = job.phase /\ job'.known = job.known
    BY <1>2, PastIs DEF CreateContentOf, MovesInv, JobOK
  <2>5. contents' = contents \cup {f.doc}
    BY <1>2, <2>1 DEF CreateContentOf
  <2>6. MovedOnce'
    BY <1>2, <2>3, <2>5 DEF MovesInv, MovedOnce, ContentDue, CreateContentOf
  <2>7. There(place, x)'
    BY <2>3, <2>5 DEF ContentDue, There, Filled
  <2>8. MovedThrough(x)'
    BY <2>2, <2>4, <2>7 DEF MovedThrough
  <2> QED
    BY <1>2, <2>2, <2>4, <2>5, <2>6, <2>8, ThroughKeeps DEF CreateContentOf, MovesInv
<1> QED
  BY <1>1, <1>2

LEMMA ExamsKeep ==
  ASSUME MovesInv, NEW e \in Exam, MoveExam(e)
  PROVE  MovesInv'
<1>1. ExamPlace(e) # Unmapped => ExamPlace(e) = CourseOf[SubjectOf[e]]
  BY DEF ExamPlace
<1>2. ASSUME job.phase = "exams", ExamPlace(e) = Unmapped
      PROVE  SubjectOf[e] = Unmapped \/ CourseOf[SubjectOf[e]] = Unmapped
  <2>1. job.script = "subjects" /\ CoursesThrough = Subject
    BY <1>2 DEF MovesInv, JobOK, PhasesOK, CoursesThrough
  <2>2. SubjectOf[e] \in Subject \cup {Unmapped}
    BY MovesAssumption
  <2> QED
    BY <1>2, <2>1, <2>2 DEF MovesInv, MovedSoFar, ExamPlace
<1>3. ASSUME NEW c, ExamPlace(e) = c,
             LookContent("exams", e, c) \/ CreateContentOf("exams", e)
      PROVE  MovesInv'
  <2>1. CASE LookContent("exams", e, c)
    <3>1. job.phase = "exams"
      BY <2>1 DEF LookContent, Doing
    <3> QED
      BY <1>1, <1>2, <1>3, <3>1, ContentKeeps
  <2>2. CASE CreateContentOf("exams", e)
    <3>1. job.phase = "exams"
      BY <2>2 DEF CreateContentOf, Creating
    <3> QED
      BY <1>1, <1>2, <1>3, <3>1, ContentKeeps
  <2> QED
    BY <1>3, <2>1, <2>2
<1> QED
  BY <1>3 DEF MoveExam

LEMMA PackagesKeep ==
  ASSUME MovesInv, NEW k \in Package, MovePackage(k)
  PROVE  MovesInv'
<1>1. ASSUME NEW c, PlaceOf[k] = c, LookContent("packages", k, c) \/ CreateContentOf("packages", k)
      PROVE  MovesInv'
  BY <1>1, ContentKeeps
<1> QED
  BY <1>1 DEF MovePackage

LEMMA SittingsKeep ==
  ASSUME MovesInv, NEW a \in Sitting, LookSitting(a) \/ CreateAttempt(a)
  PROVE  MovesInv'
<1>0. copied[a] \in Nat /\ copied[a] <= 1
  BY DEF MovesInv, MovedOnce
<1>1. CASE LookSitting(a)
  <2>1. a \in job.todo /\ job.phase = "attempts"
    BY <1>1 DEF LookSitting, Doing
  <2>2. CASE a \notin Mapped \/ copied[a] > 0 \/ a \in synced
    <3>1. Skip(a) /\ MovedThrough(a)
      BY <1>0, <1>1, <2>1, <2>2 DEF LookSitting, MovedThrough
    <3> QED
      BY <2>1, <3>1, SkipKeeps
  <2>3. CASE ~(a \notin Mapped \/ copied[a] > 0 \/ a \in synced)
    <3>1. Missing(a, a)
      BY <1>1, <2>3 DEF LookSitting
    <3>2. FoundRight([of |-> a, doc |-> a])
      BY <1>0, <2>1, <2>3 DEF FoundRight
    <3> QED
      BY <2>1, <3>1, <3>2, MissingKeeps
  <2> QED
    BY <2>2, <2>3
<1>2. CASE CreateAttempt(a)
  <2>1. a \in job.todo /\ job.phase = "attempts" /\ copied[a] = 0
    BY <1>2, NewDocIs DEF CreateAttempt, MovesInv, FoundRight
  <2>2. /\ IsJob(job)' /\ job'.found = {} /\ job'.todo = job.todo \ {a}
        /\ job'.script = job.script /\ job'.phase = job.phase /\ job'.known = job.known
    BY <1>2, PastIs DEF CreateAttempt, MovesInv, JobOK
  <2>3. /\ copied' \in [Sitting -> Nat] /\ copied'[a] = 1
        /\ \A b \in Sitting : b # a => copied'[b] = copied[b]
    BY <1>2, <2>1 DEF CreateAttempt, MovesInv
  <2>4. MovedOnce' /\ MovedThrough(a)'
    BY <1>2, <2>1, <2>2, <2>3 DEF CreateAttempt, MovesInv, MovedOnce, MovedThrough
  <2> QED
    BY <1>2, <2>1, <2>2, <2>3, <2>4, ThroughKeeps DEF CreateAttempt
<1> QED
  BY <1>1, <1>2

LEMMA LevelsKeep ==
  ASSUME MovesInv, NEW c \in ClassLevel, LookLevel(c) \/ CreateLevel(c)
  PROVE  MovesInv'
<1>1. CASE LookLevel(c)
  <2>1. c \in job.todo /\ job.phase = "levels"
    BY <1>1 DEF LookLevel, Doing
  <2>2. CASE LevelOf[c] = Unmapped \/ \E l \in levels : SameName(l, LevelOf[c])
    <3>1. Skip(c) /\ MovedThrough(c)
      BY <1>1, <2>1, <2>2 DEF LookLevel, MovedThrough
    <3> QED
      BY <2>1, <3>1, SkipKeeps
  <2>3. CASE ~(LevelOf[c] = Unmapped \/ \E l \in levels : SameName(l, LevelOf[c]))
    <3>1. Missing(c, LevelOf[c])
      BY <1>1, <2>3 DEF LookLevel
    <3>2. FoundRight([of |-> c, doc |-> LevelOf[c]])
      BY <2>1 DEF FoundRight
    <3> QED
      BY <2>1, <3>1, <3>2, MissingKeeps
  <2> QED
    BY <2>2, <2>3
<1>2. CASE CreateLevel(c)
  <2>1. c \in job.todo /\ job.phase = "levels" /\ NewDoc = LevelOf[c]
    BY <1>2, NewDocIs DEF CreateLevel, MovesInv, FoundRight
  <2>2. /\ IsJob(job)' /\ job'.found = {} /\ job'.todo = job.todo \ {c}
        /\ job'.script = job.script /\ job'.phase = job.phase /\ job'.known = job.known
    BY <1>2, PastIs DEF CreateLevel, MovesInv, JobOK
  <2>3. MovedThrough(c)'
    BY <1>2, <2>1, <2>2 DEF CreateLevel, MovedThrough, SameName
  <2> QED
    BY <1>2, <2>1, <2>2, <2>3, ThroughKeeps DEF CreateLevel, MovesInv, MovedOnce
<1> QED
  BY <1>1, <1>2

LEMMA EndPhaseKeeps ==
  ASSUME MovesInv, EndPhase
  PROVE  MovesInv'
<1>1. /\ job.phase \notin {"none", "done"} /\ job.todo = {} /\ job.found = {}
      /\ UNCHANGED <<moved, spoiled>>
  BY DEF EndPhase, MovesInv, JobOK
<1>2. /\ IsJob(job)' /\ job'.found = {} /\ job'.script = job.script /\ job'.known = job.known
      /\ job'.phase = Following(job.phase) /\ job'.todo = WorkOf(Following(job.phase))
  BY <1>1 DEF EndPhase, MovesInv, JobOK, IsJob, JobFields
<1>3. /\ job.phase = "subjects" => job'.phase = "exams" /\ job'.todo = Exam
      /\ job.phase = "exams" => job'.phase = "packages" /\ job'.todo = Package
      /\ job.phase \in {"packages", "attempts", "levels"} => job'.phase = "done" /\ job'.todo = {}
  BY <1>2 DEF Following, WorkOf
<1>4. JobOK'
  BY <1>1, <1>2, <1>3 DEF MovesInv, JobOK, PhasesOK
<1>5. MovedSoFar'
  BY <1>1, <1>2, <1>3
  DEF MovesInv, JobOK, PhasesOK, MovedSoFar, CoursesThrough, ExamsThrough, PackagesThrough, There,
      Filled, moved
<1> QED
  BY <1>1, <1>4, <1>5 DEF MovesInv, MovedOnce, moved

LEMMA NoJobIs ==
  IsJob(NoJob) /\ NoJob.script = "none" /\ NoJob.phase = "none" /\ NoJob.found = {}
<1> QED
  BY DEF NoJob, IsJob, JobFields

LEMMA StartKeeps ==
  ASSUME MovesInv, Start("subjects", Subject) \/ Start("attempts", Sitting) \/ Start("levels", ClassLevel)
  PROVE  MovesInv'
<1>1. ASSUME NEW phase \in {"subjects", "attempts", "levels"}, NEW todo, Start(phase, todo),
             phase = "subjects" => todo = Subject,
             phase = "attempts" => todo = Sitting,
             phase = "levels" => todo = ClassLevel
      PROVE  MovesInv'
  <2>1. /\ IsJob(job)' /\ job'.script = phase /\ job'.phase = phase /\ job'.todo = todo
        /\ job'.found = {} /\ UNCHANGED moved
    BY <1>1 DEF Start, NoJob, IsJob, JobFields
  <2>2. JobOK'
    BY <2>1 DEF JobOK, PhasesOK
  <2>3. MovedSoFar'
    BY <1>1, <2>1, MovesAssumption DEF MovedSoFar, CoursesThrough, ExamsThrough, PackagesThrough
  <2> QED
    BY <2>1, <2>2, <2>3 DEF MovesInv, MovedOnce, moved
<1> QED
  BY <1>1

LEMMA DieKeeps ==
  ASSUME MovesInv, Die
  PROVE  MovesInv'
<1>1. JobOK' /\ MovedSoFar'
  BY NoJobIs DEF Die, JobOK, PhasesOK, MovedSoFar
<1> QED
  BY <1>1 DEF Die, MovesInv, MovedOnce, moved

(* What the server does beside the script, and what it deletes it tells. *)
LEMMA ServerKeeps ==
  ASSUME MovesInv,
         \/ \E a \in Sitting : SyncSitting(a)
         \/ \E c \in Titles, x \in Segment \cup Exam, n \in 1..MaxOrder : AddSegment(c, x, n)
         \/ \E x \in contents : DeleteSegment(x)
  PROVE  MovesInv'
<1>1. /\ UNCHANGED <<copied, levels, job>> /\ synced \subseteq synced'
      /\ (contents \subseteq contents' /\ spoiled' = spoiled) \/ spoiled'
      /\ \A y \in contents' : y \in contents \/ ~y.scripted
  BY DEF SyncSitting, AddSegment, DeleteSegment
<1>2. JobOK'
  BY <1>1 DEF MovesInv, JobOK, PhasesOK, FoundRight, ContentDue
<1>3. MovedOnce'
  BY <1>1 DEF MovesInv, MovedOnce
<1>4. MovedSoFar'
  <2>1. ~spoiled' => ~spoiled /\ \A c, y : There(c, y) => There(c, y)'
    BY <1>1 DEF There, Filled
  <2> QED
    BY <1>1, <2>1 DEF MovesInv, MovedSoFar, CoursesThrough, ExamsThrough, PackagesThrough
<1> QED
  BY <1>1, <1>2, <1>3, <1>4 DEF MovesInv

(* However the scripts are killed and run again beside the server, what    *)
(* they are through with is there, and no copy of it was made before       *)
(* (migrate-content-to-coursecontent.js:120-260;                           *)
(* migrate-scormattempt-to-contentattempt.js:90-140).                      *)
THEOREM MovesCorrect == MovesSpec => []MovesInv
<1>1. MovesInit => MovesInv
  <2> SUFFICES ASSUME MovesInit PROVE MovesInv
    OBVIOUS
  <2>1. JobOK /\ MovedSoFar
    BY NoJobIs DEF MovesInit, JobOK, PhasesOK, MovedSoFar
  <2> QED
    BY <2>1 DEF MovesInit, MovesInv, MovedOnce
<1>2. MovesInv /\ [MovesNext]_moving => MovesInv'
  <2> SUFFICES ASSUME MovesInv, [MovesNext]_moving PROVE MovesInv'
    OBVIOUS
  <2>1. CASE UNCHANGED moving
    BY <2>1
    DEF moving, moved, MovesInv, JobOK, PhasesOK, FoundRight, ContentDue, MovedOnce, MovedSoFar,
        CoursesThrough, ExamsThrough, PackagesThrough, There, Filled
  <2>2. CASE \/ Start("subjects", Subject) \/ Start("attempts", Sitting) \/ Start("levels", ClassLevel)
             \/ EndPhase \/ Die
    BY <2>2, StartKeeps, EndPhaseKeeps, DieKeeps
  <2>3. CASE \/ \E s \in Subject : LookSubject(s) \/ CreateCourseOf(s)
             \/ \E e \in Exam : MoveExam(e)
             \/ \E k \in Package : MovePackage(k)
    BY <2>3, SubjectsKeep, ExamsKeep, PackagesKeep
  <2>4. CASE \/ \E a \in Sitting : LookSitting(a) \/ CreateAttempt(a) \/ SyncSitting(a)
             \/ \E c \in ClassLevel : LookLevel(c) \/ CreateLevel(c)
    BY <2>4, SittingsKeep, LevelsKeep, ServerKeeps
  <2>5. CASE \/ \E c \in Titles, x \in Segment \cup Exam, n \in 1..MaxOrder : AddSegment(c, x, n)
             \/ \E x \in contents : DeleteSegment(x)
    BY <2>5, ServerKeeps
  <2> QED
    BY <2>1, <2>2, <2>3, <2>4, <2>5 DEF MovesNext
<1> QED
  BY <1>1, <1>2, PTL DEF MovesSpec

(* The scripts move nothing twice, and one that is through has left        *)
(* nothing behind (migrate-content-to-coursecontent.js:190, 218;           *)
(* migrate-scormattempt-to-contentattempt.js:111).                         *)
THEOREM MovedAllOnceCorrect == MovesSpec => []MovedAllOnce
<1>1. MovesInv => MovedAllOnce
  <2> SUFFICES ASSUME MovesInv PROVE MovedAllOnce
    OBVIOUS
  <2>1. ASSUME job.phase = "done", ~spoiled
        PROVE  /\ job.script = "attempts" => \A a \in Mapped : copied[a] = 1 \/ a \in synced
               /\ job.script = "levels" =>
                    \A c \in ClassLevel : LevelOf[c] # Unmapped => \E l \in levels : SameName(l, LevelOf[c])
               /\ job.script = "subjects" =>
                    /\ \A e \in Exam : SubjectOf[e] # Unmapped /\ CourseOf[SubjectOf[e]] # Unmapped =>
                         There(CourseOf[SubjectOf[e]], e)
                    /\ \A k \in Package : PlaceOf[k] # Unmapped => There(PlaceOf[k], k)
    BY <2>1 DEF MovesInv, JobOK, MovedSoFar, ExamsThrough, PackagesThrough
  <2> QED
    BY <2>1 DEF MovesInv, JobOK, MovedAllOnce, MovedWhole
<1> QED
  BY <1>1, MovesCorrect, PTL

===============================================================================
