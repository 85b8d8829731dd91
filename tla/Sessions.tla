------------------------------- MODULE Sessions -------------------------------
(***************************************************************************)
(* Logging in (auth.py, routers/auth.py, interfaces/auth.py) and the       *)
(* accounts of the web application (the users of system.py).  A login      *)
(* gives a token at once, or a code to be exchanged for one; a token       *)
(* carries the role its user had when it was issued, and nobody takes it   *)
(* back.  The accounts are a section of system.yaml, edited in the staged  *)
(* overlay by administrators.                                              *)
(*                                                                         *)
(* Whether a password is right is PAM's affair, and so is who belongs to   *)
(* the groups of the system.  Times are counted in a unit of which a code  *)
(* and a token live a few.                                                 *)
(***************************************************************************)
EXTENDS Naturals

CONSTANTS
  User,
  Grouped,     \* users in the group roostos, sudo or wheel
  Service,     \* entities with a client certificate
  Client,      \* redirect URIs
  None,
  CodeLife, TokenLife,
  MaxTime,     \* bound: the clock
  MaxLogins    \* bound: logins

VARIABLES
  now,
  active, staged,  \* the role of every account; staged may be None
  logins,      \* the number of logins so far
  codes,       \* _auth_codes: of each login, the code it was given
  tokens,      \* of each login, the token that was issued for it
  issued,      \* history: how many
  admin        \* history: when each user was last an administrator

accounts == <<active, staged>>
vars == <<now, accounts, logins, codes, tokens, issued, admin>>

Role == {"admin", "parent", "member"}
Users == [User -> Role \cup {None}]
Login == 1 .. MaxLogins
Time == 0 .. MaxTime + CodeLife + TokenLife

SessionsAssumption ==
  /\ Grouped \subseteq User
  /\ CodeLife \in Nat /\ TokenLife \in Nat /\ MaxTime \in Nat /\ MaxLogins \in Nat
  /\ None \notin Users

Code == [user : User, client : Client, expires : Time]
Token == [sub : User \cup Service, role : Role \cup {"service"}, expires : Time]

TypeOK ==
  /\ now \in 0 .. MaxTime
  /\ active \in Users /\ (staged = None \/ staged \in Users)
  /\ logins \in 0 .. MaxLogins
  /\ codes \in [Login -> Code \cup {None}]
  /\ tokens \in [Login -> Token \cup {None}]
  /\ issued \in [Login -> 0 .. 2]
  /\ admin \in [User -> Time]

-----------------------------------------------------------------------------
View == IF staged # None THEN staged ELSE active

\* PAMAuthProvider.resolve_role: a member of the groups is an administrator; another has
\* the role of the account, and without one is a member.
ResolvedRole(u) ==
  IF u \in Grouped THEN "admin"
  ELSE IF View[u] # None THEN View[u]
  ELSE "member"

\* create_access_token
Issue(l, sub, role) ==
  /\ tokens' = [tokens EXCEPT ![l] = [sub |-> sub, role |-> role, expires |-> now + TokenLife]]
  /\ issued' = [issued EXCEPT ![l] = @ + 1]

\* The password is right: a code for the client, ...
Authorize(u, c) ==
  /\ logins < MaxLogins
  /\ logins' = logins + 1
  /\ codes' = [codes EXCEPT ![logins'] = [user |-> u, client |-> c, expires |-> now + CodeLife]]
  /\ UNCHANGED <<now, accounts, tokens, issued, admin>>

\* ... or a token.
LogIn(u) ==
  /\ logins < MaxLogins
  /\ logins' = logins + 1
  /\ Issue(logins', u, ResolvedRole(u))
  /\ UNCHANGED <<now, accounts, codes, admin>>

\* A client certificate verifies.
PresentCertificate(s) ==
  /\ logins < MaxLogins
  /\ logins' = logins + 1
  /\ Issue(logins', s, "service")
  /\ UNCHANGED <<now, accounts, codes, admin>>

\* Mutant: the code is looked up and not taken.
Kept(l) == UNCHANGED codes

Consumed(l) == codes' = [codes EXCEPT ![l] = None]

\* validate_authorization_record: the code is there, for this client, and not expired.
\* It is gone then, also if the configuration turns out not to load.
Exchange(l, c) ==
  /\ codes[l] # None /\ codes[l].client = c /\ now <= codes[l].expires
  /\ issued[l] < 2  \* bound
  /\ Consumed(l)
  /\ \/ Issue(l, codes[l].user, ResolvedRole(codes[l].user))
     \/ UNCHANGED <<tokens, issued>>
  /\ UNCHANGED <<now, accounts, logins, admin>>

\* An expired code is dropped when somebody brings it.
ExchangeLate(l) ==
  /\ codes[l] # None /\ now > codes[l].expires
  /\ codes' = [codes EXCEPT ![l] = None]
  /\ UNCHANGED <<now, accounts, logins, tokens, issued, admin>>

-----------------------------------------------------------------------------
(* What a session may do. *)

\* get_current_user: the signature is good and the token has not expired.
Accepted(l) == tokens[l] # None /\ now < tokens[l].expires

\* get_current_admin: the role in the token, whatever the account has become.
Administrator(l) == Accepted(l) /\ tokens[l].role = "admin"

IsAdmin(users) == {u \in User : u \in Grouped \/ users[u] = "admin"}

\* The users who are administrators now are noted with the time.
Noted(users) == admin' = [u \in User |-> IF u \in IsAdmin(View) \cup IsAdmin(users) THEN now ELSE admin[u]]

Stage(users) ==
  /\ staged' = users
  /\ Noted(users)
  /\ UNCHANGED <<now, active, logins, codes, tokens, issued>>

SaveUser(l, u, role) ==
  /\ Administrator(l)
  /\ Stage([View EXCEPT ![u] = role])

\* Nobody deletes himself, or the last administrator.
DeleteUser(l, u) ==
  /\ Administrator(l)
  /\ tokens[l].sub # u
  /\ \E v \in User \ {u} : View[v] = "admin"
  /\ Stage([View EXCEPT ![u] = None])

Commit ==
  /\ staged # None
  /\ active' = staged /\ staged' = None
  /\ UNCHANGED <<now, logins, codes, tokens, issued, admin>>

Discard ==
  /\ staged # None
  /\ staged' = None
  /\ Noted(active)
  /\ UNCHANGED <<now, active, logins, codes, tokens, issued>>

Tick ==
  /\ now < MaxTime
  /\ now' = now + 1
  /\ admin' = [u \in User |-> IF u \in IsAdmin(View) THEN now + 1 ELSE admin[u]]
  /\ UNCHANGED <<accounts, logins, codes, tokens, issued>>

Init ==
  /\ now = 0
  /\ active \in Users /\ staged = None
  /\ \E u \in User : active[u] = "admin"
  /\ logins = 0
  /\ codes = [l \in Login |-> None]
  /\ tokens = [l \in Login |-> None]
  /\ issued = [l \in Login |-> 0]
  /\ admin = [u \in User |-> 0]

Next ==
  \/ \E u \in User : LogIn(u) \/ \E c \in Client : Authorize(u, c)
  \/ \E s \in Service : PresentCertificate(s)
  \/ \E l \in Login :
       \/ ExchangeLate(l)
       \/ \E c \in Client : Exchange(l, c)
       \/ \E u \in User : DeleteUser(l, u) \/ \E role \in Role : SaveUser(l, u, role)
  \/ Commit \/ Discard \/ Tick

Spec == Init /\ [][Next]_vars

-----------------------------------------------------------------------------
(* Properties. *)

\* A login gives at most one session, and a session has rights of an administrator only
\* until TokenLife after its user has ceased to be one, however long the code lay about,
\* and whichever way the accounts went through staging, commit and discard.
RightsExpire ==
  \A l \in Login :
    /\ issued[l] <= 1
    /\ Administrator(l) => now < admin[tokens[l].sub] + TokenLife
=============================================================================
