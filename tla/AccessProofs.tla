---------------------------- MODULE AccessProofs ----------------------------
(***************************************************************************)
(* Who gets in, and with what: Sessions, DomainAccounts, EdgeTokens and    *)
(* Certificates, for any users, people, tokens, clients and domains. The   *)
(* results at the end are of the behaviours of Components, and rest on     *)
(* nothing but ComponentsAssumption.                                       *)
(***************************************************************************)
EXTENDS Components, Sequences, TLAPS

-----------------------------------------------------------------------------
(* Sessions. *)

\* Who is an administrator is noted as one now, and nobody in the future.
Current ==
  /\ \A u \in User : admin[u] <= now
  /\ \A u \in Sessions!IsAdmin(Sessions!View) : admin[u] = now

\* A login has a code, or a session, or had them; none before it.
OneEach ==
  \A l \in 1 .. MaxLogins :
    /\ issued[l] = 0 \/ (issued[l] = 1 /\ codes[l] = None)
    /\ l > logins => issued[l] = 0 /\ codes[l] = None

\* A token with the role of an administrator is a user's who was one when it was issued.
Earned ==
  \A l \in 1 .. MaxLogins :
    tokens[l] # None /\ tokens[l].role = "admin" =>
      tokens[l].sub \in User /\ tokens[l].expires <= admin[tokens[l].sub] + TokenLife

SessionsInv == Sessions!TypeOK /\ Current /\ OneEach /\ Earned

\* The accounts in force do not matter to who is noted but through Noted.
LEMMA NotedCurrent ==
  ASSUME Sessions!SessionsAssumption, SessionsInv, NEW accounts \in Sessions!Users,
         Sessions!Noted(accounts), now' = now, Sessions!View' = accounts, UNCHANGED <<logins, codes, tokens, issued>>
  PROVE  admin' \in [User -> Sessions!Time] /\ Current' /\ OneEach' /\ Earned'
<1>1. admin' = [u \in User |-> IF u \in Sessions!IsAdmin(Sessions!View) \cup Sessions!IsAdmin(accounts)
                                THEN now ELSE admin[u]]
  BY DEF Sessions!Noted
<1>2. admin \in [User -> Sessions!Time] /\ now \in Sessions!Time /\ \A t \in Sessions!Time : t \in Nat
  BY DEF SessionsInv, Sessions!TypeOK, Sessions!Time, Sessions!SessionsAssumption
<1>3. admin' \in [User -> Sessions!Time] /\ \A u \in User : admin[u] <= admin'[u] /\ admin'[u] <= now
  BY <1>1, <1>2 DEF SessionsInv, Current, Sessions!Time
<1>4. Current'
  <2>1. \A u \in User : u \in Sessions!IsAdmin(accounts) => admin'[u] = now
    BY <1>1
  <2>2. Sessions!IsAdmin(Sessions!View)' = Sessions!IsAdmin(accounts)
    BY DEF Sessions!IsAdmin
  <2> QED BY <1>3, <2>1, <2>2 DEF Current, Sessions!IsAdmin
<1>5. Earned'
  <2> SUFFICES ASSUME NEW l \in 1 .. MaxLogins, tokens[l] # None, tokens[l].role = "admin"
               PROVE  tokens[l].sub \in User /\ tokens[l].expires <= admin'[tokens[l].sub] + TokenLife
    BY DEF Earned
  <2>1. tokens[l].sub \in User /\ tokens[l].expires <= admin[tokens[l].sub] + TokenLife
    BY DEF SessionsInv, Earned
  <2>2. tokens[l].expires \in Sessions!Time
    BY DEF SessionsInv, Sessions!TypeOK, Sessions!Login, Sessions!Token
  <2> QED BY <1>2, <1>3, <2>1, <2>2 DEF Sessions!SessionsAssumption
<1> QED BY <1>3, <1>4, <1>5 DEF SessionsInv, OneEach

\* A token that is issued for the first time, with the role its user has now.
LEMMA IssueEarned ==
  ASSUME Sessions!SessionsAssumption, SessionsInv, NEW l \in 1 .. MaxLogins, NEW sub \in User \cup Service,
         NEW role \in Sessions!Role \cup {"service"}, Sessions!Issue(l, sub, role),
         role = "admin" => sub \in User /\ admin[sub] = now,
         issued[l] = 0, UNCHANGED <<now, admin>>
  PROVE  /\ tokens' \in [Sessions!Login -> Sessions!Token \cup {None}]
         /\ issued' \in [Sessions!Login -> 0 .. 2]
         /\ issued'[l] = 1
         /\ \A k \in 1 .. MaxLogins : k # l => issued'[k] = issued[k]
         /\ Earned'
<1> DEFINE new == [sub |-> sub, role |-> role, expires |-> now + TokenLife]
<1>1. now \in 0 .. MaxTime /\ tokens \in [1 .. MaxLogins -> Sessions!Token \cup {None}]
      /\ issued \in [1 .. MaxLogins -> 0 .. 2]
  BY DEF SessionsInv, Sessions!TypeOK, Sessions!Login
<1>2. new \in Sessions!Token
  BY <1>1 DEF Sessions!Token, Sessions!Time, Sessions!SessionsAssumption
<1>3. tokens' = [tokens EXCEPT ![l] = new] /\ issued' = [issued EXCEPT ![l] = @ + 1]
  BY DEF Sessions!Issue
<1>4. new.sub = sub /\ new.role = role /\ new.expires = now + TokenLife
  OBVIOUS
<1> HIDE DEF new
<1>5. Earned'
  <2> SUFFICES ASSUME NEW k \in 1 .. MaxLogins, tokens'[k] # None, tokens'[k].role = "admin"
               PROVE  tokens'[k].sub \in User /\ tokens'[k].expires <= admin[tokens'[k].sub] + TokenLife
    BY DEF Earned
  <2>1. CASE k = l
    <3>1. tokens'[k] = new
      BY <1>1, <1>3, <2>1
    <3> QED BY <1>1, <1>4, <3>1 DEF Sessions!SessionsAssumption
  <2>2. CASE k # l
    <3>1. tokens'[k] = tokens[k]
      BY <1>1, <1>3, <2>2
    <3> QED BY <3>1 DEF SessionsInv, Earned
  <2> QED BY <2>1, <2>2
<1> QED BY <1>1, <1>2, <1>3, <1>5 DEF Sessions!Login

\* The role that PAM and the accounts give a user now.
LEMMA RoleCurrent ==
  ASSUME SessionsInv, NEW u \in User
  PROVE  /\ Sessions!ResolvedRole(u) \in Sessions!Role
         /\ Sessions!ResolvedRole(u) = "admin" => admin[u] = now
<1>1. Sessions!View \in Sessions!Users
  BY DEF SessionsInv, Sessions!TypeOK, Sessions!View
<1> QED BY <1>1 DEF SessionsInv, Current, Sessions!ResolvedRole, Sessions!IsAdmin, Sessions!Users, Sessions!Role

LEMMA SessionsHold ==
  ASSUME Sessions!SessionsAssumption
  PROVE  Sessions!Spec => [](Sessions!TypeOK /\ Sessions!RightsExpire)
<1>1. Sessions!Init => SessionsInv
  <2> SUFFICES ASSUME Sessions!Init
               PROVE  SessionsInv
    OBVIOUS
  <2>1. Sessions!TypeOK
    BY DEF Sessions!Init, Sessions!TypeOK, Sessions!SessionsAssumption, Sessions!Time
  <2>2. Current
    BY DEF Sessions!Init, Current, Sessions!IsAdmin
  <2>3. OneEach
    BY DEF Sessions!Init, OneEach, Sessions!Login
  <2>4. Earned
    BY DEF Sessions!Init, Earned, Sessions!Login
  <2> QED BY <2>1, <2>2, <2>3, <2>4 DEF SessionsInv
<1>2. SessionsInv /\ [Sessions!Next]_Sessions!vars => SessionsInv'
  <2> SUFFICES ASSUME SessionsInv, [Sessions!Next]_Sessions!vars
               PROVE  SessionsInv'
    OBVIOUS
  <2> USE DEF Sessions!accounts
  <2>1. Sessions!TypeOK /\ Current /\ OneEach /\ Earned
    BY DEF SessionsInv
  <2>2. Sessions!View \in Sessions!Users /\ active \in Sessions!Users
        /\ (staged # None => staged \in Sessions!Users)
    BY <2>1 DEF Sessions!TypeOK, Sessions!View
  <2>3. CASE UNCHANGED Sessions!vars
    BY <2>1, <2>3 DEF Sessions!vars, SessionsInv, Sessions!TypeOK, Current, OneEach, Earned, Sessions!IsAdmin,
       Sessions!View
  <2>4. ASSUME UNCHANGED <<active, staged, now, admin>>
        PROVE  Current'
    BY <2>1, <2>4 DEF Current, Sessions!IsAdmin, Sessions!View
  <2>5. ASSUME UNCHANGED <<tokens, now, admin>>
        PROVE  Earned'
    BY <2>1, <2>5 DEF Earned
  <2>6. ASSUME NEW u \in User, Sessions!LogIn(u)
        PROVE  SessionsInv'
    <3>1. logins' = logins + 1 /\ logins' \in 1 .. MaxLogins /\ logins \in Nat
      BY <2>1, <2>6 DEF Sessions!LogIn, Sessions!TypeOK, Sessions!SessionsAssumption
    <3> DEFINE l == logins'
    <3>2. issued[l] = 0 /\ codes[l] = None
      BY <2>1, <3>1 DEF OneEach
    <3>3. Sessions!Issue(l, u, Sessions!ResolvedRole(u)) /\ UNCHANGED <<now, active, staged, codes, admin>>
      BY <2>6 DEF Sessions!LogIn
    <3>4. l \in 1 .. MaxLogins
      BY <3>1
    <3> HIDE DEF l
    <3>5. /\ tokens' \in [Sessions!Login -> Sessions!Token \cup {None}]
          /\ issued' \in [Sessions!Login -> 0 .. 2]
          /\ issued'[l] = 1
          /\ \A k \in 1 .. MaxLogins : k # l => issued'[k] = issued[k]
          /\ Earned'
      BY <3>2, <3>3, <3>4, RoleCurrent, IssueEarned
    <3>6. OneEach'
      BY <2>1, <3>1, <3>2, <3>3, <3>5 DEF OneEach, l
    <3> QED BY <2>1, <2>4, <3>1, <3>3, <3>5, <3>6 DEF SessionsInv, Sessions!TypeOK
  <2>7. ASSUME NEW sub \in Service, Sessions!PresentCertificate(sub)
        PROVE  SessionsInv'
    <3>1. logins' = logins + 1 /\ logins' \in 1 .. MaxLogins /\ logins \in Nat
      BY <2>1, <2>7 DEF Sessions!PresentCertificate, Sessions!TypeOK, Sessions!SessionsAssumption
    <3> DEFINE l == logins'
    <3>2. issued[l] = 0 /\ codes[l] = None
      BY <2>1, <3>1 DEF OneEach
    <3>3. Sessions!Issue(l, sub, "service") /\ UNCHANGED <<now, active, staged, codes, admin>>
      BY <2>7 DEF Sessions!PresentCertificate
    <3>4. l \in 1 .. MaxLogins
      BY <3>1
    <3> HIDE DEF l
    <3>5. /\ tokens' \in [Sessions!Login -> Sessions!Token \cup {None}]
          /\ issued' \in [Sessions!Login -> 0 .. 2]
          /\ issued'[l] = 1
          /\ \A k \in 1 .. MaxLogins : k # l => issued'[k] = issued[k]
          /\ Earned'
      BY <3>2, <3>3, <3>4, IssueEarned
    <3>6. OneEach'
      BY <2>1, <3>1, <3>2, <3>3, <3>5 DEF OneEach, l
    <3> QED BY <2>1, <2>4, <3>1, <3>3, <3>5, <3>6 DEF SessionsInv, Sessions!TypeOK
  <2>8. ASSUME NEW u \in User, NEW c \in Client, Sessions!Authorize(u, c)
        PROVE  SessionsInv'
    <3> DEFINE code == [user |-> u, client |-> c, expires |-> now + CodeLife]
    <3>1. logins' = logins + 1 /\ logins' \in 1 .. MaxLogins /\ logins \in Nat
      BY <2>1, <2>8 DEF Sessions!Authorize, Sessions!TypeOK, Sessions!SessionsAssumption
    <3>2. codes' = [codes EXCEPT ![logins'] = code] /\ UNCHANGED <<now, active, staged, tokens, issued, admin>>
      BY <2>8 DEF Sessions!Authorize
    <3>3. code \in Sessions!Code
      BY <2>1 DEF Sessions!Code, Sessions!TypeOK, Sessions!Time, Sessions!SessionsAssumption
    <3> HIDE DEF code
    <3>4. codes' \in [Sessions!Login -> Sessions!Code \cup {None}]
      BY <2>1, <3>1, <3>2, <3>3 DEF Sessions!TypeOK
    <3>5. OneEach'
      BY <2>1, <3>1, <3>2 DEF OneEach, Sessions!TypeOK, Sessions!Login
    <3> QED BY <2>1, <2>4, <2>5, <3>1, <3>2, <3>4, <3>5 DEF SessionsInv, Sessions!TypeOK
  <2>9. ASSUME NEW l \in Sessions!Login, codes[l] # None, codes' = [codes EXCEPT ![l] = None],
               UNCHANGED <<now, active, staged, logins, admin>>
        PROVE  /\ codes' \in [Sessions!Login -> Sessions!Code \cup {None}] /\ codes'[l] = None
               /\ \A k \in 1 .. MaxLogins : k # l => codes'[k] = codes[k]
               /\ issued[l] = 0 /\ l \in 1 .. logins /\ l \in 1 .. MaxLogins
    BY <2>1, <2>9 DEF Sessions!TypeOK, Sessions!Login, OneEach, Sessions!SessionsAssumption
  <2>10. ASSUME NEW l \in Sessions!Login, Sessions!ExchangeLate(l)
         PROVE  SessionsInv'
    <3>1. codes[l] # None /\ codes' = [codes EXCEPT ![l] = None]
          /\ UNCHANGED <<now, active, staged, logins, tokens, issued, admin>>
      BY <2>10 DEF Sessions!ExchangeLate
    <3>2. OneEach'
      BY <2>1, <2>9, <3>1 DEF OneEach
    <3> QED BY <2>1, <2>4, <2>5, <2>9, <3>1, <3>2 DEF SessionsInv, Sessions!TypeOK
  <2>11. ASSUME NEW l \in Sessions!Login, NEW c \in Client, Sessions!Exchange(l, c)
         PROVE  SessionsInv'
    <3>1. codes[l] # None /\ codes' = [codes EXCEPT ![l] = None]
          /\ UNCHANGED <<now, active, staged, logins, admin>>
      BY <2>11 DEF Sessions!Exchange, Sessions!Consumed
    <3>2. /\ codes' \in [Sessions!Login -> Sessions!Code \cup {None}] /\ codes'[l] = None
          /\ \A k \in 1 .. MaxLogins : k # l => codes'[k] = codes[k]
          /\ issued[l] = 0 /\ l \in 1 .. logins /\ l \in 1 .. MaxLogins
      BY <2>9, <3>1
    <3>3. CASE UNCHANGED <<tokens, issued>>
      <4>1. OneEach'
        BY <2>1, <3>1, <3>2, <3>3 DEF OneEach
      <4> QED BY <2>1, <2>4, <2>5, <3>1, <3>2, <3>3, <4>1 DEF SessionsInv, Sessions!TypeOK
    <3>4. CASE Sessions!Issue(l, codes[l].user, Sessions!ResolvedRole(codes[l].user))
      <4> DEFINE u == codes[l].user
      <4>1. u \in User
        BY <2>1, <3>1 DEF Sessions!TypeOK, Sessions!Code
      <4>2. Sessions!Issue(l, u, Sessions!ResolvedRole(u))
        BY <3>4
      <4> HIDE DEF u
      <4>3. /\ tokens' \in [Sessions!Login -> Sessions!Token \cup {None}]
            /\ issued' \in [Sessions!Login -> 0 .. 2]
            /\ issued'[l] = 1
            /\ \A k \in 1 .. MaxLogins : k # l => issued'[k] = issued[k]
            /\ Earned'
        BY <3>1, <3>2, <4>1, <4>2, RoleCurrent, IssueEarned
      <4>4. OneEach'
        <5>1. \A k \in 1 .. MaxLogins : k > logins => k # l
          BY <3>2, <2>1 DEF Sessions!TypeOK
        <5> QED BY <2>1, <3>1, <3>2, <4>3, <5>1 DEF OneEach
      <4> QED BY <2>1, <2>4, <3>1, <3>2, <4>3, <4>4 DEF SessionsInv, Sessions!TypeOK
    <3> QED BY <2>11, <3>3, <3>4 DEF Sessions!Exchange
  <2>12. ASSUME NEW accounts \in Sessions!Users, Sessions!Stage(accounts)
         PROVE  SessionsInv'
    <3>1. staged' = accounts /\ Sessions!Noted(accounts) /\ UNCHANGED <<now, active, logins, codes, tokens, issued>>
      BY <2>12 DEF Sessions!Stage
    <3>2. accounts # None
      BY DEF Sessions!SessionsAssumption
    <3>3. Sessions!View' = accounts
      BY <3>1, <3>2 DEF Sessions!View
    <3>4. admin' \in [User -> Sessions!Time] /\ Current' /\ OneEach' /\ Earned'
      BY <3>1, <3>3, NotedCurrent
    <3> QED BY <2>1, <3>1, <3>4 DEF SessionsInv, Sessions!TypeOK
  <2>13. ASSUME NEW l \in Sessions!Login, NEW u \in User,
                Sessions!DeleteUser(l, u) \/ \E role \in Sessions!Role : Sessions!SaveUser(l, u, role)
         PROVE  SessionsInv'
    <3>1. PICK role \in Sessions!Role \cup {None} : Sessions!Stage([Sessions!View EXCEPT ![u] = role])
      BY <2>13 DEF Sessions!DeleteUser, Sessions!SaveUser
    <3>2. [Sessions!View EXCEPT ![u] = role] \in Sessions!Users
      BY <2>2 DEF Sessions!Users
    <3> QED BY <2>12, <3>1, <3>2
  <2>14. CASE Sessions!Commit
    <3>1. staged # None /\ active' = staged /\ staged' = None /\ UNCHANGED <<now, logins, codes, tokens, issued, admin>>
      BY <2>14 DEF Sessions!Commit
    <3>2. Sessions!View' = Sessions!View
      BY <3>1 DEF Sessions!View
    <3>3. Current'
      <4>1. Sessions!IsAdmin(Sessions!View)' = Sessions!IsAdmin(Sessions!View)
        BY <3>2 DEF Sessions!IsAdmin
      <4> QED BY <2>1, <3>1, <4>1 DEF Current
    <3> QED BY <2>1, <2>2, <2>5, <3>1, <3>3 DEF SessionsInv, Sessions!TypeOK, OneEach
  <2>15. CASE Sessions!Discard
    <3>1. staged' = None /\ Sessions!Noted(active) /\ UNCHANGED <<now, active, logins, codes, tokens, issued>>
      BY <2>15 DEF Sessions!Discard
    <3>2. Sessions!View' = active
      BY <3>1 DEF Sessions!View
    <3>3. admin' \in [User -> Sessions!Time] /\ Current' /\ OneEach' /\ Earned'
      BY <2>2, <3>1, <3>2, NotedCurrent
    <3> QED BY <2>1, <3>1, <3>3 DEF SessionsInv, Sessions!TypeOK
  <2>16. CASE Sessions!Tick
    <3>1. /\ now < MaxTime /\ now' = now + 1
          /\ admin' = [u \in User |-> IF u \in Sessions!IsAdmin(Sessions!View) THEN now + 1 ELSE admin[u]]
          /\ UNCHANGED <<active, staged, logins, codes, tokens, issued>>
      BY <2>16 DEF Sessions!Tick
    <3>2. now \in 0 .. MaxTime /\ admin \in [User -> Sessions!Time] /\ MaxTime \in Nat /\ TokenLife \in Nat
          /\ CodeLife \in Nat
      BY <2>1 DEF Sessions!TypeOK, Sessions!SessionsAssumption
    <3>3. now' \in 0 .. MaxTime /\ admin' \in [User -> Sessions!Time]
      BY <3>1, <3>2 DEF Sessions!Time
    <3>4. \A u \in User : admin[u] <= admin'[u] /\ admin'[u] <= now'
      BY <2>1, <3>1, <3>2 DEF Current, Sessions!Time
    <3>5. Current'
      <4>1. Sessions!IsAdmin(Sessions!View)' = Sessions!IsAdmin(Sessions!View)
        BY <3>1 DEF Sessions!IsAdmin, Sessions!View
      <4>2. \A u \in Sessions!IsAdmin(Sessions!View) : admin'[u] = now'
        BY <3>1 DEF Sessions!IsAdmin
      <4> QED BY <3>4, <4>1, <4>2 DEF Current
    <3>6. Earned'
      <4> SUFFICES ASSUME NEW l \in 1 .. MaxLogins, tokens[l] # None, tokens[l].role = "admin"
                   PROVE  tokens[l].sub \in User /\ tokens[l].expires <= admin'[tokens[l].sub] + TokenLife
        BY <3>1 DEF Earned
      <4>1. tokens[l].sub \in User /\ tokens[l].expires <= admin[tokens[l].sub] + TokenLife
        BY <2>1 DEF Earned
      <4>2. tokens[l].expires \in Nat
        BY <2>1, <3>2 DEF Sessions!TypeOK, Sessions!Login, Sessions!Token, Sessions!Time
      <4> QED BY <3>2, <3>3, <3>4, <4>1, <4>2 DEF Sessions!Time
    <3> QED BY <2>1, <3>1, <3>3, <3>5, <3>6 DEF SessionsInv, Sessions!TypeOK, OneEach
  <2> QED BY <2>3, <2>6, <2>7, <2>8, <2>10, <2>11, <2>13, <2>14, <2>15, <2>16 DEF Sessions!Next
<1>3. SessionsInv => Sessions!RightsExpire
  <2> SUFFICES ASSUME SessionsInv, NEW l \in 1 .. MaxLogins
               PROVE  /\ issued[l] <= 1
                      /\ Sessions!Administrator(l) => now < admin[tokens[l].sub] + TokenLife
    BY DEF Sessions!RightsExpire, Sessions!Login
  <2>1. issued[l] <= 1
    BY DEF SessionsInv, OneEach
  <2>2. ASSUME Sessions!Administrator(l)
        PROVE  now < admin[tokens[l].sub] + TokenLife
    <3>1. tokens[l] # None /\ now < tokens[l].expires /\ tokens[l].role = "admin"
      BY <2>2 DEF Sessions!Administrator, Sessions!Accepted
    <3>2. tokens[l].sub \in User /\ tokens[l].expires <= admin[tokens[l].sub] + TokenLife
      BY <3>1 DEF SessionsInv, Earned
    <3>3. tokens[l].expires \in Nat /\ now \in Nat /\ admin[tokens[l].sub] \in Nat
      BY <3>1, <3>2 DEF SessionsInv, Sessions!TypeOK, Sessions!Login, Sessions!Token, Sessions!Time,
         Sessions!SessionsAssumption
    <3> QED BY <3>1, <3>2, <3>3 DEF Sessions!SessionsAssumption
  <2> QED BY <2>1, <2>2
<1> QED BY <1>1, <1>2, <1>3, PTL DEF Sessions!Spec, SessionsInv

-----------------------------------------------------------------------------
(* Domain accounts. *)

\* Unless something came between: between requests the file is what the memory is, or was
\* never written, or was not whole when it was read.
FileFollows ==
  ~spoilt /\ memory # None /\ writing = None =>
    \/ users = memory
    \/ users = None /\ memory = Accounts!Seeded
    \/ users = Torn /\ memory = Accounts!NoAccounts

DomainInv == Accounts!TypeOK /\ (writing # None => writing = memory) /\ FileFollows

\* What the built-in account is made as.
Administrating == [role |-> "admin", person |-> None, enabled |-> TRUE, password |-> None]

\* The accounts of a file that is not there are accounts.
LEMMA SeededAre ==
  /\ Accounts!NoAccounts \in Accounts!Accounts
  /\ Accounts!Seeded \in Accounts!Accounts
  /\ Administrating \in Accounts!Record
  /\ \A name \in Accounts!Account :
       Accounts!Seeded[name] = IF name = BuiltIn THEN Administrating ELSE None
<1>1. Administrating \in Accounts!Record
  BY DEF Accounts!Record, Accounts!Role, Administrating
<1>2. Accounts!Seeded = [Accounts!NoAccounts EXCEPT ![BuiltIn] = Administrating]
  BY DEF Accounts!Seeded, Administrating
<1>3. Accounts!NoAccounts \in Accounts!Accounts /\ BuiltIn \in Accounts!Account
  BY DEF Accounts!NoAccounts, Accounts!Accounts, Accounts!Account
<1>4. \A name \in Accounts!Account : Accounts!NoAccounts[name] = None
  BY DEF Accounts!NoAccounts
<1>5. Accounts!Seeded \in Accounts!Accounts
  BY <1>1, <1>2, <1>3 DEF Accounts!Accounts
<1>6. \A name \in Accounts!Account :
        Accounts!Seeded[name] = IF name = BuiltIn THEN Administrating ELSE None
  BY <1>2, <1>3, <1>4 DEF Accounts!Accounts
<1> QED BY <1>1, <1>3, <1>5, <1>6

\* Whatever is read from the file are accounts, and all of them where none is refused.
LEMMA ReadAre ==
  ASSUME Accounts!DomainAssumption, Accounts!TypeOK, NEW accounts \in Accounts!Read
  PROVE  /\ accounts \in Accounts!Accounts /\ accounts # None /\ accounts # Reading
         /\ \/ users = None /\ accounts = Accounts!Seeded
            \/ users = Torn /\ accounts = Accounts!NoAccounts
            \/ Accounts!File /\ (Accounts!Refused(users) = {} => accounts = users)
<1>1. accounts \in Accounts!Accounts =>
        accounts # None /\ accounts # Reading
  BY DEF Accounts!DomainAssumption
<1>2. CASE users = None
  BY <1>1, <1>2, SeededAre DEF Accounts!Read
<1>3. CASE users = Torn
  BY <1>1, <1>3, SeededAre DEF Accounts!Read, Accounts!DomainAssumption
<1>4. CASE users \notin {None, Torn}
  <2>1. users \in Accounts!Accounts /\ Accounts!File
    BY <1>4 DEF Accounts!TypeOK, Accounts!File
  <2>2. CASE Accounts!Refused(users) = {}
    BY <1>1, <1>4, <2>1, <2>2 DEF Accounts!Read
  <2>3. CASE Accounts!Refused(users) # {}
    <3>1. PICK kept \in SUBSET (Accounts!Account \ Accounts!Refused(users)) :
            accounts = Accounts!Only(users, kept)
      BY <1>4, <2>3 DEF Accounts!Read
    <3>2. accounts \in Accounts!Accounts
      BY <2>1, <3>1 DEF Accounts!Only, Accounts!Accounts
    <3> QED BY <1>1, <2>1, <2>3, <3>2
  <2> QED BY <2>2, <2>3
<1> QED BY <1>2, <1>3, <1>4

\* A request that changes an account.
LEMMA AccountsSaveKeeps ==
  ASSUME Accounts!DomainAssumption, DomainInv, NEW a \in Accounts!Account, NEW r \in Accounts!Record \cup {None},
         Accounts!Ready, Accounts!Save([memory EXCEPT ![a] = r])
  PROVE  DomainInv'
<1>1. memory \in Accounts!Accounts /\ memory # None /\ changes < MaxSaves /\ changes \in 0 .. MaxSaves
      /\ MaxSaves \in Nat /\ writing = None
  BY DEF DomainInv, Accounts!TypeOK, Accounts!Ready, Accounts!DomainAssumption
<1> DEFINE new == [memory EXCEPT ![a] = r]
<1>2. new \in Accounts!Accounts
  BY <1>1 DEF Accounts!Accounts
<1>3. /\ memory' = new /\ changes' = changes + 1 /\ UNCHANGED <<other, people>>
      /\ \/ users' = Torn /\ writing' = new /\ spoilt' = spoilt
         \/ spoilt' = TRUE /\ users' = users /\ writing' = writing
  BY DEF Accounts!Save
<1> HIDE DEF new
<1>4. new # None
  BY <1>2 DEF Accounts!DomainAssumption
<1>5. changes' \in 0 .. MaxSaves
  BY <1>1, <1>3
<1>6. Accounts!TypeOK'
  BY <1>1, <1>2, <1>3, <1>5 DEF Accounts!TypeOK, DomainInv
<1>7. FileFollows' /\ (writing' # None => writing' = memory')
  BY <1>1, <1>3, <1>4 DEF FileFollows
<1> QED BY <1>6, <1>7 DEF DomainInv

\* A login judges by the file as one would by the memory.
LEMMA LoginsFollow ==
  ASSUME Accounts!DomainAssumption, DomainInv
  PROVE  Accounts!DomainKept
<1> SUFFICES ASSUME ~spoilt, memory # None, writing = None, NEW name \in Accounts!Account
             PROVE  /\ \A password \in Password \cup HardWired :
                         Accounts!Authenticates(name, password) <=>
                           \/ \E a \in Accounts!Have(name) : memory[a].enabled /\ memory[a].password = password
                           \/ /\ name \in Alike(BuiltIn) /\ password \in HardWired
                              /\ Accounts!Have(name) = {} \/ \E a \in Accounts!Have(name) : memory[a].enabled
                    /\ \A a \in Accounts!Have(name) : memory[a].role \in Accounts!ResolvedRole(name)
                    /\ "admin" \in Accounts!ResolvedRole(name) =>
                         \/ \E a \in Accounts!Have(name) : memory[a].role = "admin"
                         \/ Accounts!Have(name) = {} /\ name \in Alike(BuiltIn) \cup Alias
  BY DEF Accounts!DomainKept
<1>1. memory \in Accounts!Accounts /\ Alike(name) \subseteq Accounts!Account
  BY DEF DomainInv, Accounts!TypeOK, Accounts!DomainAssumption
<1>2. \A a \in Accounts!Have(name) : a \in Alike(name) /\ memory[a] # None /\ memory[a] \in Accounts!Record
  BY <1>1 DEF Accounts!Have, Accounts!Accounts
<1>3. CASE users = memory
  <2>1. Accounts!File
    BY <1>1, <1>3 DEF Accounts!File, Accounts!DomainAssumption
  <2>2. Accounts!Stored(name) =
          IF Accounts!Have(name) = {} THEN {None} ELSE {memory[a] : a \in Accounts!Have(name)}
    BY <1>3, <2>1 DEF Accounts!Stored, Accounts!Have
  <2>3. CASE Accounts!Have(name) = {}
    <3>1. Accounts!Stored(name) = {None}
      BY <2>2, <2>3
    <3> QED BY <2>3, <3>1 DEF Accounts!Authenticates, Accounts!ResolvedRole
  <2>4. CASE Accounts!Have(name) # {}
    <3>1. Accounts!Stored(name) = {memory[a] : a \in Accounts!Have(name)}
      BY <2>2, <2>4
    <3>2. \A password \in Password \cup HardWired :
            Accounts!Authenticates(name, password) <=>
              \/ \E a \in Accounts!Have(name) : memory[a].enabled /\ memory[a].password = password
              \/ /\ name \in Alike(BuiltIn) /\ password \in HardWired
                 /\ \E a \in Accounts!Have(name) : memory[a].enabled
      BY <1>2, <3>1 DEF Accounts!Authenticates
    <3>3. Accounts!ResolvedRole(name) = {memory[a].role : a \in Accounts!Have(name)}
      BY <1>2, <3>1 DEF Accounts!ResolvedRole
    <3> QED BY <2>4, <3>2, <3>3
  <2> QED BY <2>3, <2>4
<1>4. CASE users # memory
  <2>1. /\ Accounts!Stored(name) = {None}
        /\ memory = Accounts!Seeded \/ memory = Accounts!NoAccounts
    BY <1>4 DEF DomainInv, FileFollows, Accounts!Stored, Accounts!File
  <2>2. /\ \A password : Accounts!Authenticates(name, password) <=>
                           name \in Alike(BuiltIn) /\ password \in HardWired
        /\ Accounts!ResolvedRole(name) =
             {IF name \in Alike(BuiltIn) \cup Alias THEN "admin" ELSE "member"}
    BY <2>1 DEF Accounts!Authenticates, Accounts!ResolvedRole
  <2>3. \A a \in Accounts!Have(name) :
          a = BuiltIn /\ name \in Alike(BuiltIn) /\ memory[a] = Administrating
    <3> SUFFICES ASSUME NEW a \in Accounts!Have(name)
                 PROVE  a = BuiltIn /\ name \in Alike(BuiltIn) /\ memory[a] = Administrating
      OBVIOUS
    <3>1. a \in Accounts!Account /\ a \in Alike(name) /\ memory[a] # None
      BY <1>1, <1>2
    <3>2. memory = Accounts!Seeded /\ a = BuiltIn /\ memory[a] = Administrating
      BY <2>1, <3>1, SeededAre DEF Accounts!NoAccounts
    <3>3. Alike(a) = Alike(name) /\ name \in Alike(name)
      BY <3>1 DEF Accounts!DomainAssumption
    <3> QED BY <3>2, <3>3
  <2>4. Administrating.enabled = TRUE /\ Administrating.role = "admin"
        /\ \A password \in Password : Administrating.password # password
    BY DEF Administrating, Accounts!DomainAssumption
  <2>5. Administrating.password = None
    BY DEF Administrating
  <2>6. ASSUME NEW password \in Password \cup HardWired, NEW a \in Accounts!Have(name),
               memory[a].password = password
        PROVE  name \in Alike(BuiltIn) /\ password \in HardWired
    BY <2>3, <2>4, <2>6
  <2> QED BY <2>2, <2>3, <2>4, <2>6
<1> QED BY <1>3, <1>4

LEMMA AccountsHold ==
  ASSUME Accounts!DomainAssumption
  PROVE  Accounts!Spec => [](Accounts!TypeOK /\ Accounts!DomainKept)
<1>1. Accounts!Init => DomainInv
  <2> SUFFICES ASSUME Accounts!Init
               PROVE  DomainInv
    OBVIOUS
  <2>1. memory = None /\ other = None /\ users = None /\ people \subseteq Member
        /\ writing = None /\ changes = 0 /\ spoilt = FALSE
    BY DEF Accounts!Init
  <2>2. changes \in 0 .. MaxSaves
    BY <2>1 DEF Accounts!DomainAssumption
  <2>3. Accounts!TypeOK
    BY <2>1, <2>2 DEF Accounts!TypeOK
  <2> QED BY <2>1, <2>3 DEF DomainInv, FileFollows
<1>2. DomainInv /\ [Accounts!Next]_Accounts!vars => DomainInv'
  <2> SUFFICES ASSUME DomainInv, [Accounts!Next]_Accounts!vars
               PROVE  DomainInv'
    OBVIOUS
  <2>1. Accounts!TypeOK /\ (writing # None => writing = memory) /\ FileFollows
    BY DEF DomainInv
  <2>2. CASE UNCHANGED Accounts!vars
    BY <2>1, <2>2 DEF Accounts!vars, DomainInv, Accounts!TypeOK, FileFollows
  <2>3. CASE Accounts!Load
    <3>1. /\ memory = None /\ memory' \in Accounts!Read /\ other' \in {None, Reading}
          /\ spoilt' = (Accounts!File /\ Accounts!Refused(users) # {})
          /\ UNCHANGED <<users, people, writing, changes>>
      BY <2>3 DEF Accounts!Load
    <3>2. /\ memory' \in Accounts!Accounts
          /\ \/ users = None /\ memory' = Accounts!Seeded
             \/ users = Torn /\ memory' = Accounts!NoAccounts
             \/ Accounts!File /\ (Accounts!Refused(users) = {} => memory' = users)
      BY <2>1, <3>1, ReadAre
    <3>3. writing = None
      BY <2>1, <3>1
    <3>4. Accounts!TypeOK'
      BY <2>1, <3>1, <3>2 DEF Accounts!TypeOK
    <3>5. FileFollows'
      BY <3>1, <3>2 DEF FileFollows
    <3> QED BY <3>1, <3>3, <3>4, <3>5 DEF DomainInv
  <2>4. CASE Accounts!ReadAgain
    <3>1. other' \in Accounts!Read /\ UNCHANGED <<memory, users, people, writing, changes, spoilt>>
      BY <2>4 DEF Accounts!ReadAgain
    <3>2. other' \in Accounts!Accounts
      BY <2>1, <3>1, ReadAre
    <3> QED BY <2>1, <3>1, <3>2 DEF DomainInv, Accounts!TypeOK, FileFollows
  <2>5. CASE Accounts!Switch
    <3>1. /\ other \notin {None, Reading} /\ writing = None /\ memory' = other /\ other' = memory
          /\ spoilt' = TRUE /\ UNCHANGED <<users, people, writing, changes>>
      BY <2>5 DEF Accounts!Switch
    <3>2. Accounts!TypeOK'
      BY <2>1, <3>1 DEF Accounts!TypeOK
    <3> QED BY <3>1, <3>2 DEF DomainInv, FileFollows
  <2>6. CASE Accounts!Written
    <3>1. writing # None /\ users' = writing /\ writing' = None /\ spoilt' = FALSE
          /\ UNCHANGED <<memory, other, people, changes>>
      BY <2>6 DEF Accounts!Written, Accounts!Dumped
    <3>2. Accounts!TypeOK'
      BY <2>1, <3>1 DEF Accounts!TypeOK
    <3> QED BY <2>1, <3>1, <3>2 DEF DomainInv, FileFollows
  <2>7. CASE Accounts!WriteFails
    <3>1. writing' = None /\ spoilt' = TRUE /\ UNCHANGED <<memory, other, users, people, changes>>
      BY <2>7 DEF Accounts!WriteFails
    <3> QED BY <2>1, <3>1 DEF DomainInv, Accounts!TypeOK, FileFollows
  <2>8. CASE Accounts!PeopleChange
    <3>1. people' \in SUBSET Member /\ UNCHANGED <<memory, other, users, writing, changes, spoilt>>
      BY <2>8 DEF Accounts!PeopleChange
    <3> QED BY <2>1, <3>1 DEF DomainInv, Accounts!TypeOK, FileFollows
  <2>9. CASE Accounts!Restart
    <3>1. memory' = None /\ other' = None /\ writing' = None /\ UNCHANGED <<users, people, changes, spoilt>>
      BY <2>9 DEF Accounts!Restart
    <3> QED BY <2>1, <3>1 DEF DomainInv, Accounts!TypeOK, FileFollows
  <2>10. ASSUME NEW a \in Accounts!Account, NEW r \in Accounts!Record, Accounts!CreateUser(a, r) \/ Accounts!UpdateUser(a, r)
         PROVE  DomainInv'
    BY <2>10, AccountsSaveKeeps DEF Accounts!CreateUser, Accounts!UpdateUser
  <2>11. ASSUME NEW a \in Accounts!Account, Accounts!DeleteUser(a)
         PROVE  DomainInv'
    BY <2>11, AccountsSaveKeeps DEF Accounts!DeleteUser
  <2>12. ASSUME NEW a \in Accounts!Account, NEW password \in Password \cup {None}, Accounts!ResetPassword(a, password)
         PROVE  DomainInv'
    <3> DEFINE r == [memory[a] EXCEPT !.password = password]
    <3>1. Accounts!Ready /\ memory[a] # None /\ Accounts!Save([memory EXCEPT ![a] = r])
      BY <2>12 DEF Accounts!ResetPassword
    <3>2. memory[a] \in Accounts!Record
      BY <2>1, <3>1 DEF Accounts!TypeOK, Accounts!Accounts, Accounts!Ready
    <3>3. r \in Accounts!Record
      BY <3>2 DEF Accounts!Record
    <3> HIDE DEF r
    <3> QED BY <3>1, <3>3, AccountsSaveKeeps
  <2> QED BY <2>2, <2>3, <2>4, <2>5, <2>6, <2>7, <2>8, <2>9, <2>10, <2>11, <2>12 DEF Accounts!Next
<1>3. DomainInv => Accounts!TypeOK /\ Accounts!DomainKept
  BY LoginsFollow DEF DomainInv
<1> QED BY <1>1, <1>2, <1>3, PTL DEF Accounts!Spec

-----------------------------------------------------------------------------
(* Bootstrap tokens. *)

\* A token nobody has made has admitted nobody.
UnmadeUnused == \A t \in Bootstrap \ made : uses[t] = 0

\* A token that has admitted somebody, and had no copy out of reach then, is nowhere
\* left: not in memory, not in a register, not in what a command will write.
SpentIsGone ==
  \A t \in Bootstrap : uses[t] > 0 /\ t \notin astray =>
    /\ t \notin memory /\ t \notin register /\ t \notin beside
    /\ command # None => t \notin command

TokensInv == Tokens!TypeOK /\ UnmadeUnused /\ SpentIsGone /\ Tokens!TokenAdmitsOnce

\* consume_token leaves no copy of the token it consumes where it reaches, and brings
\* none back.
LEMMA ConsumeForgets ==
  ASSUME NEW t \in Bootstrap, NEW ok \in BOOLEAN, Tokens!ConsumeToken(t, ok)
  PROVE  /\ t \notin memory' /\ (t \in register' => ~ok /\ t \in register)
         /\ memory' \subseteq memory /\ register' \subseteq register \cup beside \cup memory
  BY DEF Tokens!ConsumeToken, Tokens!SaveTokens, Tokens!LoadTokens

LEMMA TokensBegin == Tokens!Init => TokensInv
  BY DEF Tokens!Init, TokensInv, Tokens!TypeOK, UnmadeUnused, SpentIsGone, Tokens!TokenAdmitsOnce

LEMMA TokensKeep == TokensInv /\ [Tokens!Next]_Tokens!vars => TokensInv'
<1> SUFFICES ASSUME TokensInv, [Tokens!Next]_Tokens!vars PROVE TokensInv'
  OBVIOUS
<1> USE DEF TokensInv
<1>1. ASSUME NEW t \in Bootstrap, NEW ok \in BOOLEAN, Tokens!RecordToken(t, ok) PROVE TokensInv'
  BY <1>1 DEF Tokens!RecordToken, Tokens!SaveTokens, Tokens!Fresh, Tokens!LoadTokens, Tokens!TypeOK, UnmadeUnused, SpentIsGone, Tokens!TokenAdmitsOnce
<1>2. ASSUME NEW t \in Bootstrap, Tokens!CommandLoads(t) PROVE TokensInv'
  BY <1>2 DEF Tokens!CommandLoads, Tokens!LoadTokens, Tokens!Fresh, Tokens!TypeOK, UnmadeUnused, SpentIsGone, Tokens!TokenAdmitsOnce
<1>3. ASSUME NEW t \in Bootstrap, NEW ok \in BOOLEAN, Tokens!Enroll(t, ok) PROVE TokensInv'
  <2>1. t \in made /\ (t \in memory \/ t \in register \/ t \in beside)
    BY <1>3 DEF Tokens!Enroll, Tokens!LoadTokens, Tokens!TypeOK
  <2>2. uses[t] = 0 \/ t \in astray
    BY <2>1 DEF Tokens!TypeOK, SpentIsGone
  <2>3. Tokens!TypeOK'
    BY <1>3, <2>1, ConsumeForgets DEF Tokens!Enroll, Tokens!TypeOK
  <2>4. UnmadeUnused'
    BY <1>3, <2>1 DEF Tokens!Enroll, Tokens!TypeOK, UnmadeUnused
  <2>5. SpentIsGone'
    BY <1>3, ConsumeForgets DEF Tokens!Enroll, Tokens!Stays, Tokens!TypeOK, SpentIsGone
  <2>6. Tokens!TokenAdmitsOnce'
    BY <1>3, <2>2 DEF Tokens!Enroll, Tokens!TypeOK, Tokens!TokenAdmitsOnce
  <2>7. QED
    BY <2>3, <2>4, <2>5, <2>6
<1>4. ASSUME NEW t \in Bootstrap, NEW ok \in BOOLEAN, Tokens!EnrollLate(t, ok) PROVE TokensInv'
  BY <1>4, ConsumeForgets DEF Tokens!EnrollLate, Tokens!TypeOK, UnmadeUnused, SpentIsGone, Tokens!TokenAdmitsOnce
<1>5. ASSUME NEW t \in Bootstrap, Tokens!Expire(t) PROVE TokensInv'
  BY <1>5 DEF Tokens!Expire, Tokens!TypeOK, UnmadeUnused, SpentIsGone, Tokens!TokenAdmitsOnce
<1>6. CASE Tokens!CommandSaves
  BY <1>6 DEF Tokens!CommandSaves, Tokens!TypeOK, UnmadeUnused, SpentIsGone, Tokens!TokenAdmitsOnce
<1>7. CASE Tokens!WebRestart
  BY <1>7 DEF Tokens!WebRestart, Tokens!TypeOK, UnmadeUnused, SpentIsGone, Tokens!TokenAdmitsOnce
<1>8. CASE UNCHANGED Tokens!vars
  BY <1>8 DEF Tokens!vars, Tokens!TypeOK, UnmadeUnused, SpentIsGone, Tokens!TokenAdmitsOnce
<1>9. QED
  BY <1>1, <1>2, <1>3, <1>4, <1>5, <1>6, <1>7, <1>8 DEF Tokens!Next

-----------------------------------------------------------------------------
LEMMA TokensHold == Tokens!Spec => [](Tokens!TypeOK /\ Tokens!TokenAdmitsOnce)
<1>1. TokensInv => Tokens!TypeOK /\ Tokens!TokenAdmitsOnce
  BY DEF TokensInv
<1>2. QED
  BY <1>1, TokensBegin, TokensKeep, PTL DEF Tokens!Spec

-----------------------------------------------------------------------------
(* Certificates. *)

ProcessRecord == [at : Certs!Step, for : Entity \cup Domain \cup {None}, ca : Certs!KeyOr, pair : Certs!KeyOr]

\* Whom a process works for, by where it is.
Purpose(p, r) ==
  /\ r.at = "idle" => r.for = None
  /\ r.at \in {"key", "root"} => r.for \in Entity \cup {None}
  /\ r.at = "root" => r.ca # None
  /\ r.at = "issue" => r.for \in Entity
  /\ r.at = "private" => r.for \in Entity \/ (r.for \in Domain /\ p = "web")
  /\ r.at \in {"order", "meta", "clean"} => r.for \in Domain /\ p = "web"

Making(r) == r.at \in {"key", "root"}

\* One root, which whoever issues has read and every certificate is signed with.
OneRoot ==
  /\ root.crt # None => root.key = root.crt
  /\ root.key # None /\ root.crt = None => \E p \in Certs!Process : process[p].at = "root"
  /\ \A p \in Certs!Process :
       /\ process[p].at = "key" => root.key = None /\ root.crt = None
       /\ process[p].at = "root" => root.crt = None /\ root.key = process[p].ca
       /\ process[p].at = "issue" => root.crt # None /\ root.crt = process[p].ca
       /\ Making(process[p]) => \A q \in Certs!Process : Making(process[q]) => q = p
  /\ \A e \in Entity : issued[e].crt # None => root.crt # None /\ issued[e].by = root.crt

\* A domain that is listed has its key, unless its order has just written a new chain.
ChainHasKey(d) ==
  IF process["web"].at = "private" /\ process["web"].for = d THEN domains[d].crt = process["web"].pair
  ELSE IF process["web"].at = "meta" /\ process["web"].for = d THEN domains[d].crt = domains[d].key
  ELSE Certs!Listed(d) => domains[d].crt = domains[d].key

\* Whoever is between the two files of an entity is alone there and has the certificate's
\* key; when nobody is, the files are of one pair.
Writing(p, e) == process[p].at = "private" /\ process[p].for = e
KeyFollows(e) ==
  /\ \A p \in Certs!Process : Writing(p, e) =>
       issued[e].crt = process[p].pair /\ \A q \in Certs!Process : Writing(q, e) => q = p
  /\ (\A p \in Certs!Process : ~Writing(p, e)) => issued[e].crt = issued[e].key

Chains == \A d \in Domain \ broken : ChainHasKey(d)
Pairs == \A e \in Entity \ broken : KeyFollows(e)

\* The challenges there are belong to the order under way, or were left.
Challenged ==
  \A name \in records \ left : process["web"].for \in Domain /\ name \in Names(process["web"].for)

CertsTypes ==
  /\ Certs!TypeOK /\ process \in [Certs!Process -> ProcessRecord]
  /\ \A p \in Certs!Process : Purpose(p, process[p])

CertsInv ==
  CertsTypes /\ Challenged /\ (~contested => OneRoot) /\ Chains /\ Pairs

\* A process goes on, and its record is of the kind its place asks for.
LEMMA ProcessGoes ==
  ASSUME CertsTypes, NEW p \in Certs!Process, NEW r \in ProcessRecord, Purpose(p, r), Certs!Goes(p, r)
  PROVE  /\ process' \in [Certs!Process -> ProcessRecord] /\ process'[p] = r
         /\ \A q \in Certs!Process \ {p} : process'[q] = process[q]
         /\ \A q \in Certs!Process : Purpose(q, process'[q])
         /\ \A q \in Certs!Process :
              process'[q] \in [at : Certs!Step, for : Entity \cup Domain \cup {None}, ca : Certs!KeyOr, pair : Certs!KeyOr]
<1>1. process \in [Certs!Process -> ProcessRecord] /\ \A q \in Certs!Process : Purpose(q, process[q])
  BY DEF CertsTypes
<1>2. process' = [process EXCEPT ![p] = r]
  BY DEF Certs!Goes
<1>3. process' \in [Certs!Process -> ProcessRecord] /\ process'[p] = r
      /\ \A q \in Certs!Process \ {p} : process'[q] = process[q]
  BY <1>1, <1>2
<1>4. \A q \in Certs!Process : Purpose(q, process'[q])
  BY <1>1, <1>3
<1> QED BY <1>3, <1>4 DEF ProcessRecord

LEMMA IdleProcess ==
  ASSUME NEW p
  PROVE  Certs!Idle \in ProcessRecord /\ Purpose(p, Certs!Idle) /\ Certs!Idle.at = "idle" /\ Certs!Idle.for = None
<1> DEFINE idle == [at |-> "idle", for |-> None, ca |-> None, pair |-> None]
<1>1. idle \in ProcessRecord /\ idle.at = "idle" /\ idle.for = None
  BY DEF ProcessRecord, Certs!Step, Certs!KeyOr
<1>2. Certs!Idle = idle
  BY DEF Certs!Idle
<1> HIDE DEF idle
<1> QED BY <1>1, <1>2 DEF Purpose

\* A key pair more.
LEMMA KeyMade ==
  ASSUME Certs!CertificatesAssumption, CertsTypes, Certs!NewKey
  PROVE  keys' \in Certs!Key /\ keys' \in Certs!KeyOr /\ keys' # None /\ keys' \in 0 .. MaxKeys
<1>1. keys \in 0 .. MaxKeys /\ keys < MaxKeys /\ keys' = keys + 1 /\ MaxKeys \in Nat
      /\ None \notin 1 .. MaxKeys
  BY DEF CertsTypes, Certs!TypeOK, Certs!NewKey, Certs!CertificatesAssumption
<1>2. keys' \in 1 .. MaxKeys /\ keys' \in 0 .. MaxKeys
  BY <1>1
<1> QED BY <1>1, <1>2 DEF Certs!Key, Certs!KeyOr

\* What a step leaves alone: the challenges, ...
LEMMA ChallengesKept ==
  ASSUME Challenged, UNCHANGED <<records, left>>,
         process'["web"].for = process["web"].for \/ process["web"].for \notin Domain
  PROVE  Challenged'
BY DEF Challenged

Chaining(r) == r.at \in {"private", "meta"} /\ r.for \in Domain

\* ... the chains, ...
LEMMA ChainsKept ==
  ASSUME Chains, UNCHANGED domains, broken \cap Domain \subseteq broken',
         \/ process'["web"] = process["web"]
         \/ /\ ~Chaining(process'["web"])
            /\ \/ ~Chaining(process["web"])
               \/ process["web"].at = "meta"
               \/ process["web"].for \in broken'
  PROVE  Chains'
<1> SUFFICES ASSUME NEW d \in Domain \ broken'
             PROVE  ChainHasKey(d)'
  BY DEF Chains
<1>1. ChainHasKey(d)
  BY DEF Chains
<1>2. CASE process'["web"] = process["web"]
  BY <1>1, <1>2 DEF ChainHasKey, Certs!Listed
<1>3. CASE ~Chaining(process'["web"])
  <2>1. ChainHasKey(d)' = (Certs!Listed(d) => domains[d].crt = domains[d].key)
    BY <1>3 DEF ChainHasKey, Chaining, Certs!Listed
  <2>2. CASE ~Chaining(process["web"])
    BY <1>1, <2>1, <2>2 DEF ChainHasKey, Chaining
  <2>3. CASE process["web"].at = "meta"
    BY <1>1, <2>1, <2>3 DEF ChainHasKey
  <2>4. CASE process["web"].for \in broken'
    BY <1>1, <2>1, <2>4 DEF ChainHasKey
  <2>5. CASE process'["web"] = process["web"]
    BY <1>2, <2>5, <1>1 DEF ChainHasKey, Certs!Listed
  <2> QED BY <2>2, <2>3, <2>4, <2>5
<1> QED BY <1>2, <1>3

\* ... the pairs of entities, ...
LEMMA PairsKept ==
  ASSUME Pairs, UNCHANGED issued, broken \cap Entity \subseteq broken', NEW p \in Certs!Process,
         \A q \in Certs!Process \ {p} : process'[q] = process[q],
         process[p].at # "private" \/ process[p].for \notin Entity \ broken',
         process'[p].at # "private" \/ process'[p].for \notin Entity
  PROVE  Pairs'
<1> SUFFICES ASSUME NEW e \in Entity \ broken'
             PROVE  KeyFollows(e)'
  BY DEF Pairs
<1>1. KeyFollows(e) /\ \A q \in Certs!Process : Writing(q, e)' = Writing(q, e)
  BY DEF Pairs, Writing
<1> QED BY <1>1 DEF KeyFollows, Writing

\* ... and the root, where nobody begins with it or ends.
LEMMA RootKept ==
  ASSUME OneRoot, UNCHANGED <<root, issued>>, NEW p \in Certs!Process,
         \A q \in Certs!Process \ {p} : process'[q] = process[q],
         process[p].at # "root", process'[p].at \notin {"key", "root", "issue"}
  PROVE  OneRoot'
BY DEF OneRoot, Making

\* The root's steps of a process, and its certificates.
LEMMA IssuingKeeps ==
  ASSUME Certs!CertificatesAssumption, CertsInv, NEW p \in Certs!Process,
         \/ \E e \in Entity \cup {None} : Certs!Begin(p, e)
         \/ Certs!MakeRootKey(p) \/ Certs!WriteRoot(p) \/ Certs!IssueCertificate(p)
  PROVE  CertsInv'
<1>0. /\ CertsTypes /\ Challenged /\ (~contested => OneRoot) /\ Chains /\ Pairs
      /\ Certs!TypeOK /\ process[p] \in ProcessRecord /\ Purpose(p, process[p])
      /\ None \notin Entity \cup Domain /\ Entity \cap Domain = {} /\ None \notin Certs!Key
  BY DEF CertsInv, CertsTypes, Certs!CertificatesAssumption, Certs!Key
<1> USE DEF Certs!At
<1>1. ASSUME NEW e \in Entity \cup {None}, Certs!Begin(p, e)
      PROVE  CertsInv'
  <2> DEFINE r == IF Certs!RootExists THEN [Certs!Idle EXCEPT !.at = "issue", !.for = e, !.ca = root.key]
                  ELSE [Certs!Idle EXCEPT !.at = "key", !.for = e]
  <2>1. /\ process[p].at = "idle" /\ Certs!Goes(p, r) /\ (Certs!RootExists => e # None)
        /\ contested' = (contested \/ \E q \in Certs!Process : Making(process[q]))
        /\ UNCHANGED <<root, issued, domains, records, keys, broken, left>>
    BY <1>1 DEF Certs!Begin, Making
  <2>2. /\ r \in ProcessRecord /\ r.for = e
        /\ Certs!RootExists => r.at = "issue" /\ r.ca = root.key
        /\ ~Certs!RootExists => r.at = "key"
    BY <1>0, IdleProcess DEF ProcessRecord, Certs!TypeOK, Certs!Step
  <2> HIDE DEF r
  <2>3. Purpose(p, r) /\ ~Chaining(r) /\ r.at # "root"
    BY <2>1, <2>2 DEF Purpose, Chaining
  <2>4. /\ process' \in [Certs!Process -> ProcessRecord] /\ process'[p] = r
        /\ \A q \in Certs!Process \ {p} : process'[q] = process[q]
        /\ \A q \in Certs!Process : Purpose(q, process'[q])
        /\ \A q \in Certs!Process :
             process'[q] \in [at : Certs!Step, for : Entity \cup Domain \cup {None}, ca : Certs!KeyOr, pair : Certs!KeyOr]
    BY <1>0, <2>1, <2>2, <2>3, ProcessGoes
  <2>5. contested' \in BOOLEAN
    BY <1>0, <2>1 DEF Certs!TypeOK
  <2>6. CertsTypes'
    BY <1>0, <2>1, <2>4, <2>5 DEF CertsTypes, Certs!TypeOK
  <2>7. process[p].for = None /\ "web" \in Certs!Process
    BY <1>0, <2>1 DEF Purpose, Certs!Process
  <2>8. Challenged'
    BY <1>0, <2>1, <2>4, <2>7, ChallengesKept
  <2>9. Chains' /\ Pairs'
    BY <1>0, <2>1, <2>2, <2>3, <2>4, <2>7, ChainsKept, PairsKept DEF Chaining
  <2>10. ~contested' => OneRoot'
    BY <1>0, <2>1, <2>2, <2>3, <2>4, ZenonT(60) DEF OneRoot, Making, Certs!RootExists
  <2> QED BY <2>1, <2>6, <2>8, <2>9, <2>10 DEF CertsInv
<1>2. CASE Certs!MakeRootKey(p)
  <2> DEFINE r == [process[p] EXCEPT !.at = "root", !.ca = keys']
             new == [root EXCEPT !.key = keys']
  <2>1. /\ process[p].at = "key" /\ Certs!NewKey /\ Certs!Goes(p, r) /\ root' = new
        /\ UNCHANGED <<issued, domains, records, contested, broken, left>>
    BY <1>2 DEF Certs!MakeRootKey
  <2>2. keys' \in Certs!KeyOr /\ keys' # None /\ keys' \in 0 .. MaxKeys
    BY <1>0, <2>1, KeyMade
  <2>3. r \in ProcessRecord /\ r.at = "root" /\ r.ca = keys' /\ r.for = process[p].for
    BY <1>0, <2>2 DEF ProcessRecord, Certs!Step
  <2>4. new \in [key : Certs!KeyOr, crt : Certs!KeyOr] /\ new.key = keys' /\ new.crt = root.crt
    BY <1>0, <2>2 DEF Certs!TypeOK
  <2> HIDE DEF r, new
  <2>5. Purpose(p, r) /\ ~Chaining(r) /\ ~Chaining(process[p])
    BY <1>0, <2>1, <2>2, <2>3 DEF Purpose, Chaining
  <2>6. /\ process' \in [Certs!Process -> ProcessRecord] /\ process'[p] = r
        /\ \A q \in Certs!Process \ {p} : process'[q] = process[q]
        /\ \A q \in Certs!Process : Purpose(q, process'[q])
        /\ \A q \in Certs!Process :
             process'[q] \in [at : Certs!Step, for : Entity \cup Domain \cup {None}, ca : Certs!KeyOr, pair : Certs!KeyOr]
    BY <1>0, <2>1, <2>3, <2>5, ProcessGoes
  <2>7. CertsTypes'
    BY <1>0, <2>1, <2>2, <2>4, <2>6 DEF CertsTypes, Certs!TypeOK
  <2>8. Challenged' /\ "web" \in Certs!Process
    BY <1>0, <2>1, <2>3, <2>6, ChallengesKept DEF Certs!Process
  <2>9. Chains' /\ Pairs'
    BY <1>0, <2>1, <2>2, <2>3, <2>5, <2>6, <2>8, ChainsKept, PairsKept
  <2>10. ~contested => OneRoot'
    BY <1>0, <2>1, <2>2, <2>3, <2>4, <2>6 DEF OneRoot, Making
  <2> QED BY <2>1, <2>7, <2>8, <2>9, <2>10 DEF CertsInv
<1>3. CASE Certs!WriteRoot(p)
  <2> DEFINE r == IF process[p].for = None THEN Certs!Idle ELSE [process[p] EXCEPT !.at = "issue"]
             new == [root EXCEPT !.crt = process[p].ca]
  <2>1. /\ process[p].at = "root" /\ Certs!Goes(p, r) /\ root' = new
        /\ UNCHANGED <<issued, domains, records, keys, contested, broken, left>>
    BY <1>3 DEF Certs!WriteRoot
  <2>2. /\ r \in ProcessRecord /\ r.for = process[p].for
        /\ process[p].for = None => r.at = "idle"
        /\ process[p].for # None => r.at = "issue" /\ r.ca = process[p].ca
    <3>1. [process[p] EXCEPT !.at = "issue"] \in ProcessRecord
      BY <1>0 DEF ProcessRecord, Certs!Step
    <3>2. [process[p] EXCEPT !.at = "issue"].for = process[p].for /\ [process[p] EXCEPT !.at = "issue"].at = "issue"
          /\ [process[p] EXCEPT !.at = "issue"].ca = process[p].ca
      BY <1>0 DEF ProcessRecord
    <3> QED BY <3>1, <3>2, IdleProcess
  <2>3. process[p].ca \in Certs!KeyOr /\ process[p].ca # None /\ process[p].for \in Entity \cup {None}
    BY <1>0, <2>1 DEF ProcessRecord, Purpose
  <2>4. new \in [key : Certs!KeyOr, crt : Certs!KeyOr] /\ new.crt = process[p].ca /\ new.key = root.key
    BY <1>0, <2>3 DEF Certs!TypeOK
  <2> HIDE DEF r, new
  <2>5. Purpose(p, r) /\ ~Chaining(r) /\ ~Chaining(process[p])
    BY <1>0, <2>1, <2>2, <2>3 DEF Purpose, Chaining
  <2>6. /\ process' \in [Certs!Process -> ProcessRecord] /\ process'[p] = r
        /\ \A q \in Certs!Process \ {p} : process'[q] = process[q]
        /\ \A q \in Certs!Process : Purpose(q, process'[q])
        /\ \A q \in Certs!Process :
             process'[q] \in [at : Certs!Step, for : Entity \cup Domain \cup {None}, ca : Certs!KeyOr, pair : Certs!KeyOr]
    BY <1>0, <2>1, <2>2, <2>5, ProcessGoes
  <2>7. CertsTypes'
    BY <1>0, <2>1, <2>4, <2>6 DEF CertsTypes, Certs!TypeOK
  <2>8. Challenged' /\ "web" \in Certs!Process
    BY <1>0, <2>1, <2>2, <2>6, ChallengesKept DEF Certs!Process
  <2>9. Chains' /\ Pairs'
    BY <1>0, <2>1, <2>2, <2>3, <2>5, <2>6, <2>8, ChainsKept, PairsKept
  <2>10. ~contested => OneRoot'
    BY <1>0, <2>1, <2>2, <2>3, <2>4, <2>6 DEF OneRoot, Making
  <2> QED BY <2>1, <2>7, <2>8, <2>9, <2>10 DEF CertsInv
<1>4. CASE Certs!IssueCertificate(p)
  <2> DEFINE r == [process[p] EXCEPT !.at = "private", !.pair = keys']
             e == process[p].for
             ca == process[p].ca
  <2>1. /\ process[p].at = "issue" /\ Certs!NewKey /\ Certs!Goes(p, r)
        /\ issued' = [issued EXCEPT ![e].crt = keys', ![e].by = ca]
        /\ Certs!Breaks(p, e) /\ UNCHANGED <<root, domains, records, contested, left>>
    BY <1>4 DEF Certs!IssueCertificate
  <2>2. keys' \in Certs!KeyOr /\ keys' \in 0 .. MaxKeys
    BY <1>0, <2>1, KeyMade
  <2>3. r \in ProcessRecord /\ r.at = "private" /\ r.for = e /\ r.pair = keys'
    BY <1>0, <2>2 DEF ProcessRecord, Certs!Step
  <2>4. e \in Entity /\ ca \in Certs!KeyOr
    BY <1>0, <2>1 DEF Purpose, ProcessRecord
  <2> HIDE DEF r, e, ca
  <2>5. /\ issued' \in [Entity -> [crt : Certs!KeyOr, by : Certs!KeyOr, key : Certs!KeyOr]]
        /\ issued'[e].by = ca /\ issued'[e].crt = keys' /\ \A x \in Entity \ {e} : issued'[x] = issued[x]
    <3> DEFINE new == [issued[e] EXCEPT !.crt = keys', !.by = ca]
    <3>1. issued \in [Entity -> [crt : Certs!KeyOr, by : Certs!KeyOr, key : Certs!KeyOr]]
      BY <1>0 DEF Certs!TypeOK
    <3>2. issued' = [issued EXCEPT ![e] = new]
      BY <2>1, <2>4, <3>1
    <3>3. new \in [crt : Certs!KeyOr, by : Certs!KeyOr, key : Certs!KeyOr] /\ new.by = ca /\ new.crt = keys'
      BY <2>2, <2>4, <3>1
    <3> HIDE DEF new
    <3> QED BY <2>4, <3>1, <3>2, <3>3
  <2>6. Purpose(p, r) /\ ~Chaining(r) /\ ~Chaining(process[p])
    BY <1>0, <2>1, <2>3, <2>4 DEF Purpose, Chaining
  <2>7. /\ process' \in [Certs!Process -> ProcessRecord] /\ process'[p] = r
        /\ \A q \in Certs!Process \ {p} : process'[q] = process[q]
        /\ \A q \in Certs!Process : Purpose(q, process'[q])
        /\ \A q \in Certs!Process :
             process'[q] \in [at : Certs!Step, for : Entity \cup Domain \cup {None}, ca : Certs!KeyOr, pair : Certs!KeyOr]
    BY <1>0, <2>1, <2>3, <2>6, ProcessGoes
  <2>12. /\ broken' = broken \cup {e} \/ broken' = broken \ {e}
         /\ e \notin broken' => \A q \in Certs!Process \ {p} : ~Writing(q, e)
    BY <2>1 DEF Certs!Breaks, Certs!Between, Writing
  <2>13. broken' \subseteq Entity \cup Domain
    BY <1>0, <2>4, <2>12 DEF Certs!TypeOK
  <2>8. CertsTypes'
    BY <1>0, <2>1, <2>2, <2>5, <2>7, <2>13 DEF CertsTypes, Certs!TypeOK
  <2>9. Challenged' /\ "web" \in Certs!Process
    BY <1>0, <2>1, <2>3, <2>7, ChallengesKept DEF Certs!Process, e
  <2>14. broken \cap Domain \subseteq broken'
    BY <1>0, <2>4, <2>12
  <2>10. Chains'
    BY <1>0, <2>1, <2>6, <2>7, <2>9, <2>14, ChainsKept
  <2>15. Pairs'
    <3> SUFFICES ASSUME NEW x \in Entity \ broken'
                 PROVE  KeyFollows(x)'
      BY DEF Pairs
    <3>1. CASE x = e
      BY <2>3, <2>5, <2>7, <2>12, <3>1 DEF KeyFollows, Writing
    <3>2. CASE x # e
      <4>1. KeyFollows(x) /\ issued'[x] = issued[x]
        BY <1>0, <2>5, <2>12, <3>2 DEF Pairs
      <4>2. \A q \in Certs!Process : Writing(q, x)' = Writing(q, x)
        BY <2>1, <2>3, <2>7, <3>2 DEF Writing
      <4>3. ~Writing(p, x)
        BY <2>1 DEF Writing
      <4> QED BY <2>7, <4>1, <4>2, <4>3 DEF KeyFollows, Writing
    <3> QED BY <3>1, <3>2
  <2>11. ~contested => OneRoot'
    BY <1>0, <2>1, <2>3, <2>4, <2>5, <2>7 DEF OneRoot, Making, ca
  <2> QED BY <2>1, <2>8, <2>9, <2>10, <2>11, <2>15 DEF CertsInv
<1> QED BY <1>1, <1>2, <1>3, <1>4

\* The private key is written, of a certificate or of a domain.
LEMMA PrivateKeeps ==
  ASSUME Certs!CertificatesAssumption, CertsInv, NEW p \in Certs!Process, Certs!WritePrivate(p)
  PROVE  CertsInv'
<1>0. /\ CertsTypes /\ Challenged /\ (~contested => OneRoot) /\ Chains /\ Pairs
      /\ Certs!TypeOK /\ process[p] \in ProcessRecord /\ Purpose(p, process[p])
      /\ Entity \cap Domain = {} /\ process[p].at = "private" /\ "web" \in Certs!Process
      /\ UNCHANGED <<root, records, keys, contested, broken, left>>
  BY DEF CertsInv, CertsTypes, Certs!CertificatesAssumption, Certs!WritePrivate, Certs!At, Certs!Process
<1> DEFINE e == process[p].for
           pair == process[p].pair
<1>1. pair \in Certs!KeyOr
  BY <1>0 DEF ProcessRecord
<1>2. CASE e \in Entity
  <2>1. issued' = [issued EXCEPT ![e].key = pair] /\ Certs!Goes(p, Certs!Idle) /\ UNCHANGED domains
    BY <1>2 DEF Certs!WritePrivate
  <2>2. ~Chaining(process[p])
    BY <1>0, <1>2 DEF Chaining
  <2>3. Certs!Idle \in ProcessRecord /\ Purpose(p, Certs!Idle) /\ Certs!Idle.at = "idle"
    BY IdleProcess
  <2>12. Writing(p, e)
    BY <1>0 DEF Writing
  <2>13. \A x \in Entity : x # e => ~Writing(p, x)
    BY <1>0 DEF Writing
  <2>4. /\ process' \in [Certs!Process -> ProcessRecord] /\ process'[p] = Certs!Idle
        /\ \A q \in Certs!Process \ {p} : process'[q] = process[q]
        /\ \A q \in Certs!Process : Purpose(q, process'[q])
        /\ \A q \in Certs!Process :
             process'[q] \in [at : Certs!Step, for : Entity \cup Domain \cup {None}, ca : Certs!KeyOr, pair : Certs!KeyOr]
    BY <1>0, <2>1, <2>3, ProcessGoes
  <2>5. process[p].for \notin Domain
    BY <1>0, <1>2
  <2>6. issued \in [Entity -> [crt : Certs!KeyOr, by : Certs!KeyOr, key : Certs!KeyOr]]
    BY <1>0 DEF Certs!TypeOK
  <2>14. pair = process[p].pair
    OBVIOUS
  <2> HIDE DEF e, pair
  <2>7. /\ issued' \in [Entity -> [crt : Certs!KeyOr, by : Certs!KeyOr, key : Certs!KeyOr]]
        /\ \A x \in Entity : issued'[x].crt = issued[x].crt /\ issued'[x].by = issued[x].by
        /\ issued'[e].key = pair /\ \A x \in Entity \ {e} : issued'[x] = issued[x]
    BY <1>1, <1>2, <2>1, <2>6
  <2>8. CertsTypes'
    BY <1>0, <2>1, <2>4, <2>7 DEF CertsTypes, Certs!TypeOK
  <2>9. Challenged'
    BY <1>0, <2>4, <2>5, ChallengesKept
  <2>10. Chains'
    BY <1>0, <2>1, <2>2, <2>3, <2>4, ChainsKept DEF Chaining
  <2>11. ASSUME OneRoot
         PROVE  OneRoot'
    <3>1. process'[p].at = "idle" /\ UNCHANGED root
      BY <1>0, <2>3, <2>4
    <3>2. root'.key # None /\ root'.crt = None => \E q \in Certs!Process : process'[q].at = "root"
      BY <1>0, <2>4, <2>11, <3>1 DEF OneRoot
    <3>3. \A x \in Entity : issued'[x].crt # None => root'.crt # None /\ issued'[x].by = root'.crt
      BY <2>7, <2>11, <3>1 DEF OneRoot
    <3> QED BY <2>4, <2>11, <3>1, <3>2, <3>3 DEF OneRoot, Making
  <2>15. Pairs'
    <3> SUFFICES ASSUME NEW x \in Entity \ broken'
                 PROVE  KeyFollows(x)'
      BY DEF Pairs
    <3>1. KeyFollows(x) /\ ~Writing(p, x)'
      BY <1>0, <2>3, <2>4 DEF Pairs, Writing
    <3>2. \A q \in Certs!Process \ {p} : Writing(q, x)' = Writing(q, x) /\ process'[q] = process[q]
      BY <2>4 DEF Writing
    <3>3. CASE x = e
      <4>1. \A q \in Certs!Process : ~Writing(q, x)'
        BY <2>12, <3>1, <3>2, <3>3 DEF KeyFollows
      <4>2. issued[x].crt = pair
        BY <2>12, <2>14, <3>1, <3>3 DEF KeyFollows
      <4>3. issued'[x].crt = issued'[x].key
        BY <2>7, <3>3, <4>2
      <4> QED BY <4>1, <4>3 DEF KeyFollows
    <3>4. CASE x # e
      <4>0. ~Writing(p, x)
        BY <2>13, <3>4
      <4>1. issued'[x] = issued[x] /\ \A q \in Certs!Process : Writing(q, x)' = Writing(q, x)
        BY <2>7, <3>1, <3>2, <3>4, <4>0 DEF Writing
      <4>2. \A q \in Certs!Process : Writing(q, x)' =>
              issued'[x].crt = process'[q].pair /\ \A z \in Certs!Process : Writing(z, x)' => z = q
        BY <3>1, <3>2, <4>1 DEF KeyFollows
      <4>3. (\A q \in Certs!Process : ~Writing(q, x)') => issued'[x].crt = issued'[x].key
        BY <3>1, <4>1 DEF KeyFollows
      <4> QED BY <4>2, <4>3 DEF KeyFollows
    <3> QED BY <3>3, <3>4
  <2> QED BY <1>0, <2>8, <2>9, <2>10, <2>11, <2>15 DEF CertsInv
<1>3. CASE e \notin Entity
  <2> DEFINE r == [process[p] EXCEPT !.at = "meta"]
  <2>1. domains' = [domains EXCEPT ![e].key = pair] /\ Certs!Goes(p, r) /\ UNCHANGED issued
    BY <1>3 DEF Certs!WritePrivate
  <2>2. p = "web" /\ e \in Domain
    BY <1>0, <1>3 DEF Purpose
  <2>3. r \in ProcessRecord /\ r.at = "meta" /\ r.for = e
    BY <1>0 DEF ProcessRecord, Certs!Step
  <2> HIDE DEF r
  <2>4. Purpose(p, r)
    BY <2>2, <2>3 DEF Purpose
  <2>5. /\ process' \in [Certs!Process -> ProcessRecord] /\ process'[p] = r
        /\ \A q \in Certs!Process \ {p} : process'[q] = process[q]
        /\ \A q \in Certs!Process : Purpose(q, process'[q])
        /\ \A q \in Certs!Process :
             process'[q] \in [at : Certs!Step, for : Entity \cup Domain \cup {None}, ca : Certs!KeyOr, pair : Certs!KeyOr]
    BY <1>0, <2>1, <2>3, <2>4, ProcessGoes
  <2>6. domains \in [Domain -> [crt : Certs!KeyOr, key : Certs!KeyOr, meta : BOOLEAN]]
    BY <1>0 DEF Certs!TypeOK
  <2>7. e = process["web"].for /\ pair = process["web"].pair /\ process["web"].at = "private"
    BY <1>0, <2>2
  <2> HIDE DEF e, pair
  <2>8. /\ domains' \in [Domain -> [crt : Certs!KeyOr, key : Certs!KeyOr, meta : BOOLEAN]]
        /\ domains'[e].key = pair /\ domains'[e].crt = domains[e].crt
        /\ \A d \in Domain \ {e} : domains'[d] = domains[d]
    BY <1>1, <2>1, <2>2, <2>6
  <2>9. CertsTypes'
    BY <1>0, <2>1, <2>5, <2>8 DEF CertsTypes, Certs!TypeOK
  <2>10. Challenged'
    BY <1>0, <2>2, <2>3, <2>5, <2>7, ChallengesKept
  <2>11. ASSUME NEW d \in Domain \ broken'
         PROVE  ChainHasKey(d)'
    <3>1. ChainHasKey(d)
      BY <1>0 DEF Chains
    <3>2. CASE d = e
      BY <2>2, <2>3, <2>5, <2>7, <2>8, <3>1, <3>2 DEF ChainHasKey
    <3>3. CASE d # e
      BY <2>2, <2>3, <2>5, <2>7, <2>8, <3>1, <3>3 DEF ChainHasKey, Certs!Listed
    <3> QED BY <3>2, <3>3
  <2>12. ~contested => OneRoot'
    BY <1>0, <2>1, <2>3, <2>5, RootKept
  <2>13. process[p].for \notin Entity
    BY <1>0, <2>2, <2>7
  <2>14. Pairs'
    BY <1>0, <2>1, <2>3, <2>5, <2>13, PairsKept
  <2> QED BY <1>0, <2>9, <2>10, <2>11, <2>12, <2>14 DEF CertsInv, Chains
<1> QED BY <1>2, <1>3

\* The steps of an order after the challenges are there.
LEMMA OrderKeeps ==
  ASSUME Certs!CertificatesAssumption, CertsInv,
         Certs!WriteChain \/ Certs!WriteMeta \/ Certs!WriteFails \/ Certs!CleanUp
  PROVE  CertsInv'
<1> DEFINE web == process["web"]
           d == web.for
<1>0. /\ CertsTypes /\ Challenged /\ (~contested => OneRoot) /\ Chains /\ Pairs
      /\ Certs!TypeOK /\ "web" \in Certs!Process /\ web \in ProcessRecord /\ Purpose("web", web)
      /\ Entity \cap Domain = {}
      /\ domains \in [Domain -> [crt : Certs!KeyOr, key : Certs!KeyOr, meta : BOOLEAN]]
  BY DEF CertsInv, CertsTypes, Certs!TypeOK, Certs!CertificatesAssumption, Certs!Process
<1> USE DEF Certs!At
<1>1. web.at \in {"order", "private", "meta", "clean"} /\ d \in Domain
  BY <1>0 DEF Certs!WriteChain, Certs!WriteMeta, Certs!WriteFails, Certs!CleanUp, Purpose
<1>2. CASE Certs!WriteChain
  <2> DEFINE r == [web EXCEPT !.at = "private", !.pair = keys']
  <2>1. /\ web.at = "order" /\ Certs!NewKey /\ Certs!Goes("web", r)
        /\ domains' = [domains EXCEPT ![d].crt = keys'] /\ Certs!Breaks("web", d) /\ UNCHANGED <<root, issued, records, contested, left>>
    BY <1>2 DEF Certs!WriteChain
  <2>2. keys' \in Certs!KeyOr /\ keys' \in 0 .. MaxKeys
    BY <1>0, <2>1, KeyMade
  <2>3. r \in ProcessRecord /\ r.at = "private" /\ r.for = d /\ r.pair = keys'
    BY <1>0, <2>2 DEF ProcessRecord, Certs!Step
  <2> HIDE DEF r
  <2>4. Purpose("web", r)
    BY <1>1, <2>3 DEF Purpose
  <2>5. /\ process' \in [Certs!Process -> ProcessRecord] /\ process'["web"] = r
        /\ \A q \in Certs!Process \ {"web"} : process'[q] = process[q]
        /\ \A q \in Certs!Process : Purpose(q, process'[q])
        /\ \A q \in Certs!Process :
             process'[q] \in [at : Certs!Step, for : Entity \cup Domain \cup {None}, ca : Certs!KeyOr, pair : Certs!KeyOr]
    BY <1>0, <2>1, <2>3, <2>4, ProcessGoes
  <2>6. /\ domains' \in [Domain -> [crt : Certs!KeyOr, key : Certs!KeyOr, meta : BOOLEAN]]
        /\ domains'[d].crt = keys' /\ \A x \in Domain \ {d} : domains'[x] = domains[x]
    BY <1>0, <1>1, <2>1, <2>2
  <2>11. broken' = broken \cup {d} \/ broken' = broken \ {d}
    BY <2>1 DEF Certs!Breaks
  <2>12. broken' \subseteq Entity \cup Domain
    BY <1>0, <1>1, <2>11 DEF Certs!TypeOK
  <2>7. CertsTypes'
    BY <1>0, <2>1, <2>2, <2>5, <2>6, <2>12 DEF CertsTypes, Certs!TypeOK
  <2>8. Challenged'
    BY <1>0, <2>1, <2>3, <2>5, ChallengesKept
  <2>9. ASSUME NEW x \in Domain \ broken'
        PROVE  ChainHasKey(x)'
    <3>1. x # d => ChainHasKey(x)
      BY <1>0, <2>11 DEF Chains
    <3>2. CASE x = d
      BY <2>3, <2>5, <2>6, <3>2 DEF ChainHasKey
    <3>3. CASE x # d
      BY <2>1, <2>3, <2>5, <2>6, <3>1, <3>3 DEF ChainHasKey, Certs!Listed
    <3> QED BY <3>2, <3>3
  <2>10. ~contested => OneRoot'
    BY <1>0, <2>1, <2>3, <2>5, RootKept
  <2>13. d \notin Entity
    BY <1>0, <1>1
  <2>14. broken \cap Entity \subseteq broken' /\ web.at = "order"
    BY <1>0, <2>1, <2>11, <2>13
  <2>15. Pairs'
    BY <1>0, <2>1, <2>3, <2>5, <2>13, <2>14, PairsKept
  <2> QED BY <2>1, <2>7, <2>8, <2>9, <2>10, <2>15 DEF CertsInv, Chains
<1> DEFINE clean == [web EXCEPT !.at = "clean"]
<1>3. clean \in ProcessRecord /\ clean.at = "clean" /\ clean.for = d /\ Purpose("web", clean)
  BY <1>0, <1>1 DEF ProcessRecord, Certs!Step, Purpose
<1>4. CASE Certs!WriteMeta
  <2>1. /\ web.at = "meta" /\ Certs!Goes("web", clean)
        /\ domains' = [domains EXCEPT ![d].meta = TRUE] /\ UNCHANGED <<root, issued, records, keys, contested, broken, left>>
    BY <1>4 DEF Certs!WriteMeta
  <2> HIDE DEF clean
  <2>2. /\ process' \in [Certs!Process -> ProcessRecord] /\ process'["web"] = clean
        /\ \A q \in Certs!Process \ {"web"} : process'[q] = process[q]
        /\ \A q \in Certs!Process : Purpose(q, process'[q])
        /\ \A q \in Certs!Process :
             process'[q] \in [at : Certs!Step, for : Entity \cup Domain \cup {None}, ca : Certs!KeyOr, pair : Certs!KeyOr]
    BY <1>0, <1>3, <2>1, ProcessGoes
  <2>3. /\ domains' \in [Domain -> [crt : Certs!KeyOr, key : Certs!KeyOr, meta : BOOLEAN]]
        /\ domains'[d].crt = domains[d].crt /\ domains'[d].key = domains[d].key
        /\ \A x \in Domain \ {d} : domains'[x] = domains[x]
    BY <1>0, <1>1, <2>1
  <2>4. CertsTypes'
    BY <1>0, <2>1, <2>2, <2>3 DEF CertsTypes, Certs!TypeOK
  <2>5. Challenged'
    BY <1>0, <1>3, <2>1, <2>2, ChallengesKept
  <2>6. ASSUME NEW x \in Domain \ broken'
        PROVE  ChainHasKey(x)'
    <3>1. ChainHasKey(x)
      BY <1>0, <2>1 DEF Chains
    <3>2. CASE x = d
      BY <1>3, <2>1, <2>2, <2>3, <3>1, <3>2 DEF ChainHasKey
    <3>3. CASE x # d
      BY <1>3, <2>1, <2>2, <2>3, <3>1, <3>3 DEF ChainHasKey, Certs!Listed
    <3> QED BY <3>2, <3>3
  <2>7. ~contested => OneRoot'
    BY <1>0, <1>3, <2>1, <2>2, RootKept
  <2>8. Pairs'
    BY <1>0, <1>3, <2>1, <2>2, PairsKept
  <2> QED BY <2>1, <2>4, <2>5, <2>6, <2>7, <2>8 DEF CertsInv, Chains
<1>5. CASE Certs!WriteFails
  <2>1. /\ web.at \in {"order", "private", "meta"} /\ Certs!Goes("web", clean)
        /\ broken' = (IF web.at = "meta" THEN broken ELSE broken \cup {d})
        /\ UNCHANGED <<root, issued, domains, records, keys, contested, left>>
    BY <1>5 DEF Certs!WriteFails
  <2> HIDE DEF clean
  <2>2. /\ process' \in [Certs!Process -> ProcessRecord] /\ process'["web"] = clean
        /\ \A q \in Certs!Process \ {"web"} : process'[q] = process[q]
        /\ \A q \in Certs!Process : Purpose(q, process'[q])
        /\ \A q \in Certs!Process :
             process'[q] \in [at : Certs!Step, for : Entity \cup Domain \cup {None}, ca : Certs!KeyOr, pair : Certs!KeyOr]
    BY <1>0, <1>3, <2>1, ProcessGoes
  <2>3. broken' \subseteq Entity \cup Domain /\ broken \subseteq broken'
    BY <1>0, <1>1, <2>1 DEF Certs!TypeOK
  <2>4. CertsTypes'
    BY <1>0, <2>1, <2>2, <2>3 DEF CertsTypes, Certs!TypeOK
  <2>5. Challenged'
    BY <1>0, <1>3, <2>1, <2>2, ChallengesKept
  <2>6. ~Chaining(process'["web"]) /\ (web.at = "meta" \/ web.for \in broken')
    BY <1>3, <2>1, <2>2 DEF Chaining
  <2>7. Chains'
    BY <1>0, <2>1, <2>3, <2>6, ChainsKept
  <2>8. ~contested => OneRoot'
    BY <1>0, <1>3, <2>1, <2>2, RootKept
  <2>9. web.for \notin Entity
    BY <1>0, <1>1
  <2>10. Pairs'
    BY <1>0, <1>3, <2>1, <2>2, <2>3, <2>9, PairsKept
  <2> QED BY <2>1, <2>4, <2>5, <2>7, <2>8, <2>10 DEF CertsInv
<1>6. CASE Certs!CleanUp
  <2>1. /\ web.at = "clean" /\ Certs!Goes("web", Certs!Idle) /\ UNCHANGED <<root, issued, domains, keys, contested, broken>>
        /\ \E stay \in SUBSET Names(d) :
             /\ records' = (records \ Names(d)) \cup stay
             /\ left' = (left \ Names(d)) \cup stay
    BY <1>6 DEF Certs!CleanUp
  <2>2. Certs!Idle \in ProcessRecord /\ Purpose("web", Certs!Idle) /\ Certs!Idle.at = "idle"
    BY IdleProcess
  <2>3. /\ process' \in [Certs!Process -> ProcessRecord] /\ process'["web"] = Certs!Idle
        /\ \A q \in Certs!Process \ {"web"} : process'[q] = process[q]
        /\ \A q \in Certs!Process : Purpose(q, process'[q])
        /\ \A q \in Certs!Process :
             process'[q] \in [at : Certs!Step, for : Entity \cup Domain \cup {None}, ca : Certs!KeyOr, pair : Certs!KeyOr]
    BY <1>0, <2>1, <2>2, ProcessGoes
  <2>4. Names(d) \subseteq Certs!Name
    BY <1>1 DEF Certs!Name
  <2>5. records' \subseteq Certs!Name /\ left' \subseteq Certs!Name /\ records' \subseteq left'
    BY <1>0, <2>1, <2>4 DEF Certs!TypeOK, Challenged
  <2>6. CertsTypes'
    BY <1>0, <2>1, <2>3, <2>5 DEF CertsTypes, Certs!TypeOK
  <2>7. Challenged'
    BY <2>5 DEF Challenged
  <2>8. Chains' /\ Pairs'
    BY <1>0, <2>1, <2>2, <2>3, ChainsKept, PairsKept DEF Chaining
  <2>9. ~contested => OneRoot'
    BY <1>0, <2>1, <2>2, <2>3, RootKept
  <2> QED BY <2>1, <2>6, <2>7, <2>8, <2>9 DEF CertsInv
<1> QED BY <1>2, <1>4, <1>5, <1>6

\* Orders that begin, domains that go, and processes that die.
LEMMA OthersKeep ==
  ASSUME Certs!CertificatesAssumption, CertsInv,
         \/ \E d \in Domain : Certs!Order(d) \/ Certs!OrderFails(d) \/ Certs!DeleteDomain(d)
         \/ \E p \in Certs!Process : Certs!Die(p)
  PROVE  CertsInv'
<1> DEFINE web == process["web"]
<1>0. /\ CertsTypes /\ Challenged /\ (~contested => OneRoot) /\ Chains /\ Pairs
      /\ Certs!TypeOK /\ "web" \in Certs!Process /\ web \in ProcessRecord /\ Purpose("web", web)
      /\ Entity \cap Domain = {} /\ None \notin Domain
      /\ domains \in [Domain -> [crt : Certs!KeyOr, key : Certs!KeyOr, meta : BOOLEAN]]
      /\ \A d \in Domain : Names(d) \subseteq Certs!Name
  BY DEF CertsInv, CertsTypes, Certs!TypeOK, Certs!CertificatesAssumption, Certs!Process, Certs!Name
<1> USE DEF Certs!At
<1>1. ASSUME NEW d \in Domain, Certs!Order(d)
      PROVE  CertsInv'
  <2> DEFINE r == [Certs!Idle EXCEPT !.at = "order", !.for = d]
  <2>1. /\ web.at = "idle" /\ records' = records \cup Names(d) /\ Certs!Goes("web", r)
        /\ UNCHANGED <<root, issued, domains, keys, contested, broken, left>>
    BY <1>1 DEF Certs!Order
  <2>2. r \in ProcessRecord /\ r.at = "order" /\ r.for = d
    BY IdleProcess DEF ProcessRecord, Certs!Step
  <2> HIDE DEF r
  <2>3. Purpose("web", r)
    BY <2>2 DEF Purpose
  <2>4. /\ process' \in [Certs!Process -> ProcessRecord] /\ process'["web"] = r
        /\ \A q \in Certs!Process \ {"web"} : process'[q] = process[q]
        /\ \A q \in Certs!Process : Purpose(q, process'[q])
        /\ \A q \in Certs!Process :
             process'[q] \in [at : Certs!Step, for : Entity \cup Domain \cup {None}, ca : Certs!KeyOr, pair : Certs!KeyOr]
    BY <1>0, <2>1, <2>2, <2>3, ProcessGoes
  <2>5. web.for = None
    BY <1>0, <2>1 DEF Purpose
  <2>6. records' \subseteq Certs!Name /\ Challenged'
    BY <1>0, <2>1, <2>2, <2>4, <2>5 DEF Certs!TypeOK, Challenged
  <2>7. CertsTypes'
    BY <1>0, <2>1, <2>4, <2>6 DEF CertsTypes, Certs!TypeOK
  <2>8. Chains' /\ Pairs'
    BY <1>0, <2>1, <2>2, <2>4, ChainsKept, PairsKept DEF Chaining
  <2>9. ~contested => OneRoot'
    BY <1>0, <2>1, <2>2, <2>4, RootKept
  <2> QED BY <2>1, <2>6, <2>7, <2>8, <2>9 DEF CertsInv
<1>2. ASSUME NEW d \in Domain, Certs!OrderFails(d)
      PROVE  CertsInv'
  <2>1. /\ UNCHANGED <<root, issued, domains, process, keys, contested, broken>>
        /\ \E some \in SUBSET Names(d) : records' = records \cup some /\ left' = left \cup some
    BY <1>2 DEF Certs!OrderFails
  <2>2. records' \subseteq Certs!Name /\ left' \subseteq Certs!Name /\ Challenged'
    BY <1>0, <2>1 DEF Certs!TypeOK, Challenged
  <2>3. CertsTypes'
    BY <1>0, <2>1, <2>2 DEF CertsTypes, Certs!TypeOK
  <2> QED BY <1>0, <2>1, <2>2, <2>3 DEF CertsInv, OneRoot, Chains, ChainHasKey, Certs!Listed, Making, Pairs, KeyFollows, Writing
<1>3. ASSUME NEW d \in Domain, Certs!DeleteDomain(d)
      PROVE  CertsInv'
  <2> DEFINE gone == [crt |-> None, key |-> None, meta |-> FALSE]
  <2>1. /\ web.at = "idle" /\ domains' = [domains EXCEPT ![d] = gone]
        /\ UNCHANGED <<root, issued, records, process, keys, contested, broken, left>>
    BY <1>3 DEF Certs!DeleteDomain
  <2>2. gone \in [crt : Certs!KeyOr, key : Certs!KeyOr, meta : BOOLEAN] /\ gone.meta = FALSE
    BY DEF Certs!KeyOr
  <2> HIDE DEF gone
  <2>3. /\ domains' \in [Domain -> [crt : Certs!KeyOr, key : Certs!KeyOr, meta : BOOLEAN]]
        /\ domains'[d].meta = FALSE /\ \A x \in Domain \ {d} : domains'[x] = domains[x]
    BY <1>0, <2>1, <2>2
  <2>4. CertsTypes'
    BY <1>0, <2>1, <2>3 DEF CertsTypes, Certs!TypeOK
  <2>5. ASSUME NEW x \in Domain \ broken'
        PROVE  ChainHasKey(x)'
    <3>1. ChainHasKey(x)
      BY <1>0, <2>1 DEF Chains
    <3> QED BY <2>1, <2>3, <3>1 DEF ChainHasKey, Certs!Listed
  <2>6. Challenged' /\ Pairs' /\ (~contested => OneRoot')
    BY <1>0, <2>1 DEF Challenged, OneRoot, Making, Pairs, KeyFollows, Writing
  <2> QED BY <2>1, <2>4, <2>5, <2>6 DEF CertsInv, Chains
<1>4. ASSUME NEW p \in Certs!Process, Certs!Die(p)
      PROVE  CertsInv'
  <2>1. /\ Certs!Goes(p, Certs!Idle) /\ process[p].at # "idle"
        /\ contested' = (contested \/ process[p].at = "key" \/ process[p].at = "root")
        /\ broken' = (IF process[p].at \in {"issue", "private", "order"}
                      THEN broken \cup {process[p].for} ELSE broken)
        /\ left' = IF process[p].for \in Domain THEN left \cup Names(process[p].for) ELSE left
        /\ UNCHANGED <<root, issued, domains, records, keys>>
    BY <1>4 DEF Certs!Die
  <2>2. Certs!Idle \in ProcessRecord /\ Purpose(p, Certs!Idle) /\ Certs!Idle.at = "idle"
    BY IdleProcess
  <2>9. Purpose(p, process[p])
    BY <1>0 DEF CertsTypes
  <2>7. /\ broken' \subseteq Entity \cup Domain /\ broken \subseteq broken' /\ contested' \in BOOLEAN
        /\ process[p].at # "private" \/ process[p].for \in broken'
    BY <1>0, <2>1, <2>9 DEF Certs!TypeOK, Purpose
  <2>3. /\ process' \in [Certs!Process -> ProcessRecord] /\ process'[p] = Certs!Idle
        /\ \A q \in Certs!Process \ {p} : process'[q] = process[q]
        /\ \A q \in Certs!Process : Purpose(q, process'[q])
        /\ \A q \in Certs!Process :
             process'[q] \in [at : Certs!Step, for : Entity \cup Domain \cup {None}, ca : Certs!KeyOr, pair : Certs!KeyOr]
    BY <1>0, <2>1, <2>2, ProcessGoes
  <2>4. left' \subseteq Certs!Name
    BY <1>0, <2>1 DEF Certs!TypeOK
  <2>5. CertsTypes'
    BY <1>0, <2>1, <2>3, <2>4, <2>7 DEF CertsTypes, Certs!TypeOK
  <2>6. Challenged'
    BY <1>0, <2>1, <2>3 DEF Challenged
  <2>8. Pairs'
    BY <1>0, <2>1, <2>2, <2>3, <2>7, PairsKept
  <2>10. Chains'
    <3>1. CASE p = "web"
      <4>1. ~Chaining(process'["web"]) /\ (~Chaining(web) \/ web.at = "meta" \/ web.for \in broken')
        BY <2>2, <2>3, <2>7, <3>1 DEF Chaining
      <4> QED BY <1>0, <2>1, <2>7, <4>1, ChainsKept
    <3>2. CASE p # "web"
      BY <1>0, <2>1, <2>3, <2>7, <3>2, ChainsKept
    <3> QED BY <3>1, <3>2
  <2>11. ~contested' => OneRoot'
    BY <1>0, <2>1, <2>2, <2>3, RootKept
  <2> QED BY <2>5, <2>6, <2>8, <2>10, <2>11 DEF CertsInv
<1> QED BY <1>1, <1>2, <1>3, <1>4

LEMMA CertificatesHold ==
  ASSUME Certs!CertificatesAssumption
  PROVE  Certs!Spec => [](Certs!TypeOK /\ Certs!CertificatesUsable)
<1>1. Certs!Init => CertsInv
  <2> SUFFICES ASSUME Certs!Init
               PROVE  CertsInv
    OBVIOUS
  <2> DEFINE noRoot == [key |-> None, crt |-> None]
             notIssued == [crt |-> None, by |-> None, key |-> None]
             noDomain == [crt |-> None, key |-> None, meta |-> FALSE]
  <2>1. /\ root = noRoot /\ issued = [e \in Entity |-> notIssued] /\ domains = [d \in Domain |-> noDomain]
        /\ records = {} /\ left = {} /\ process = [p \in Certs!Process |-> Certs!Idle]
        /\ keys = 0 /\ contested = FALSE /\ broken = {} /\ "web" \in Certs!Process
    BY DEF Certs!Init, Certs!Process
  <2>2. /\ noRoot \in [key : Certs!KeyOr, crt : Certs!KeyOr] /\ noRoot.key = None /\ noRoot.crt = None
        /\ notIssued \in [crt : Certs!KeyOr, by : Certs!KeyOr, key : Certs!KeyOr] /\ notIssued.crt = None /\ notIssued.key = None
        /\ noDomain \in [crt : Certs!KeyOr, key : Certs!KeyOr, meta : BOOLEAN] /\ noDomain.meta = FALSE
    BY DEF Certs!KeyOr
  <2> HIDE DEF noRoot, notIssued, noDomain
  <2>3. /\ process \in [Certs!Process -> ProcessRecord]
        /\ \A p \in Certs!Process : Purpose(p, process[p]) /\ process[p].at = "idle"
    BY <2>1, IdleProcess
  <2>4. keys \in 0 .. MaxKeys
    BY <2>1 DEF Certs!CertificatesAssumption
  <2>5. /\ issued \in [Entity -> [crt : Certs!KeyOr, by : Certs!KeyOr, key : Certs!KeyOr]]
        /\ domains \in [Domain -> [crt : Certs!KeyOr, key : Certs!KeyOr, meta : BOOLEAN]]
    BY <2>1, <2>2
  <2>6. \A p \in Certs!Process :
          process[p] \in [at : Certs!Step, for : Entity \cup Domain \cup {None}, ca : Certs!KeyOr, pair : Certs!KeyOr]
    BY <2>3 DEF ProcessRecord
  <2>7. records \subseteq Certs!Name /\ left \subseteq Certs!Name /\ contested \in BOOLEAN /\ broken \subseteq Entity \cup Domain
        /\ root \in [key : Certs!KeyOr, crt : Certs!KeyOr]
    BY <2>1, <2>2
  <2>8. Certs!TypeOK
    BY <2>4, <2>5, <2>6, <2>7 DEF Certs!TypeOK
  <2>9. Challenged
    BY <2>1 DEF Challenged
  <2>10. Chains
    BY <2>1, <2>2, <2>3 DEF Chains, ChainHasKey, Certs!Listed
  <2>12. Pairs
    BY <2>1, <2>2, <2>3 DEF Pairs, KeyFollows, Writing
  <2>11. OneRoot
    BY <2>1, <2>2, <2>3 DEF OneRoot, Making
  <2> QED BY <2>3, <2>8, <2>9, <2>10, <2>11, <2>12 DEF CertsInv, CertsTypes
<1>2. Certs!CertificatesAssumption /\ CertsInv /\ [Certs!Next]_Certs!vars => CertsInv'
  <2> SUFFICES ASSUME CertsInv, [Certs!Next]_Certs!vars
               PROVE  CertsInv'
    OBVIOUS
  <2>1. CASE UNCHANGED Certs!vars
    BY <2>1 DEF Certs!vars, CertsInv, CertsTypes, Certs!TypeOK, Challenged, OneRoot, Making, Chains, ChainHasKey, Certs!Listed, Pairs, KeyFollows, Writing
  <2>2. CASE Certs!Next
    BY <2>2, IssuingKeeps, PrivateKeeps, OrderKeeps, OthersKeep DEF Certs!Next
  <2> QED BY <2>1, <2>2
<1>3. CertsInv => Certs!TypeOK /\ Certs!CertificatesUsable
  <2> SUFFICES ASSUME CertsInv
               PROVE  Certs!TypeOK /\ Certs!CertificatesUsable
    OBVIOUS
  <2>1. "web" \in Certs!Process
    BY DEF Certs!Process
  <2>2. ~contested => \A e \in Entity : issued[e].crt # None => Certs!Verifies(e)
    BY DEF CertsInv, OneRoot, Certs!Verifies
  <2>3. \A d \in Domain \ broken : Certs!Quiet(d) /\ Certs!Listed(d) => domains[d].crt = domains[d].key
    BY <2>1 DEF CertsInv, Chains, ChainHasKey, Certs!Quiet
  <2>5. \A e \in Entity \ broken : Certs!Quiet(e) => issued[e].crt = issued[e].key
    BY DEF CertsInv, Pairs, KeyFollows, Writing, Certs!Quiet
  <2>4. \A name \in records \ left : \E d \in Domain : name \in Names(d) /\ ~Certs!Quiet(d)
    BY <2>1 DEF CertsInv, Challenged, Certs!Quiet
  <2> QED BY <2>2, <2>3, <2>4, <2>5 DEF CertsInv, CertsTypes, Certs!CertificatesUsable
<1> QED BY <1>1, <1>2, <1>3, PTL DEF Certs!Spec

-----------------------------------------------------------------------------
(* The whole and its parts. *)

\* A step of the whole is one of its part.
LEMMA AccessSteps ==
  ASSUME Next
  PROVE  /\ part' = part
         /\ part = "Sessions" => Sessions!Next
         /\ part = "Accounts" => Accounts!Next
         /\ part = "Tokens" => Tokens!Next
         /\ part = "Certs" => Certs!Next
  BY DEF Next, HouseholdStep, GatewaysStep, TokensStep, RegistryStep, SyncStep, AlertingStep, AppsStep,
       BackupStep, SessionsStep, AccountsStep, CertsStep, SetupStep, UpdatesStep, SettingsStep,
       FirewallStep, BuildsStep, Rest

\* A behaviour of the whole is one of Sessions, or never its own.
LEMMA SessionsPart == Spec => (Sessions!Spec /\ [](part = "Sessions")) \/ []~(part = "Sessions")
<1>1. Init /\ part = "Sessions" => Sessions!Init
  BY DEF Init
<1>2. [Next]_vars => part' = part /\ (part = "Sessions" => [Sessions!Next]_Sessions!vars)
  <2>1. ASSUME UNCHANGED vars
        PROVE  part' = part /\ UNCHANGED Sessions!vars
    BY <2>1 DEF vars, SessionsOwn, Shared, Sessions!vars, Sessions!accounts
  <2> QED BY <2>1, AccessSteps
<1>3. [Next]_vars /\ part = "Sessions" => (part = "Sessions")' /\ [Sessions!Next]_Sessions!vars
  BY <1>2
<1>4. [Next]_vars /\ ~(part = "Sessions") => (~(part = "Sessions"))'
  BY <1>2
<1> QED BY <1>1, <1>3, <1>4, PTL DEF Spec, Sessions!Spec

\* A behaviour of the whole is one of Accounts, or never its own.
LEMMA AccountsPart == Spec => (Accounts!Spec /\ [](part = "Accounts")) \/ []~(part = "Accounts")
<1>1. Init /\ part = "Accounts" => Accounts!Init
  BY DEF Init
<1>2. [Next]_vars => part' = part /\ (part = "Accounts" => [Accounts!Next]_Accounts!vars)
  <2>1. ASSUME UNCHANGED vars
        PROVE  part' = part /\ UNCHANGED Accounts!vars
    BY <2>1 DEF vars, AccountsOwn, Shared, Accounts!vars
  <2> QED BY <2>1, AccessSteps
<1>3. [Next]_vars /\ part = "Accounts" => (part = "Accounts")' /\ [Accounts!Next]_Accounts!vars
  BY <1>2
<1>4. [Next]_vars /\ ~(part = "Accounts") => (~(part = "Accounts"))'
  BY <1>2
<1> QED BY <1>1, <1>3, <1>4, PTL DEF Spec, Accounts!Spec

\* A behaviour of the whole is one of Tokens, or never its own.
LEMMA TokensPart == Spec => (Tokens!Spec /\ [](part = "Tokens")) \/ []~(part = "Tokens")
<1>1. Init /\ part = "Tokens" => Tokens!Init
  BY DEF Init
<1>2. [Next]_vars => part' = part /\ (part = "Tokens" => [Tokens!Next]_Tokens!vars)
  <2>1. ASSUME UNCHANGED vars
        PROVE  part' = part /\ UNCHANGED Tokens!vars
    BY <2>1 DEF vars, TokensOwn, Shared, Tokens!vars
  <2> QED BY <2>1, AccessSteps
<1>3. [Next]_vars /\ part = "Tokens" => (part = "Tokens")' /\ [Tokens!Next]_Tokens!vars
  BY <1>2
<1>4. [Next]_vars /\ ~(part = "Tokens") => (~(part = "Tokens"))'
  BY <1>2
<1> QED BY <1>1, <1>3, <1>4, PTL DEF Spec, Tokens!Spec

\* A behaviour of the whole is one of Certs, or never its own.
LEMMA CertsPart == Spec => (Certs!Spec /\ [](part = "Certs")) \/ []~(part = "Certs")
<1>1. Init /\ part = "Certs" => Certs!Init
  BY DEF Init
<1>2. [Next]_vars => part' = part /\ (part = "Certs" => [Certs!Next]_Certs!vars)
  <2>1. ASSUME UNCHANGED vars
        PROVE  part' = part /\ UNCHANGED Certs!vars
    BY <2>1 DEF vars, CertsOwn, Shared, Certs!vars
  <2> QED BY <2>1, AccessSteps
<1>3. [Next]_vars /\ part = "Certs" => (part = "Certs")' /\ [Certs!Next]_Certs!vars
  BY <1>2
<1>4. [Next]_vars /\ ~(part = "Certs") => (~(part = "Certs"))'
  BY <1>2
<1> QED BY <1>1, <1>3, <1>4, PTL DEF Spec, Certs!Spec

\* The types of these parts.
AccessTyped ==
  /\ part = "Sessions" => Sessions!TypeOK
  /\ part = "Accounts" => Accounts!TypeOK
  /\ part = "Tokens" => Tokens!TypeOK
  /\ part = "Certs" => Certs!TypeOK

LEMMA AccessTypes == Spec => []AccessTyped
<1>1. Sessions!Spec => [](Sessions!TypeOK /\ Sessions!RightsExpire)
  BY SessionsHold, ComponentsAssumption
<1>2. Accounts!Spec => [](Accounts!TypeOK /\ Accounts!DomainKept)
  BY AccountsHold, ComponentsAssumption
<1>3. Tokens!Spec => [](Tokens!TypeOK /\ Tokens!TokenAdmitsOnce)
  BY TokensHold
<1>4. Certs!Spec => [](Certs!TypeOK /\ Certs!CertificatesUsable)
  BY CertificatesHold, ComponentsAssumption
<1> QED BY <1>1, <1>2, <1>3, <1>4, SessionsPart, AccountsPart, TokensPart, CertsPart, PTL DEF AccessTyped

-----------------------------------------------------------------------------
(* Results. *)

\* Whoever ceases to be an administrator, wherever it is decided, loses the rights that
\* the tokens issued until then give within their life; and a login gives one token.
THEOREM RightsEnd == Spec => []RightsExpire
<1>1. Sessions!Spec => [](Sessions!TypeOK /\ Sessions!RightsExpire)
  BY SessionsHold, ComponentsAssumption
<1> QED BY SessionsPart, <1>1, PTL DEF RightsExpire

\* Whatever is created, disabled, deleted or reset, and whenever the web application is
\* killed: a login finds in users.json what the accounts in memory say, except after a
\* write that failed, a role that a load refused and the two managers of two first requests.
THEOREM DomainLogins == Spec => []DomainKept
<1>1. Accounts!Spec => [](Accounts!TypeOK /\ Accounts!DomainKept)
  BY AccountsHold, ComponentsAssumption
<1> QED BY AccountsPart, <1>1, PTL DEF DomainKept

\* A bootstrap token that validate_and_consume_token has accepted once is accepted never
\* again, whatever token commands, failing writes, restarts and expiries precede or
\* follow, unless it was then in the register of another directory, in the hands of a
\* token command, or in a register that could not be written.
THEOREM TokensSingleUse == Spec => []TokenAdmitsOnce
<1>1. Tokens!Spec => [](Tokens!TypeOK /\ Tokens!TokenAdmitsOnce)
  BY TokensHold
<1> QED BY TokensPart, <1>1, PTL DEF TokenAdmitsOnce

\* Whoever issues certificates, orders them and is killed: certificates verify while the
\* root was never contested, each has its key unless its last writers overlapped or did
\* not finish, and challenges stay only of orders that were refused part way or killed, or
\* where the provider kept them.
THEOREM CertificatesStayUsable == Spec => []CertificatesUsable
<1>1. Certs!Spec => [](Certs!TypeOK /\ Certs!CertificatesUsable)
  BY CertificatesHold, ComponentsAssumption
<1> QED BY CertsPart, <1>1, PTL DEF CertificatesUsable
=============================================================================
