---------------------------- MODULE DomainAccounts ----------------------------
(***************************************************************************)
(* The accounts of the household's domain (identity_manager.py and the     *)
(* identity routes): a dictionary in the web application that is read from *)
(* users.json when the first request comes and written to it, whole, after *)
(* every change.  Logins against the domain read the file.                 *)
(*                                                                         *)
(* An account is its role, the person it is linked to, whether it is       *)
(* enabled, and its password, None where that is empty.  "other" is a role *)
(* that the model of an account does not accept; "parent" is accepted as   *)
(* "member" is.  Nothing sets an account's lock.                           *)
(***************************************************************************)
EXTENDS Naturals, FiniteSets

CONSTANTS
  Administrator,  \* the built-in account
  Username,       \* the other accounts
  Alike(_),       \* the names that differ from a name in case only, and it
  Alias,          \* names alike "admin"
  Person,
  Password,       \* passwords that accounts are given
  HardWired,      \* those that are written in auth.py
  None,
  Torn,           \* a file that is opened for writing and not yet written
  Reading,        \* a second manager that has not yet read the file
  MaxChanges      \* bound: changes

VARIABLES
  memory,    \* _in_memory_users of the manager that serves requests, or None before the first
  other,     \* None, or the second of two managers that two first requests have built
  users,     \* users.json: None, Torn, or the accounts
  people,    \* people the configuration knows
  writing,   \* None, or what _save_state is writing
  changes,
  spoilt     \* history: why the file may differ from the memory (see DomainKept)

vars == <<memory, other, users, people, writing, changes, spoilt>>

Account == {Administrator} \cup Username
Role == {"admin", "member", "other"}
Record == [role : Role, person : Person \cup {None}, enabled : BOOLEAN,
           password : Password \cup {None}]
Accounts == [Account -> Record \cup {None}]

DomainAssumption ==
  /\ MaxChanges \in Nat
  /\ None # Torn /\ None # Reading /\ None \notin Record /\ None \notin Password
  /\ {None, Torn, Reading} \cap Accounts = {}
  /\ \A a \in Account : a \in Alike(a) /\ Alike(a) \subseteq Account
  /\ \A a \in Account : \A b \in Alike(a) : Alike(b) = Alike(a)

TypeOK ==
  /\ memory = None \/ memory \in Accounts
  /\ other \in {None, Reading} \/ other \in Accounts
  /\ users \in {None, Torn} \/ users \in Accounts
  /\ people \subseteq Person
  /\ writing = None \/ writing \in Accounts
  /\ spoilt \in BOOLEAN
  /\ changes \in 0 .. MaxChanges

-----------------------------------------------------------------------------
NoAccounts == [a \in Account |-> None]
Seeded == [NoAccounts EXCEPT ![Administrator] =
             [role |-> "admin", person |-> None, enabled |-> TRUE, password |-> None]]
File == users \notin {None, Torn}

Refused(accounts) == {a \in Account : accounts[a] # None /\ accounts[a].role = "other"}
Only(accounts, kept) == [a \in Account |-> IF a \in kept THEN accounts[a] ELSE None]

\* _load_state: a file that is not there is the built-in account, one that is not whole is
\* no account at all, and an account whose role is refused ends the loop: what comes after
\* it in the file, an order left open here, is not loaded.
Read ==
  CASE users = None -> {Seeded}
    [] users = Torn -> {NoAccounts}
    [] OTHER -> IF Refused(users) = {} THEN {users}
                ELSE {Only(users, kept) : kept \in SUBSET (Account \ Refused(users))}

\* The first request builds the manager, in a thread; a second one that found none yet
\* builds another.
Load ==
  /\ memory = None
  /\ memory' \in Read
  /\ other' \in {None, Reading}
  /\ spoilt' = (File /\ Refused(users) # {})
  /\ UNCHANGED <<users, people, writing, changes>>

ReadAgain ==
  /\ other = Reading
  /\ other' \in Read
  /\ UNCHANGED <<memory, users, people, writing, changes, spoilt>>

\* The later assignment puts the other manager in the first one's place.  The first still
\* serves the requests that hold it, however many those are.
Switch ==
  /\ other \notin {None, Reading} /\ writing = None
  /\ memory' = other /\ other' = memory
  /\ spoilt' = TRUE
  /\ UNCHANGED <<users, people, writing, changes>>

\* Requests to the routes come one at a time, and each ends with _save_state.
Ready == memory # None /\ writing = None /\ changes < MaxChanges

\* A file that cannot be opened, and later one that cannot be written, is a warning.
Save(accounts) ==
  /\ memory' = accounts
  /\ changes' = changes + 1
  /\ \/ users' = Torn /\ writing' = accounts /\ UNCHANGED spoilt
     \/ spoilt' = TRUE /\ UNCHANGED <<users, writing>>
  /\ UNCHANGED <<other, people>>

\* Mutant: only accounts that are enabled are written.
EnabledOnly ==
  [a \in Account |-> IF writing[a] # None /\ writing[a].enabled THEN writing[a] ELSE None]

Dumped == writing

Written ==
  /\ writing # None
  /\ users' = Dumped /\ writing' = None
  /\ spoilt' = FALSE
  /\ UNCHANGED <<memory, other, people, changes>>

\* The disk is full: what there is of the file stays.
WriteFails ==
  /\ writing # None
  /\ writing' = None /\ spoilt' = TRUE
  /\ UNCHANGED <<memory, other, users, people, changes>>

Known(p) == p = None \/ p \in people

\* The new account is made as a file's is: with a role that is not accepted it is refused.
CreateUser(a, r) ==
  /\ Ready /\ memory[a] = None
  /\ r.enabled /\ r.role # "other" /\ Known(r.person)
  /\ Save([memory EXCEPT ![a] = r])

\* Every field that is given, the role as it comes; a person who is not known is refused
\* before anything.
UpdateUser(a, r) ==
  /\ Ready /\ memory[a] # None
  /\ r.person # memory[a].person => Known(r.person)
  /\ r.password # memory[a].password => r.password # None
  /\ Save([memory EXCEPT ![a] = r])

ResetPassword(a, password) ==
  /\ Ready /\ memory[a] # None
  /\ Save([memory EXCEPT ![a].password = password])

DeleteUser(a) ==
  /\ Ready /\ a \notin Alike(Administrator) /\ memory[a] # None
  /\ Save([memory EXCEPT ![a] = None])

\* People come and go, and the accounts linked to them stay.
PeopleChange ==
  /\ people' \in SUBSET Person /\ people' # people
  /\ UNCHANGED <<memory, other, users, writing, changes, spoilt>>

\* The web application stops, or is killed while it writes.
Restart ==
  /\ memory # None
  /\ memory' = None /\ other' = None /\ writing' = None
  /\ UNCHANGED <<users, people, changes, spoilt>>

-----------------------------------------------------------------------------
(* LDAPAuthProvider, where the directory itself does not answer. *)

\* _get_stored_user finds an account alike the name, the first in the file: any of them
\* here, or None where there is none.
Stored(name) ==
  LET alike == {a \in Alike(name) : File /\ users[a] # None} IN
    IF alike = {} THEN {None} ELSE {users[a] : a \in alike}

\* authenticate: not an account that is disabled; else with its password, and the built-in
\* one also with those in the code, whatever its own is.
Authenticates(name, password) ==
  \E r \in Stored(name) :
    /\ r # None => r.enabled
    /\ \/ r # None /\ r.password = password
       \/ name \in Alike(Administrator) /\ password \in HardWired

\* resolve_role: the role in the file; a name without an account is an administrator's if
\* it is the built-in one or "admin".
ResolvedRole(name) ==
  {IF r # None THEN r.role
   ELSE IF name \in Alike(Administrator) \cup Alias THEN "admin" ELSE "member" :
     r \in Stored(name)}

Init ==
  /\ memory = None /\ other = None
  /\ users = None
  /\ people \in SUBSET Person
  /\ writing = None /\ changes = 0 /\ spoilt = FALSE

Next ==
  \/ Load \/ ReadAgain \/ Switch \/ Written \/ WriteFails \/ PeopleChange \/ Restart
  \/ \E a \in Account :
       \/ DeleteUser(a)
       \/ \E r \in Record : CreateUser(a, r) \/ UpdateUser(a, r)
       \/ \E password \in Password \cup {None} : ResetPassword(a, password)

Spec == Init /\ [][Next]_vars

-----------------------------------------------------------------------------
(* Properties. *)

Have(name) == {a \in Alike(name) : memory[a] # None}

\* Between requests a login finds what the accounts in memory say: an account that is
\* disabled does not get in, one that is enabled does with its password, and the built-in
\* administrator, unless disabled, also with a password of the code.  Four things may come
\* between, until the next write that succeeds: a write that fails, a load that met a role
\* the model of an account refuses (the accounts after it are then lost with that write),
\* and the two managers of two first requests, each with a copy of its own; and a write
\* cut short leaves no account in the file, and none in memory at the next start.
DomainKept ==
  ~spoilt /\ memory # None /\ writing = None =>
    \A name \in Account :
      /\ \A password \in Password \cup HardWired :
           Authenticates(name, password) <=>
             \/ \E a \in Have(name) : memory[a].enabled /\ memory[a].password = password
             \/ /\ name \in Alike(Administrator) /\ password \in HardWired
                /\ Have(name) = {} \/ \E a \in Have(name) : memory[a].enabled
      /\ \A a \in Have(name) : memory[a].role \in ResolvedRole(name)
      /\ "admin" \in ResolvedRole(name) =>
           \/ \E a \in Have(name) : memory[a].role = "admin"
           \/ Have(name) = {} /\ name \in Alike(Administrator) \cup Alias
=============================================================================
