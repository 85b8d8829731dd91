----------------------------- MODULE Certificates -----------------------------
(***************************************************************************)
(* The certificate directory (cert_manager.py, acme_service.py, the        *)
(* certificate routes, cli_certs.py).  The daemon, the web application and *)
(* the command line each have a CertificateManager on the same directory:  *)
(* the first that needs the root makes it.  Certificates for services,     *)
(* plugins and the console are signed with it; certificates of domains are *)
(* ordered by the web application, which leaves challenges with the DNS    *)
(* provider while it does.                                                 *)
(*                                                                         *)
(* A key pair is a number; a certificate is the number of its key and that *)
(* of the key that signed it.  Validity periods, names and scopes are not  *)
(* kept; a write that fails or is cut short leaves the file as it was here *)
(* and its owner among the "broken".                                       *)
(***************************************************************************)
EXTENDS Naturals, FiniteSets

CONSTANTS
  Entity,   \* services, plugins and the console
  Domain,
  Names(_), \* the names a domain's certificate is for: the domain and its SANs
  None,     \* no such file; no entity
  MaxKeys   \* bound: key pairs

CertificatesAssumption ==
  /\ MaxKeys \in Nat
  /\ Entity \cap Domain = {} /\ None \notin Entity \cup Domain \cup (1 .. MaxKeys)

Process == {"daemon", "web", "cli"}
Key == 1 .. MaxKeys
Name == UNION {Names(d) : d \in Domain}

VARIABLES
  root,     \* ca.key and ca.crt
  issued,   \* client.crt (or server.crt) and client.key of each entity
  domains,  \* fullchain.pem, privkey.pem and metadata.json of each domain
  records,  \* TXT records at the DNS provider
  process,  \* each process: where it is, for whom, and the key pairs it has
  keys,     \* the number of key pairs so far
  contested, \* history: somebody needed the root while another made it, or one died at it
  broken,   \* history: entities and domains whose last files were written by two processes
            \* at once, or not to the end
  left      \* history: records whose order was refused part way, or whose removal failed

vars == <<root, issued, domains, records, process, keys, contested, broken, left>>

Idle == [at |-> "idle", for |-> None, ca |-> None, pair |-> None]
Step == {"idle", "key", "root", "issue", "private", "order", "chain", "meta", "clean"}
KeyOr == Key \cup {None}

TypeOK ==
  /\ root \in [key : KeyOr, crt : KeyOr]
  /\ issued \in [Entity -> [crt : KeyOr, by : KeyOr, key : KeyOr]]
  /\ domains \in [Domain -> [crt : KeyOr, key : KeyOr, meta : BOOLEAN]]
  /\ records \subseteq Name /\ left \subseteq Name
  /\ \A p \in Process :
       process[p] \in [at : Step, for : Entity \cup Domain \cup {None}, ca : KeyOr, pair : KeyOr]
  /\ keys \in 0 .. MaxKeys
  /\ contested \in BOOLEAN /\ broken \subseteq Entity \cup Domain

-----------------------------------------------------------------------------
At(p, step) == process[p].at = step
Goes(p, to) == process' = [process EXCEPT ![p] = to]
NewKey == keys < MaxKeys /\ keys' = keys + 1

(* The root. *)

\* Mutant: a process that did not make the root makes one.
RootIsOwn == FALSE

RootExists == root.key # None /\ root.crt # None

\* ensure_root_ca, for a certificate or just to answer about the root.
Begin(p, e) ==
  /\ At(p, "idle")
  /\ IF RootExists
       THEN /\ e # None
            /\ Goes(p, [Idle EXCEPT !.at = "issue", !.for = e, !.ca = root.key])
       ELSE Goes(p, [Idle EXCEPT !.at = "key", !.for = e])
  /\ contested' = (contested \/ \E q \in Process : At(q, "key") \/ At(q, "root"))
  /\ UNCHANGED <<root, issued, domains, records, keys, broken, left>>

MakeRootKey(p) ==
  /\ At(p, "key") /\ NewKey
  /\ root' = [root EXCEPT !.key = keys']
  /\ Goes(p, [process[p] EXCEPT !.at = "root", !.ca = keys'])
  /\ UNCHANGED <<issued, domains, records, contested, broken, left>>

WriteRoot(p) ==
  /\ At(p, "root")
  /\ root' = [root EXCEPT !.crt = process[p].ca]
  /\ Goes(p, IF process[p].for = None THEN Idle ELSE [process[p] EXCEPT !.at = "issue"])
  /\ UNCHANGED <<issued, domains, records, keys, contested, broken, left>>

\* Another process is between the two files of the entity or domain.
Between(p, x) == \E q \in Process \ {p} : At(q, "private") /\ process[q].for = x
Breaks(p, x) == broken' = IF Between(p, x) THEN broken \cup {x} ELSE broken \ {x}

\* _issue_entity_cert, issue_server_cert: the certificate is written, and then its key.
IssueCertificate(p) ==
  /\ At(p, "issue") /\ NewKey
  /\ issued' = [issued EXCEPT ![process[p].for].crt = keys', ![process[p].for].by = process[p].ca]
  /\ Goes(p, [process[p] EXCEPT !.at = "private", !.pair = keys'])
  /\ Breaks(p, process[p].for)
  /\ UNCHANGED <<root, domains, records, contested, left>>

WritePrivate(p) ==
  /\ At(p, "private")
  /\ IF process[p].for \in Entity
       THEN /\ issued' = [issued EXCEPT ![process[p].for].key = process[p].pair]
            /\ Goes(p, Idle)
            /\ UNCHANGED domains
       ELSE /\ domains' = [domains EXCEPT ![process[p].for].key = process[p].pair]
            /\ Goes(p, [process[p] EXCEPT !.at = "meta"])
            /\ UNCHANGED issued
  /\ UNCHANGED <<root, records, keys, contested, broken, left>>

-----------------------------------------------------------------------------
(* Domains: request_certificate, in one request to the web application. *)

\* A new order, or the renewal of a certificate that is listed; the DNS provider takes
\* the challenge of every name.
Order(d) ==
  /\ At("web", "idle")
  /\ records' = records \cup Names(d)
  /\ Goes("web", [Idle EXCEPT !.at = "order", !.for = d])
  /\ UNCHANGED <<root, issued, domains, keys, contested, broken, left>>

\* It refuses one: the challenges before that one stay, which were made before the block
\* that would remove them.
OrderFails(d) ==
  /\ At("web", "idle")
  /\ \E some \in (SUBSET Names(d)) \ {Names(d)} :
       /\ records' = records \cup some
       /\ left' = left \cup some
  /\ UNCHANGED <<root, issued, domains, process, keys, contested, broken>>

WriteChain ==
  /\ At("web", "order") /\ NewKey
  /\ domains' = [domains EXCEPT ![process["web"].for].crt = keys']
  /\ Goes("web", [process["web"] EXCEPT !.at = "private", !.pair = keys'])
  /\ Breaks("web", process["web"].for)
  /\ UNCHANGED <<root, issued, records, contested, left>>

WriteMeta ==
  /\ At("web", "meta")
  /\ domains' = [domains EXCEPT ![process["web"].for].meta = TRUE]
  /\ Goes("web", [process["web"] EXCEPT !.at = "clean"])
  /\ UNCHANGED <<root, issued, records, keys, contested, broken, left>>

\* A file cannot be written: the challenges are removed all the same.
WriteFails ==
  /\ process["web"].for \in Domain
  /\ At("web", "order") \/ At("web", "private") \/ At("web", "meta")
  /\ broken' = IF At("web", "meta") THEN broken ELSE broken \cup {process["web"].for}
  /\ Goes("web", [process["web"] EXCEPT !.at = "clean"])
  /\ UNCHANGED <<root, issued, domains, records, keys, contested, left>>

\* The provider may not remove some, or an earlier order's for the same name.
CleanUp ==
  /\ At("web", "clean")
  /\ \E stay \in SUBSET Names(process["web"].for) :
       /\ records' = (records \ Names(process["web"].for)) \cup stay
       /\ left' = (left \ Names(process["web"].for)) \cup stay
  /\ Goes("web", Idle)
  /\ UNCHANGED <<root, issued, domains, keys, contested, broken>>

DeleteDomain(d) ==
  /\ At("web", "idle") /\ domains[d] # [crt |-> None, key |-> None, meta |-> FALSE]
  /\ domains' = [domains EXCEPT ![d] = [crt |-> None, key |-> None, meta |-> FALSE]]
  /\ UNCHANGED <<root, issued, records, process, keys, contested, broken, left>>

\* A process is killed, or ends what it does for the root or an entity because a file cannot
\* be written.
Die(p) ==
  /\ ~At(p, "idle")
  /\ Goes(p, Idle)
  /\ contested' = (contested \/ At(p, "key") \/ At(p, "root"))
  /\ broken' = IF At(p, "issue") \/ At(p, "private") \/ At(p, "order")
                THEN broken \cup {process[p].for} ELSE broken
  /\ left' = IF process[p].for \in Domain THEN left \cup Names(process[p].for) ELSE left
  /\ UNCHANGED <<root, issued, domains, records, keys>>

-----------------------------------------------------------------------------
\* verify_client_cert: the root's public key verifies the signature.
Verifies(e) == issued[e].crt # None /\ issued[e].by = root.crt

\* list_certificates
Listed(d) == domains[d].meta /\ domains[d].crt # None

Init ==
  /\ root = [key |-> None, crt |-> None]
  /\ issued = [e \in Entity |-> [crt |-> None, by |-> None, key |-> None]]
  /\ domains = [d \in Domain |-> [crt |-> None, key |-> None, meta |-> FALSE]]
  /\ records = {} /\ left = {}
  /\ process = [p \in Process |-> Idle]
  /\ keys = 0 /\ contested = FALSE /\ broken = {}

Next ==
  \/ \E p \in Process :
       \/ \E e \in Entity \cup {None} : Begin(p, e)
       \/ MakeRootKey(p) \/ WriteRoot(p) \/ IssueCertificate(p) \/ WritePrivate(p) \/ Die(p)
  \/ \E d \in Domain : Order(d) \/ OrderFails(d) \/ DeleteDomain(d)
  \/ WriteChain \/ WriteMeta \/ WriteFails \/ CleanUp

Spec == Init /\ [][Next]_vars

-----------------------------------------------------------------------------
(* Properties. *)

\* Nobody is at the files of the entity or domain.
Quiet(x) == \A p \in Process : process[p].for # x

\* Certificates go on verifying against the root whoever issues the next one, unless the
\* root itself was contested: two processes needed it when there was none, or one died
\* between its two files; then the key that signs may never match it again.  A certificate
\* has the key beside it, once nobody is at it, unless two processes wrote them at once or
\* one did not get to the end; the next that does mends it.  And a challenge that no order
\* is at is of an order the provider refused part way, which the code leaves, of one whose
\* process was killed, or one that the provider did not remove.
CertificatesUsable ==
  /\ ~contested => \A e \in Entity : issued[e].crt # None => Verifies(e)
  /\ \A e \in Entity \ broken : Quiet(e) => issued[e].crt = issued[e].key
  /\ \A d \in Domain \ broken : Quiet(d) /\ Listed(d) => domains[d].crt = domains[d].key
  /\ \A name \in records \ left : \E d \in Domain : name \in Names(d) /\ ~Quiet(d)
=============================================================================
