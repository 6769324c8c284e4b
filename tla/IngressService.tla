--------------------------- MODULE IngressService ---------------------------
(***************************************************************************)
(* The ingress backend (src/kubernetes/ingress.go): Ensure, Remove,        *)
(* AddCertificate and RemoveCertificate of IngressService, as the HTTP     *)
(* server runs them: every request is a handler of its own, no lock orders *)
(* the handlers, and each call to the Kubernetes API is one atomic step    *)
(* between which the other handlers, the cluster's own controllers and its *)
(* operators act.  Any call may fail, and a handler whose call fails       *)
(* returns at once, leaving what it did in place; a crash of the process   *)
(* is every handler failing.                                               *)
(*                                                                         *)
(* Abstractions.  A hostname, an app and a CName are model values.  The    *)
(* main ingress of app a is stored under a, the ingress of a CName c under *)
(* c: ingressCName has no app in it.  The payload of the rules (services,  *)
(* ports, labels, options) is one value, route.  Reads of the App CRD and  *)
(* of the web services only matter by failing, which Fail covers.          *)
(*                                                                         *)
(* A definition marked "mutation" is the next one with a slip: the         *)
(* properties are known to tell the two apart.                             *)
(***************************************************************************)
EXTENDS Naturals, Sequences, FiniteSets, SequencesExt, KubeAPI

CONSTANTS
    Apps,           \* the apps
    CNames,         \* the CNames users may attach
    AppHosts,       \* AppHosts[a]: the hosts of app a itself, one per prefix
    Routes,         \* what the rules of an ingress may say beyond their host
    Requests,       \* the requests that may arrive, see RequestType
    Freezable,      \* the ingresses that operators may freeze
    Handlers,       \* the request handlers (goroutines of the HTTP server)
    MaxRequests,    \* bound: requests received
    MaxFaults,      \* bound: faults up to which a call may fail of itself
    MaxEvents       \* bound: actions of the cluster's operators

Names == Apps \cup CNames
Hosts == CNames \cup UNION {AppHosts[a] : a \in Apps}
SecretKeys == Apps \X Hosts     \* secretName(id, host)

EnsureRequest ==
    [op : {"Ensure"}, app : Apps, hosts : SUBSET Hosts, route : Routes,
     cnames : SUBSET CNames, issuers : SUBSET CNames,
     acme : BOOLEAN, acmeCName : BOOLEAN, httpOnly : BOOLEAN]
RemoveRequest == [op : {"Remove"}, app : Apps]
CertRequest ==
    [op : {"AddCertificate", "RemoveCertificate"}, app : Apps, host : Hosts]
RequestType == EnsureRequest \cup RemoveRequest \cup CertRequest

ASSUME NamesAssumption ==
    /\ Apps \cap CNames = {}
    /\ \A a \in Apps : AppHosts[a] \cap CNames = {}
    /\ IsFiniteSet(Hosts)
ASSUME RequestsAssumption ==
    /\ Requests \subseteq RequestType
    /\ \A r \in Requests : r.op = "Ensure" => r.hosts \subseteq AppHosts[r.app]
ASSUME BoundsAssumption ==
    MaxRequests \in Nat /\ MaxFaults \in Nat /\ MaxEvents \in Nat

VARIABLES
    ingress,        \* the Ingress objects, by name
    version,        \* the last resourceVersion given out under a name
    secret,         \* the TLS Secrets: their resourceVersion, 0 when absent
    secretVersion,  \* the last resourceVersion given out to a Secret
    certificate,    \* the cert-manager Certificates: uid of the owner Ingress
    handler,        \* the state of each request handler
    received,       \* requests received so far
    faults,         \* API calls that failed, and writes refused, so far
    events          \* operator actions so far

cluster == <<ingress, version, secret, secretVersion, certificate>>
bounds == <<received, faults, events>>
vars == <<cluster, handler, bounds>>

\* The rules of an ingress, and its TLS entries: no host twice.
HostList == {s \in Seq(Hosts) : IsInjective(s)}

\* An Ingress.  owner is the uid of the main ingress that owns a CName ingress
\* (the app of that main ingress is app); the main ingress has owner 0.
\* cnames is the router.tsuru.io/cnames annotation, issuer says whether one
\* of the cert-manager issuer annotations is set, acme the tls-acme one.
Ingress ==
    [uid : Nat, rv : Nat, terminating : BOOLEAN, frozen : BOOLEAN,
     app : Apps, owner : Nat, route : Routes,
     rules : HostList, tls : HostList,
     cnames : SUBSET CNames, issuer : BOOLEAN, acme : BOOLEAN]

\* Nil is not a name, a request or an object.
ASSUME NilAssumption == Nil \notin Names /\ Nil \notin RequestType /\ Nil \notin Ingress

Steps == {"get", "put", "cnames", "cput", "cdelete",
          "delete",
          "target", "main", "mksecret", "getsecret", "putsecret", "addtls",
          "untls", "unsecret",
          "return"}
Ends == {"idle", "ok", "error", "panic"}

Handler ==
    [pc : Steps \cup Ends, req : Requests \cup {Nil},
     name : Names \cup {Nil},       \* the ingress being worked on
     seen : Ingress \cup {Nil},     \* the ingress as the last Get returned it
     parent : Nat,                  \* uid of the main ingress after its Put
     todo : SUBSET CNames,          \* CNames still to ensure
     drop : SUBSET CNames,          \* CNames still to remove
     secretRV : Nat]                \* resourceVersion of the Secret read

TypeOK ==
    /\ ingress \in [Names -> Ingress \cup {Nil}]
    /\ version \in [Names -> Nat]
    /\ secret \in [SecretKeys -> Nat]
    /\ secretVersion \in [SecretKeys -> Nat]
    /\ certificate \in [SecretKeys -> Nat]
    /\ handler \in [Handlers -> Handler]
    /\ received \in Nat /\ faults \in Nat /\ events \in Nat

-----------------------------------------------------------------------------
(* Writes to the cluster.                                                  *)

CreateIngress(n, m) ==
    /\ ingress' = [ingress EXCEPT ![n] = Created(m, version[n] + 1)]
    /\ version' = [version EXCEPT ![n] = @ + 1]

ReplaceIngress(n, m) ==
    /\ ingress' = [ingress EXCEPT ![n] = Replaced(@, m, version[n] + 1)]
    /\ version' = [version EXCEPT ![n] = IF Over(ingress[n], m) = ingress[n] THEN @ ELSE @ + 1]

EditIngress(n, m) ==
    /\ ingress' = [ingress EXCEPT ![n] = Edited(@, m, version[n] + 1)]
    /\ version' = [version EXCEPT ![n] = IF Over(ingress[n], m) = ingress[n] THEN @ ELSE @ + 1]

DeleteIngress(n) ==
    /\ ingress' = [ingress EXCEPT ![n] = Nil]
    /\ UNCHANGED version

WriteSecret(k) ==
    /\ secret' = [secret EXCEPT ![k] = secretVersion[k] + 1]
    /\ secretVersion' = [secretVersion EXCEPT ![k] = @ + 1]

-----------------------------------------------------------------------------
(* The pure functions of the service.                                      *)

\* ingress.go isManagedByCertManager
IsManagedByCertManager(i) == i.issuer

\* ingress.go fillIngressTLS: one TLS entry for each rule, with its Secret.
FillIngressTLS(i) == [i EXCEPT !.tls = i.rules]

\* An ingress that Ensure must leave alone.
FrozenIgnored(i) == FALSE                       \* mutation
Frozen(i) == Exists(i) /\ i.frozen

\* The rules come out of a Go map: their order is not determined.
RuleOrders(hosts) == SetToSeqs(hosts)

\* The main ingress that Ensure builds for request r.
MainIngress(r, rules) ==
    LET bare == [uid |-> 0, rv |-> 0, terminating |-> FALSE, frozen |-> FALSE,
                 app |-> r.app, owner |-> 0, route |-> r.route,
                 rules |-> rules, tls |-> <<>>,
                 cnames |-> r.cnames, issuer |-> FALSE, acme |-> r.acme]
    IN  IF r.acme THEN FillIngressTLS(bare) ELSE bare

\* The owner reference of a CName ingress: the main ingress of its app.
CNameOwnerNone(parent) == 0                     \* mutation
CNameOwner(parent) == parent

\* The ingress that ensureCNameBackend builds for CName c under the main
\* ingress with uid parent.
CNameIngress(r, c, parent) ==
    LET issued == ~r.httpOnly /\ ~r.acmeCName /\ c \in r.issuers
        acmed == ~r.httpOnly /\ r.acmeCName
        bare == [uid |-> 0, rv |-> 0, terminating |-> FALSE, frozen |-> FALSE,
                 app |-> r.app, owner |-> CNameOwner(parent), route |-> r.route,
                 rules |-> <<c>>, tls |-> <<>>,
                 cnames |-> {}, issuer |-> issued, acme |-> acmed]
    IN  IF issued \/ acmed THEN FillIngressTLS(bare) ELSE bare

IngressHasChangesButOwner(old, new) ==          \* mutation
    \/ <<old.rules, old.tls, old.route>> # <<new.rules, new.tls, new.route>>
    \/ old.cnames # new.cnames
    \/ old.app # new.app
    \/ new.issuer /\ ~old.issuer
    \/ new.acme /\ ~old.acme

\* ingress.go ingressHasChanges: the spec, the owner, the cnames annotation,
\* and the annotations and labels of the new ingress; an annotation that
\* only the old one has is not a change.
IngressHasChanges(old, new) ==
    \/ <<old.rules, old.tls, old.route>> # <<new.rules, new.tls, new.route>>
    \/ old.owner # new.owner
    \/ old.cnames # new.cnames
    \/ old.app # new.app
    \/ new.issuer /\ ~old.issuer
    \/ new.acme /\ ~old.acme

\* ingress.go mergeIngressAndUpdate: TLS entries nobody manages are kept, for
\* all the rules of the new ingress ...
MergeIngress(new, old) ==
    IF old.tls # <<>> /\ ~IsManagedByCertManager(old) THEN FillIngressTLS(new) ELSE new

\* ... and the update carries the version that was read.
MergeVersionUnset(old) == 0                     \* mutation
MergeVersion(old) == old.rv

\* istiogateway.go diffCNames
CNamesToAdd(old, wanted) ==                     \* mutation
    IF Exists(old) THEN wanted \ old.cnames ELSE {}
CNamesToRemove(old, wanted) == IF Exists(old) THEN old.cnames \ wanted ELSE {}

\* The checks of AddCertificate on the ingress it targets.
MayAddCertificate(i, host) ==
    /\ ~IsManagedByCertManager(i)
    /\ host \in ToSet(i.rules)
    /\ ~i.acme

MayRemoveCertificate(i) == ~i.acme /\ ~IsManagedByCertManager(i)

AppendTLSEntry(tls, host) == Append(tls, host)  \* mutation
AddTLSEntry(tls, host) == IF host \in ToSet(tls) THEN tls ELSE Append(tls, host)

\* RemoveCertificate shrinks the slice it ranges over: removing an entry that
\* is not the last one makes the loop index past the end, so an entry is only
\* ever removed from the end.
RemovalPanics(tls, host) == \E k \in DOMAIN tls : tls[k] = host /\ k < Len(tls)
KeepTLSEntry(tls, host) == tls                  \* mutation
DropTLSEntry(tls, host) ==
    IF tls # <<>> /\ tls[Len(tls)] = host THEN SubSeq(tls, 1, Len(tls) - 1) ELSE tls

-----------------------------------------------------------------------------
(* Steps of a handler.                                                     *)

Idle == [pc |-> "idle", req |-> Nil, name |-> Nil, seen |-> Nil, parent |-> 0,
         todo |-> {}, drop |-> {}, secretRV |-> 0]

ingresses == <<ingress, version>>
secrets == <<secret, secretVersion>>

At(p, step) == handler[p].pc = step
Key(p) == <<handler[p].req.app, handler[p].req.host>>

\* The handler returns: only the request and its outcome are left of it.
End(p, outcome) ==
    handler' = [handler EXCEPT ![p] =
        [Idle EXCEPT !.pc = outcome, !.req = handler[p].req, !.parent = handler[p].parent]]

\* A call the server refuses: the handler returns the error.
Refused(p) ==
    /\ End(p, "error")
    /\ faults' = faults + 1
    /\ UNCHANGED <<cluster, received, events>>

Init ==
    /\ ingress = [n \in Names |-> Nil]
    /\ version = [n \in Names |-> 0]
    /\ secret = [k \in SecretKeys |-> 0]
    /\ secretVersion = [k \in SecretKeys |-> 0]
    /\ certificate = [k \in SecretKeys |-> 0]
    /\ handler = [p \in Handlers |-> Idle]
    /\ received = 0 /\ faults = 0 /\ events = 0

FirstStep(op) ==
    CASE op = "Ensure" -> "get"
      [] op = "Remove" -> "delete"
      [] OTHER -> "target"

Receive(p) ==
    /\ handler[p].pc \in Ends
    /\ received < MaxRequests
    /\ \E r \in Requests :
        handler' = [handler EXCEPT ![p] = [Idle EXCEPT !.pc = FirstStep(r.op), !.req = r]]
    /\ received' = received + 1
    /\ UNCHANGED <<cluster, faults, events>>

\* Any call of any handler may fail, its effect applied or not (a lost reply
\* is a failure of the next step); nothing is undone.
Fail(p) ==
    /\ handler[p].pc \in Steps
    /\ faults < MaxFaults
    /\ End(p, "error")
    /\ faults' = faults + 1
    /\ UNCHANGED <<cluster, received, events>>

Return(p) ==
    /\ At(p, "return")
    /\ End(p, "ok")
    /\ UNCHANGED <<cluster, bounds>>

-----------------------------------------------------------------------------
(* Ensure.                                                                 *)

\* Read the main ingress; a frozen one ends the request with success.
EnsureGet(p) ==
    LET a == handler[p].req.app IN
    /\ At(p, "get")
    /\ \/ /\ Frozen(ingress[a])
          /\ handler' = [handler EXCEPT ![p].pc = "return"]
       \/ /\ ~Frozen(ingress[a])
          /\ handler' = [handler EXCEPT ![p] =
                [@ EXCEPT !.pc = "put", !.name = a, !.seen = ingress[a]]]
    /\ UNCHANGED <<cluster, bounds>>

\* On to the CNames, under the main ingress with uid parent.  The CNames to
\* remove come from the annotation of the ingress that was read.
GoToCNames(p, parent) ==
    LET h == handler[p] IN
    handler' = [handler EXCEPT ![p] =
        [Idle EXCEPT !.pc = "cnames", !.req = h.req, !.parent = parent,
                     !.todo = h.req.cnames,
                     !.drop = CNamesToRemove(h.seen, h.req.cnames)]]

EnsureCreate(p) ==
    LET h == handler[p] IN
    /\ At(p, "put") /\ ~Exists(h.seen)
    /\ \/ /\ ~Exists(ingress[h.name])
          /\ \E rules \in RuleOrders(h.req.hosts) :
                CreateIngress(h.name, MainIngress(h.req, rules))
          /\ GoToCNames(p, version[h.name] + 1)
          /\ UNCHANGED <<secrets, certificate, bounds>>
       \/ Exists(ingress[h.name]) /\ Refused(p)        \* AlreadyExists

EnsureUpdate(p) ==
    LET h == handler[p] IN
    /\ At(p, "put") /\ Exists(h.seen)
    /\ \E rules \in RuleOrders(h.req.hosts) :
        LET new == MainIngress(h.req, rules) IN
        \/ /\ ~IngressHasChanges(h.seen, new)
           /\ GoToCNames(p, h.seen.uid)
           /\ UNCHANGED <<cluster, bounds>>
        \/ /\ IngressHasChanges(h.seen, new)
           /\ Accepts(ingress[h.name], MergeVersion(h.seen))
           /\ ReplaceIngress(h.name, MergeIngress(new, h.seen))
           /\ GoToCNames(p, h.seen.uid)
           /\ UNCHANGED <<secrets, certificate, bounds>>
        \/ /\ IngressHasChanges(h.seen, new)
           /\ ~Accepts(ingress[h.name], MergeVersion(h.seen))
           /\ Refused(p)                               \* Conflict or NotFound

\* ensureCNameBackend, for each CName in turn; a frozen ingress is skipped.
CNameGet(p) ==
    /\ At(p, "cnames")
    /\ \E c \in handler[p].todo :
        \/ /\ Frozen(ingress[c])
           /\ handler' = [handler EXCEPT ![p].todo = @ \ {c}]
        \/ /\ ~Frozen(ingress[c])
           /\ handler' = [handler EXCEPT ![p] =
                [@ EXCEPT !.pc = "cput", !.name = c, !.seen = ingress[c]]]
    /\ UNCHANGED <<cluster, bounds>>

\* CName done: on with the others.
NextCName(p) ==
    LET h == handler[p] IN
    handler' = [handler EXCEPT ![p] =
        [h EXCEPT !.pc = "cnames", !.todo = @ \ {h.name}, !.name = Nil, !.seen = Nil]]

CNameCreate(p) ==
    LET h == handler[p] IN
    /\ At(p, "cput") /\ ~Exists(h.seen)
    /\ \/ /\ ~Exists(ingress[h.name])
          /\ CreateIngress(h.name, CNameIngress(h.req, h.name, h.parent))
          /\ NextCName(p)
          /\ UNCHANGED <<secrets, certificate, bounds>>
       \/ Exists(ingress[h.name]) /\ Refused(p)

AfterCNamePutDone(p, tls) == NextCName(p)       \* mutation

\* An ingress left without TLS entries has its cert-manager Certificate
\* deleted, whether or not this request changed the ingress.
AfterCNamePut(p, tls) ==
    IF tls # <<>> THEN NextCName(p) ELSE handler' = [handler EXCEPT ![p].pc = "cdelete"]

CNameUpdate(p) ==
    LET h == handler[p]
        new == CNameIngress(h.req, h.name, h.parent)
        merged == MergeIngress(new, h.seen)
    IN
    /\ At(p, "cput") /\ Exists(h.seen)
    /\ \/ /\ ~IngressHasChanges(h.seen, new)
          /\ AfterCNamePut(p, new.tls)
          /\ UNCHANGED <<cluster, bounds>>
       \/ /\ IngressHasChanges(h.seen, new)
          /\ Accepts(ingress[h.name], MergeVersion(h.seen))
          /\ ReplaceIngress(h.name, merged)
          /\ AfterCNamePut(p, merged.tls)
          /\ UNCHANGED <<secrets, certificate, bounds>>
       \/ /\ IngressHasChanges(h.seen, new)
          /\ ~Accepts(ingress[h.name], MergeVersion(h.seen))
          /\ Refused(p)

\* ensureCertmanagerCertificateDeleted
CNameDeleteCertificate(p) ==
    LET h == handler[p] IN
    /\ At(p, "cdelete")
    /\ certificate' = [certificate EXCEPT ![<<h.req.app, h.name>>] = 0]
    /\ NextCName(p)
    /\ UNCHANGED <<ingresses, secrets, bounds>>

\* removeCNameBackend, once every CName is ensured: the ingress is deleted by
\* its name, whatever its state; one that is not there is no error.
CNameRemove(p) ==
    /\ At(p, "cnames") /\ handler[p].todo = {}
    /\ \E c \in handler[p].drop :
        /\ DeleteIngress(c)
        /\ handler' = [handler EXCEPT ![p].drop = @ \ {c}]
    /\ UNCHANGED <<secrets, certificate, bounds>>

EnsureDone(p) ==
    /\ At(p, "cnames") /\ handler[p].todo = {} /\ handler[p].drop = {}
    /\ End(p, "ok")
    /\ UNCHANGED <<cluster, bounds>>

-----------------------------------------------------------------------------
(* Remove: one foreground Delete of the main ingress.                      *)

RemoveMain(p) ==
    LET a == handler[p].req.app IN
    /\ At(p, "delete")
    /\ \/ ~Exists(ingress[a]) /\ UNCHANGED ingresses
       \/ /\ Exists(ingress[a])
          /\ ingress' = [ingress EXCEPT ![a] = Marked(@, version[a] + 1)]
          /\ version' = [version EXCEPT ![a] = IF ingress[a].terminating THEN @ ELSE @ + 1]
    /\ handler' = [handler EXCEPT ![p].pc = "return"]
    /\ UNCHANGED <<secrets, certificate, bounds>>

-----------------------------------------------------------------------------
(* AddCertificate and RemoveCertificate.                                   *)

\* What the handler does with the ingress n it found for its host.
Targeted(p, n) ==
    LET r == handler[p].req
        on(step) == handler' = [handler EXCEPT ![p] =
                        [@ EXCEPT !.pc = step, !.name = n, !.seen = ingress[n]]]
    IN
    \/ r.op = "AddCertificate" /\ MayAddCertificate(ingress[n], r.host) /\ on("mksecret")
    \/ r.op = "AddCertificate" /\ ~MayAddCertificate(ingress[n], r.host) /\ End(p, "error")
    \/ r.op = "RemoveCertificate" /\ ~MayRemoveCertificate(ingress[n]) /\ End(p, "error")
    \/ /\ r.op = "RemoveCertificate" /\ MayRemoveCertificate(ingress[n])
       /\ ~RemovalPanics(ingress[n].tls, r.host)
       /\ on("untls")
    \/ /\ r.op = "RemoveCertificate" /\ MayRemoveCertificate(ingress[n])
       /\ RemovalPanics(ingress[n].tls, r.host)
       /\ End(p, "panic")

\* targetIngressForCertificate: the CName ingress when it is there and
\* labelled with the app ...
FindTarget(p) ==
    LET r == handler[p].req
        mine == r.host \in CNames /\ Exists(ingress[r.host]) /\ ingress[r.host].app = r.app
    IN
    /\ At(p, "target")
    /\ \/ mine /\ Targeted(p, r.host)
       \/ ~mine /\ handler' = [handler EXCEPT ![p].pc = "main"]
    /\ UNCHANGED <<cluster, bounds>>

\* ... and else the main ingress.
FindMain(p) ==
    LET a == handler[p].req.app IN
    /\ At(p, "main")
    /\ \/ Exists(ingress[a]) /\ Targeted(p, a)
       \/ ~Exists(ingress[a]) /\ End(p, "error")
    /\ UNCHANGED <<cluster, bounds>>

CreateSecret(p) ==
    /\ At(p, "mksecret")
    /\ \/ /\ secret[Key(p)] = 0
          /\ WriteSecret(Key(p))
          /\ handler' = [handler EXCEPT ![p].pc = "addtls"]
       \/ /\ secret[Key(p)] # 0                         \* AlreadyExists
          /\ handler' = [handler EXCEPT ![p].pc = "getsecret"]
          /\ UNCHANGED secrets
    /\ UNCHANGED <<ingresses, certificate, bounds>>

GetSecret(p) ==
    /\ At(p, "getsecret")
    /\ \/ /\ secret[Key(p)] # 0
          /\ handler' = [handler EXCEPT ![p] =
                [@ EXCEPT !.pc = "putsecret", !.secretRV = secret[Key(p)]]]
       \/ secret[Key(p)] = 0 /\ End(p, "error")
    /\ UNCHANGED <<cluster, bounds>>

UpdateSecret(p) ==
    /\ At(p, "putsecret")
    /\ \/ /\ secret[Key(p)] = handler[p].secretRV
          /\ WriteSecret(Key(p))
          /\ handler' = [handler EXCEPT ![p] = [@ EXCEPT !.pc = "addtls", !.secretRV = 0]]
          /\ UNCHANGED <<ingresses, certificate, bounds>>
       \/ secret[Key(p)] # handler[p].secretRV /\ Refused(p)

\* Both write back the ingress they read, with its version.
AddTLS(p) ==
    LET h == handler[p] IN
    /\ At(p, "addtls")
    /\ \/ /\ Accepts(ingress[h.name], h.seen.rv)
          /\ EditIngress(h.name, [h.seen EXCEPT !.tls = AddTLSEntry(@, h.req.host)])
          /\ handler' = [handler EXCEPT ![p].pc = "return"]
          /\ UNCHANGED <<secrets, certificate, bounds>>
       \/ ~Accepts(ingress[h.name], h.seen.rv) /\ Refused(p)

RemoveTLS(p) ==
    LET h == handler[p] IN
    /\ At(p, "untls")
    /\ \/ /\ Accepts(ingress[h.name], h.seen.rv)
          /\ EditIngress(h.name, [h.seen EXCEPT !.tls = DropTLSEntry(@, h.req.host)])
          /\ handler' = [handler EXCEPT ![p].pc = "unsecret"]
          /\ UNCHANGED <<secrets, certificate, bounds>>
       \/ ~Accepts(ingress[h.name], h.seen.rv) /\ Refused(p)

DeleteSecret(p) ==
    /\ At(p, "unsecret")
    /\ \/ /\ secret[Key(p)] # 0
          /\ secret' = [secret EXCEPT ![Key(p)] = 0]
          /\ handler' = [handler EXCEPT ![p].pc = "return"]
          /\ UNCHANGED <<ingresses, secretVersion, certificate, bounds>>
       \/ secret[Key(p)] = 0 /\ Refused(p)              \* NotFound is returned

-----------------------------------------------------------------------------
(* EXTERNAL: the controllers and the operators of the cluster.             *)

\* The main ingress that owns the CName ingress i is there.
OwnerThere(i) == Exists(ingress[i.app]) /\ ingress[i.app].uid = i.owner

\* The garbage collector deletes a dependent whose owner is gone, or under
\* foreground deletion.  An object without an owner is none of its business.
Collectable(i) ==
    /\ i.owner # 0
    /\ OwnerThere(i) => ingress[i.app].terminating

CollectCName(c) ==
    /\ Exists(ingress[c]) /\ Collectable(ingress[c])
    /\ DeleteIngress(c)
    /\ UNCHANGED <<secrets, certificate, handler, bounds>>

\* The marked main ingress goes once it has no dependents.
CollectMain(a) ==
    /\ Exists(ingress[a]) /\ ingress[a].terminating
    /\ \A c \in CNames : Exists(ingress[c]) /\ ingress[c].app = a => ingress[c].owner # ingress[a].uid
    /\ DeleteIngress(a)
    /\ UNCHANGED <<secrets, certificate, handler, bounds>>

\* A Certificate is owned by the ingress it was issued for.
CertificateHolder(k) == IF k[2] \in CNames THEN k[2] ELSE k[1]

CollectCertificate(k) ==
    LET i == ingress[CertificateHolder(k)] IN
    /\ certificate[k] # 0
    /\ Exists(i) => i.uid # certificate[k]
    /\ certificate' = [certificate EXCEPT ![k] = 0]
    /\ UNCHANGED <<ingresses, secrets, handler, bounds>>

\* cert-manager creates the Certificate, and then the Secret, of a TLS entry
\* of an ingress annotated for it.
IssueCertificate(n) ==
    /\ Exists(ingress[n]) /\ (ingress[n].issuer \/ ingress[n].acme)
    /\ \E host \in ToSet(ingress[n].tls) :
        LET k == <<ingress[n].app, host>> IN
        /\ certificate[k] = 0
        /\ certificate' = [certificate EXCEPT ![k] = ingress[n].uid]
        /\ \/ secret[k] = 0 /\ WriteSecret(k)
           \/ secret[k] # 0 /\ UNCHANGED secrets
    /\ UNCHANGED <<ingresses, handler, bounds>>

Event == events < MaxEvents /\ events' = events + 1 /\ UNCHANGED <<received, faults>>

\* The Service that owns the main ingress is deleted (a redeploy, say), and
\* the main ingress with it.
OwnerServiceDeleted(a) ==
    /\ Exists(ingress[a]) /\ Event
    /\ DeleteIngress(a)
    /\ UNCHANGED <<secrets, certificate, handler>>

\* An operator sets or clears the router.tsuru.io/freeze annotation.
ToggleFreeze(n) ==
    /\ n \in Freezable /\ Exists(ingress[n]) /\ Event
    /\ ingress' = [ingress EXCEPT ![n].frozen = ~@, ![n].rv = version[n] + 1]
    /\ version' = [version EXCEPT ![n] = @ + 1]
    /\ UNCHANGED <<secrets, certificate, handler>>

-----------------------------------------------------------------------------
EnsureStep(p) ==
    \/ EnsureGet(p) \/ EnsureCreate(p) \/ EnsureUpdate(p)
    \/ CNameGet(p) \/ CNameCreate(p) \/ CNameUpdate(p) \/ CNameDeleteCertificate(p)
    \/ CNameRemove(p) \/ EnsureDone(p)

CertificateStep(p) ==
    \/ FindTarget(p) \/ FindMain(p)
    \/ CreateSecret(p) \/ GetSecret(p) \/ UpdateSecret(p) \/ AddTLS(p)
    \/ RemoveTLS(p) \/ DeleteSecret(p)

Collect ==
    \/ \E c \in CNames : CollectCName(c)
    \/ \E a \in Apps : CollectMain(a)
    \/ \E k \in SecretKeys : CollectCertificate(k)

Environment ==
    \/ Collect
    \/ \E n \in Names : IssueCertificate(n)
    \/ \E a \in Apps : OwnerServiceDeleted(a)
    \/ \E n \in Names : ToggleFreeze(n)

HandlerStep(p) ==
    Receive(p) \/ Fail(p) \/ Return(p) \/ EnsureStep(p) \/ RemoveMain(p) \/ CertificateStep(p)

Next == (\E p \in Handlers : HandlerStep(p)) \/ Environment

Spec == Init /\ [][Next]_vars

\* The garbage collector is a controller of the cluster: it keeps running.
FairSpec == Spec /\ WF_vars(Collect)
=============================================================================
