------------------------ MODULE IngressSerialProofs ------------------------
(***************************************************************************)
(* What an Ensure of the ingress backend leaves behind when no other       *)
(* request was under way; that every request takes effect atomically on    *)
(* each ingress it writes; that TLS entries added by hand have their       *)
(* Secrets.  For any apps, CNames, handlers and bounds.                    *)
(*                                                                         *)
(* The argument: an ingress of a CName is written for its app and under    *)
(* the uid of the main ingress just written (Attached), the cluster        *)
(* collects it only when that main ingress is marked or gone, so every     *)
(* CName done stays done (Attaches).  And an ingress hangs from a main     *)
(* ingress only while the annotation of that main ingress names it, or the *)
(* request under way has still to drop it (Tracks): a main ingress that is *)
(* new has a uid that no owner reference has yet, one that is updated was  *)
(* read with the annotation it has.  The first holds whatever failed       *)
(* before, the second needs that nothing did.                              *)
(*                                                                         *)
(* A write is of what was read, and the server accepts it only while that  *)
(* is what is stored (Writing), so that it is the write of a request that  *)
(* had started there and then.  With what a certificate request checked of *)
(* the ingress it found (Targets) it is a step of AtomicIngress.           *)
(*                                                                         *)
(* A TLS entry added by hand comes from an earlier one of the same app for *)
(* the same host or from AddCertificate (EntryOrigin), which has written   *)
(* the Secret by then (Secured); a Secret only goes with RemoveCertificate *)
(* (SecretGoes), which by then has dropped the entry (Clears).  Where no   *)
(* Ensure asks for two hosts an ingress has one entry at most (Single),    *)
(* and its removal is that of the last one.                                *)
(***************************************************************************)
EXTENDS IngressProofs

\* The hosts an ingress of that name may serve.
HostsOf(n) == IF n \in CNames THEN {n} ELSE AppHosts[n]

\* Ensure, once the main ingress is written.
CNamePCs == {"cnames", "cput", "cdelete"}
AddPCs == {"mksecret", "getsecret", "putsecret", "addtls"}

\* An ingress i, as it is stored under the name n; v are the versions given out.
Proper(n, i, v) ==
    /\ ToSet(i.rules) \subseteq HostsOf(n) /\ ToSet(i.tls) \subseteq HostsOf(n)
    /\ n \in Apps => i.app = n
    /\ n \in CNames => ~i.terminating
    /\ i.frozen => n \in Freezable
    /\ 0 < i.uid /\ i.uid <= v[n]
    /\ i.owner <= v[i.app]

AllProper == \A n \in Names : Exists(ingress[n]) => Proper(n, ingress[n], version)

\* What the position of a handler, besides Staged, says of its locals.
Steady(h, v) ==
    /\ h.pc \in AddPCs => h.req.host \in ToSet(h.seen.rules)
    /\ h.parent # 0 =>
        h.pc \in CNamePCs \cup {"ok", "error"} /\ h.req # Nil /\ h.parent <= v[h.req.app]
    /\ h.pc \in CNamePCs =>
        h.parent # 0 /\ h.todo \subseteq h.req.cnames /\ h.drop \cap h.req.cnames = {}
    /\ h.pc \in {"cput", "cdelete"} => h.name \in h.todo

LocalsOK(p) ==
    /\ Exists(handler[p].seen) => Proper(handler[p].name, handler[p].seen, version)
    /\ Steady(handler[p], version)

CertificatesBound ==
    \A a \in Apps, c \in CNames : certificate[<<a, c>>] <= version[c]

\* Only a handler that has answered nothing has no request.
Asked == \A p \in Handlers : ~At(p, "idle") => handler[p].req \in Requests

Sound == AllProper /\ (\A p \in Handlers : LocalsOK(p)) /\ CertificatesBound /\ Asked

\* The ingress of the CName c hangs from the main ingress of app a with uid parent ...
Attached(a, c, parent) ==
    Exists(ingress[c]) /\ ingress[c].app = a /\ ingress[c].owner = parent

\* ... and cert-manager has no certificate for it when it has no TLS.
Fulfilled(a, c, parent) ==
    /\ Attached(a, c, parent)
    /\ ingress[c].tls = <<>> => certificate[<<a, c>>] # ingress[c].uid

\* What an Ensure has done of its CNames.
Attaches(p) ==
    LET h == handler[p]
        r == h.req
    IN  r # Nil /\ MainStands(p) =>
        /\ h.pc \in CNamePCs =>
            \A c \in (r.cnames \ h.todo) \ Freezable : Fulfilled(r.app, c, h.parent)
        /\ At(p, "ok") /\ r.op = "Ensure" =>
            \A c \in r.cnames \ Freezable : Fulfilled(r.app, c, h.parent)
        /\ /\ At(p, "cput") /\ h.name \notin Freezable
           /\ Exists(h.seen) /\ h.seen.app = r.app /\ h.seen.owner = h.parent
           => ingress[h.name] = h.seen
        /\ At(p, "cdelete") /\ h.name \notin Freezable =>
            Attached(r.app, h.name, h.parent)

Hanging(a) == {c \in CNames : Attached(a, c, ingress[a].uid)}

\* The annotations of the main ingresses, with what the request under way has still to drop,
\* tell of all the CName ingresses that hang from them.
Tracks(p) ==
    LET h == handler[p]
        r == h.req
        main == ingress[r.app]
    IN  /\ \A a \in Apps : Exists(ingress[a]) =>
            Hanging(a) \subseteq (IF h.pc \in CNamePCs /\ a = r.app THEN r.cnames \cup h.drop
                                 ELSE ingress[a].cnames)
        /\ At(p, "put") /\ Exists(main) =>
            Exists(h.seen) /\ main.cnames = h.seen.cnames /\ main.uid = h.seen.uid
        /\ h.pc \in CNamePCs \cup {"ok"} /\ h.parent # 0 /\ Exists(main) =>
            main.cnames = r.cnames

Stage(p) == Attaches(p) /\ (faults = 0 => Tracks(p))

InTurn == \A p \in Handlers : Alone(p) => Stage(p)

IInvSerial == IInv /\ Sound /\ InTurn

-----------------------------------------------------------------------------
(* What is sent and what is stored.                                        *)

LEMMA MainIngressIs ==
    ASSUME NEW r \in Requests, r \in EnsureRequest, NEW rules \in RuleOrders(r.hosts)
    PROVE  LET m == MainIngress(r, rules) IN
           /\ ToSet(m.rules) \subseteq AppHosts[r.app]
           /\ ToSet(m.tls) \subseteq AppHosts[r.app]
           /\ m.app = r.app /\ m.owner = 0 /\ m.cnames = r.cnames /\ ~m.frozen
  <1>1. r.op = "Ensure" /\ r.hosts \in SUBSET Hosts /\ IsFiniteSet(r.hosts)
    BY NamesAssumption, FS_Subset DEF EnsureRequest
  <1>2. r.hosts \subseteq AppHosts[r.app]
    BY <1>1, RequestsAssumption
  <1>3. ToSet(rules) \subseteq r.hosts
    BY <1>1, FS_CardinalityType DEF RuleOrders, SetToSeqs, ToSet
  <1>4. ToSet(<<>>) = {}
    BY DEF ToSet
  <1> QED
    BY <1>2, <1>3, <1>4 DEF MainIngress, FillIngressTLS

LEMMA CNameIngressIs ==
    ASSUME NEW r \in EnsureRequest, NEW c \in CNames, NEW parent \in Nat
    PROVE  LET m == CNameIngress(r, c, parent) IN
           /\ ToSet(m.rules) \subseteq {c} /\ ToSet(m.tls) \subseteq {c}
           /\ m.app = r.app /\ m.owner = parent /\ ~m.frozen
  <1>1. ToSet(<<>>) = {} /\ ToSet(<<c>>) = {c}
    BY DEF ToSet
  <1> QED
    BY <1>1 DEF CNameIngress, FillIngressTLS, CNameOwner

LEMMA MergeIngressIs ==
    ASSUME NEW new \in Ingress, NEW old
    PROVE  LET m == MergeIngress(new, old) IN
           /\ m.rules = new.rules /\ (m.tls = new.tls \/ m.tls = new.rules)
           /\ m.app = new.app /\ m.owner = new.owner /\ m.cnames = new.cnames
           /\ m.frozen = new.frozen
  BY DEF MergeIngress, FillIngressTLS, Ingress

\* What makes an ingress hang where it hangs: nothing of it changes but for an Ensure.
SameRole(o, i) ==
    /\ i.uid = o.uid /\ i.app = o.app /\ i.owner = o.owner
    /\ i.cnames = o.cnames /\ i.rules = o.rules

LEMMA CreatedIs ==
    ASSUME NEW m \in Ingress, NEW v \in Nat
    PROVE  LET i == Created(m, v) IN
           /\ i.uid = v /\ ~i.terminating /\ i.frozen = m.frozen
           /\ i.rules = m.rules /\ i.tls = m.tls /\ i.cnames = m.cnames
           /\ i.app = m.app /\ i.owner = m.owner
  BY DEF Created, Ingress

LEMMA ReplacedIs ==
    ASSUME NEW o \in Ingress, NEW m \in Ingress, NEW v \in Nat, Exists(Replaced(o, m, v))
    PROVE  LET i == Replaced(o, m, v) IN
           /\ i.uid = o.uid /\ ~i.terminating /\ ~o.terminating /\ i.frozen = m.frozen
           /\ i.rules = m.rules /\ i.tls = m.tls /\ i.cnames = m.cnames
           /\ i.app = m.app /\ i.owner = m.owner
  <1>1. Over(o, m).uid = o.uid /\ Over(o, m).terminating = o.terminating
    BY DEF Over, Ingress
  <1>2. LET i == Over(o, m) IN
        /\ i.frozen = m.frozen
        /\ i.rules = m.rules /\ i.tls = m.tls /\ i.cnames = m.cnames
        /\ i.app = m.app /\ i.owner = m.owner
    BY DEF Over, Ingress
  <1>3. Over(o, m) \in Ingress
    BY OverType
  <1>4. ~o.terminating
    BY DEF Replaced, Exists
  <1>5. CASE Over(o, m) = o
    BY <1>1, <1>2, <1>4, <1>5 DEF Replaced
  <1>6. CASE Over(o, m) # o
    <2>1. Replaced(o, m, v) = [Over(o, m) EXCEPT !.rv = v]
      BY <1>4, <1>6 DEF Replaced
    <2> QED
      BY <1>1, <1>2, <1>3, <1>4, <2>1 DEF Ingress
  <1> QED
    BY <1>5, <1>6

\* AddTLS and RemoveTLS change the TLS entries only.
LEMMA EditedIs ==
    ASSUME NEW o \in Ingress, NEW tls \in HostList, NEW v \in Nat
    PROVE  LET i == Edited(o, [o EXCEPT !.tls = tls], v) IN
           /\ SameRole(o, i) /\ i.tls = tls
           /\ i.frozen = o.frozen /\ i.terminating = o.terminating
  <1> DEFINE m == [o EXCEPT !.tls = tls]
  <1>1. Over(o, m) = m
    BY DEF Over, Ingress
  <1>2. SameRole(o, m) /\ m.tls = tls /\ m.frozen = o.frozen /\ m.terminating = o.terminating
    BY DEF SameRole, Ingress
  <1>3. m \in Ingress
    BY DEF Ingress
  <1>4. LET i == Edited(o, m, v) IN
        /\ SameRole(o, i) /\ i.tls = tls
        /\ i.frozen = o.frozen /\ i.terminating = o.terminating
    <2> HIDE DEF m
    <2>1. CASE m = o
      BY <1>1, <1>2, <2>1 DEF Edited
    <2>2. CASE m # o
      <3>1. Edited(o, m, v) = [m EXCEPT !.rv = v]
        BY <1>1, <2>2 DEF Edited
      <3> QED
        BY <1>2, <1>3, <3>1 DEF SameRole, Ingress
    <2> QED
      BY <2>1, <2>2
  <1> QED
    BY <1>4

LEMMA TLSEntriesAre ==
    ASSUME NEW tls \in HostList, NEW host \in Hosts
    PROVE  /\ ToSet(AddTLSEntry(tls, host)) \subseteq ToSet(tls) \cup {host}
           /\ ToSet(DropTLSEntry(tls, host)) \subseteq ToSet(tls)
  <1>1. tls \in Seq(Hosts) /\ Len(tls) \in Nat
    BY DEF HostList
  <1>2. ToSet(AddTLSEntry(tls, host)) \subseteq ToSet(tls) \cup {host}
    BY <1>1 DEF AddTLSEntry, ToSet
  <1>3. ToSet(DropTLSEntry(tls, host)) \subseteq ToSet(tls)
    BY <1>1 DEF DropTLSEntry, ToSet
  <1> QED
    BY <1>2, <1>3

-----------------------------------------------------------------------------
(* Which ingresses a step writes, and what it makes of them.               *)

LEMMA CreateStores ==
    ASSUME TypeOK, NEW n \in Names, NEW m, CreateIngress(n, m)
    PROVE  /\ ingress'[n] = Created(m, version[n] + 1) /\ version'[n] = version[n] + 1
           /\ \A k \in Names \ {n} : ingress'[k] = ingress[k]
           /\ \A k \in Names : version'[k] >= version[k]
  BY DEF CreateIngress, TypeOK

LEMMA ReplaceStores ==
    ASSUME TypeOK, NEW n \in Names, NEW m, ReplaceIngress(n, m)
    PROVE  /\ ingress'[n] = Replaced(ingress[n], m, version[n] + 1)
           /\ \A k \in Names \ {n} : ingress'[k] = ingress[k]
           /\ \A k \in Names : version'[k] >= version[k]
  BY DEF ReplaceIngress, TypeOK

LEMMA EditStores ==
    ASSUME TypeOK, NEW n \in Names, NEW m, EditIngress(n, m)
    PROVE  /\ ingress'[n] = Edited(ingress[n], m, version[n] + 1)
           /\ \A k \in Names \ {n} : ingress'[k] = ingress[k]
           /\ \A k \in Names : version'[k] >= version[k]
  BY DEF EditIngress, TypeOK

\* What is proper stays so: versions only grow.
LEMMA ProperStays ==
    ASSUME TypeOK, TypeOK', StoreStep, NEW n \in Names, NEW i \in Ingress,
           Proper(n, i, version)
    PROVE  Proper(n, i, version')
  <1>1. i.uid \in Nat /\ i.owner \in Nat /\ i.app \in Names
    BY DEF Ingress, Names
  <1>2. \A k \in Names :
            version[k] \in Nat /\ version'[k] \in Nat /\ version'[k] >= version[k]
    BY DEF TypeOK, StoreStep
  <1> QED
    BY <1>1, <1>2 DEF Proper

\* A main ingress that Ensure writes.
LEMMA MainWrites ==
    ASSUME IInv, Sound, NEW p \in Handlers, EnsureCreate(p) \/ EnsureUpdate(p),
           NEW n \in Names, ingress'[n] # ingress[n], Exists(ingress'[n])
    PROVE  LET h == handler[p] IN
           /\ n = h.req.app /\ Proper(n, ingress'[n], version')
           /\ ingress'[n].cnames = h.req.cnames
           /\ \/ ~Exists(h.seen) /\ ~Exists(ingress[n]) /\ ingress'[n].uid = version[n] + 1
              \/ /\ Exists(h.seen) /\ ingress[n] = h.seen
                 /\ ingress'[n].uid = ingress[n].uid
  <1> DEFINE h == handler[p]
             m == h.name
  <1>0. TypeOK /\ StoreStep /\ h \in Handler /\ StageOK(h) /\ h.pc = "put"
    BY EnsureStores DEF IInv, TypeOK, Staged, EnsureStep, EnsureCreate, EnsureUpdate, At
  <1>1. /\ h.req \in EnsureRequest /\ h.req \in Requests
        /\ m = h.req.app /\ m \in Apps /\ m \in Names /\ m \notin CNames
    <2>1. h.req \in EnsureRequest /\ h.req \in Requests
      BY <1>0, NilAssumption DEF StageOK, EnsurePCs, Handler, RequestType
    <2> QED
      BY <1>0, <2>1, NamesAssumption DEF StageOK, EnsureRequest, Names
  <1>2. version[m] \in Nat /\ version'[m] \in Nat /\ version'[m] >= version[m]
    BY <1>0, <1>1, EnsureCreateTyped, EnsureUpdateTyped DEF TypeOK, IInv, StoreStep
  <1>3. HostsOf(m) = AppHosts[m]
    BY <1>1 DEF HostsOf
  <1>4. CASE EnsureCreate(p)
    <2>1. PICK rules \in RuleOrders(h.req.hosts) : CreateIngress(m, MainIngress(h.req, rules))
      BY <1>4 DEF EnsureCreate, Refused, cluster
    <2>2. ~Exists(h.seen) /\ ~Exists(ingress[m])
      BY <1>4 DEF EnsureCreate, Refused, cluster
    <2> DEFINE new == MainIngress(h.req, rules)
               made == Created(new, version[m] + 1)
    <2>3. new \in Ingress
      BY <1>1, MainIngressType
    <2>4. n = m /\ ingress'[n] = made /\ version'[n] = version[n] + 1
      BY <1>0, <1>1, <2>1, CreateStores
    <2>5. /\ ToSet(new.rules) \subseteq AppHosts[m] /\ ToSet(new.tls) \subseteq AppHosts[m]
          /\ new.app = m /\ new.owner = 0 /\ new.cnames = h.req.cnames /\ ~new.frozen
      BY <1>1, MainIngressIs
    <2> HIDE DEF new
    <2>6. /\ ToSet(made.rules) \subseteq AppHosts[m] /\ ToSet(made.tls) \subseteq AppHosts[m]
          /\ made.app = m /\ made.owner = 0 /\ made.cnames = h.req.cnames /\ ~made.frozen
          /\ made.uid = version[m] + 1
      BY <1>2, <2>3, <2>5, CreatedIs
    <2> HIDE DEF made
    <2>7. Proper(n, ingress'[n], version')
      BY <1>1, <1>2, <1>3, <2>4, <2>6 DEF Proper
    <2> QED
      BY <1>1, <2>2, <2>4, <2>6, <2>7
  <1>5. CASE EnsureUpdate(p)
    <2>0. Exists(h.seen)
      BY <1>5 DEF EnsureUpdate
    <2>1. PICK rules \in RuleOrders(h.req.hosts) :
            /\ Accepts(ingress[m], MergeVersion(h.seen))
            /\ ReplaceIngress(m, MergeIngress(MainIngress(h.req, rules), h.seen))
      BY <1>5 DEF EnsureUpdate, Refused, cluster
    <2>2. ingress[m] = h.seen /\ h.seen \in Ingress
      BY <2>0, <2>1, AcceptedIsSeen
    <2> DEFINE new == MainIngress(h.req, rules)
               merged == MergeIngress(new, h.seen)
               made == Replaced(h.seen, merged, version[m] + 1)
    <2>3. new \in Ingress /\ merged \in Ingress
      BY <1>1, <2>2, MainIngressType, MergeIngressType
    <2>4. n = m /\ ingress'[n] = made
      BY <1>0, <1>1, <2>1, <2>2, ReplaceStores
    <2>5. /\ ToSet(new.rules) \subseteq AppHosts[m] /\ ToSet(new.tls) \subseteq AppHosts[m]
          /\ new.app = m /\ new.owner = 0 /\ new.cnames = h.req.cnames /\ ~new.frozen
      BY <1>1, MainIngressIs
    <2> HIDE DEF new
    <2>6. /\ ToSet(merged.rules) \subseteq AppHosts[m] /\ ToSet(merged.tls) \subseteq AppHosts[m]
          /\ merged.app = m /\ merged.owner = 0 /\ merged.cnames = h.req.cnames
          /\ ~merged.frozen
      BY <2>3, <2>5, MergeIngressIs
    <2> HIDE DEF merged
    <2>7. /\ ToSet(made.rules) \subseteq AppHosts[m] /\ ToSet(made.tls) \subseteq AppHosts[m]
          /\ made.app = m /\ made.owner = 0 /\ made.cnames = h.req.cnames /\ ~made.frozen
          /\ made.uid = h.seen.uid
      BY <1>2, <2>2, <2>3, <2>4, <2>6, ReplacedIs
    <2> HIDE DEF made
    <2>8. Proper(n, h.seen, version)
      BY <1>1, <2>0, <2>4 DEF Sound, LocalsOK
    <2>9. 0 < made.uid /\ made.uid <= version[m] /\ made.uid \in Nat
      BY <2>2, <2>4, <2>7, <2>8 DEF Proper, Ingress
    <2>10. Proper(n, ingress'[n], version')
      BY <1>1, <1>2, <1>3, <2>4, <2>7, <2>9 DEF Proper
    <2> QED
      BY <1>1, <2>0, <2>2, <2>4, <2>7, <2>10
  <1> QED
    BY <1>4, <1>5

\* An ingress of a CName that Ensure writes.
LEMMA CNameWrites ==
    ASSUME IInv, Sound, NEW p \in Handlers, CNameCreate(p) \/ CNameUpdate(p),
           NEW n \in Names, ingress'[n] # ingress[n], Exists(ingress'[n])
    PROVE  LET h == handler[p] IN
           /\ n = h.name /\ n \in CNames /\ n \notin Apps /\ Proper(n, ingress'[n], version')
           /\ ingress'[n].app = h.req.app /\ ingress'[n].owner = h.parent
           /\ IF Exists(h.seen) THEN ingress[n] = h.seen
              ELSE ~Exists(ingress[n]) /\ ingress'[n].uid = version[n] + 1
  <1> DEFINE h == handler[p]
             m == h.name
             a == h.req.app
  <1>0. TypeOK /\ StoreStep /\ h \in Handler /\ StageOK(h) /\ h.pc = "cput"
    BY EnsureStores DEF IInv, TypeOK, Staged, EnsureStep, CNameCreate, CNameUpdate, At
  <1>1. /\ h.req \in EnsureRequest /\ h.parent \in Nat
        /\ m \in CNames /\ m \in Names /\ m \notin Apps /\ a \in Names
    BY <1>0, NamesAssumption DEF StageOK, EnsurePCs, EnsureRequest, Names, Handler
  <1>2. /\ version[m] \in Nat /\ version'[m] \in Nat /\ version'[m] >= version[m]
        /\ version[a] \in Nat /\ version'[a] \in Nat /\ version'[a] >= version[a]
    BY <1>0, <1>1, CNameCreateTyped, CNameUpdateTyped DEF TypeOK, IInv, StoreStep
  <1>3. HostsOf(m) = {m}
    BY <1>1 DEF HostsOf
  <1>4. h.parent <= version[a]
    BY <1>0, <1>1, <1>2 DEF Sound, LocalsOK, Steady, CNamePCs
  <1> DEFINE new == CNameIngress(h.req, m, h.parent)
  <1>5. /\ new \in Ingress
        /\ ToSet(new.rules) \subseteq {m} /\ ToSet(new.tls) \subseteq {m}
        /\ new.app = a /\ new.owner = h.parent /\ ~new.frozen
    <2>1. new \in Ingress
      BY <1>1, CNameIngressType
    <2>2. /\ ToSet(new.rules) \subseteq {m} /\ ToSet(new.tls) \subseteq {m}
          /\ new.app = a /\ new.owner = h.parent /\ ~new.frozen
      BY <1>1, CNameIngressIs
    <2> QED
      BY <2>1, <2>2
  <1> HIDE DEF new
  <1>6. CASE CNameCreate(p)
    <2>1. /\ CreateIngress(m, new)
          /\ ~Exists(h.seen) /\ ~Exists(ingress[m])
      BY <1>6 DEF CNameCreate, Refused, cluster, new
    <2> DEFINE made == Created(new, version[m] + 1)
    <2>2. n = m /\ ingress'[n] = made /\ version'[n] = version[n] + 1
      BY <1>0, <1>1, <2>1, CreateStores
    <2>3. /\ ToSet(made.rules) \subseteq {m} /\ ToSet(made.tls) \subseteq {m}
          /\ made.app = a /\ made.owner = h.parent /\ ~made.frozen
          /\ made.uid = version[m] + 1 /\ ~made.terminating
      BY <1>2, <1>5, CreatedIs
    <2> HIDE DEF made
    <2>4. Proper(n, ingress'[n], version')
      BY <1>1, <1>2, <1>3, <1>4, <2>2, <2>3 DEF Proper
    <2> QED
      BY <1>1, <2>1, <2>2, <2>3, <2>4
  <1>7. CASE CNameUpdate(p)
    <2>0. Exists(h.seen)
      BY <1>7 DEF CNameUpdate
    <2>1. /\ Accepts(ingress[m], MergeVersion(h.seen))
          /\ ReplaceIngress(m, MergeIngress(new, h.seen))
      BY <1>7 DEF CNameUpdate, Refused, cluster, new
    <2>2. ingress[m] = h.seen /\ h.seen \in Ingress
      BY <2>0, <2>1, AcceptedIsSeen
    <2> DEFINE merged == MergeIngress(new, h.seen)
               made == Replaced(h.seen, merged, version[m] + 1)
    <2>3. merged \in Ingress
      BY <1>5, <2>2, MergeIngressType
    <2>4. n = m /\ ingress'[n] = made
      BY <1>0, <1>1, <2>1, <2>2, ReplaceStores
    <2>5. /\ ToSet(merged.rules) \subseteq {m} /\ ToSet(merged.tls) \subseteq {m}
          /\ merged.app = a /\ merged.owner = h.parent /\ ~merged.frozen
      BY <1>5, MergeIngressIs
    <2> HIDE DEF merged
    <2>6. /\ ToSet(made.rules) \subseteq {m} /\ ToSet(made.tls) \subseteq {m}
          /\ made.app = a /\ made.owner = h.parent /\ ~made.frozen
          /\ made.uid = h.seen.uid /\ ~made.terminating
      BY <1>2, <2>2, <2>3, <2>4, <2>5, ReplacedIs
    <2> HIDE DEF made
    <2>7. Proper(n, h.seen, version)
      BY <1>1, <2>0, <2>4 DEF Sound, LocalsOK
    <2>8. 0 < made.uid /\ made.uid <= version[m] /\ made.uid \in Nat
      BY <2>2, <2>4, <2>6, <2>7 DEF Proper, Ingress
    <2>9. Proper(n, ingress'[n], version')
      BY <1>1, <1>2, <1>3, <1>4, <2>4, <2>6, <2>8 DEF Proper
    <2> QED
      BY <1>1, <2>0, <2>2, <2>4, <2>6, <2>9
  <1> QED
    BY <1>6, <1>7

\* What every other step may do to an ingress.
Spared(n) ==
    Exists(ingress'[n]) =>
        /\ Exists(ingress[n]) /\ SameRole(ingress[n], ingress'[n])
        /\ Proper(n, ingress[n], version) => Proper(n, ingress'[n], version')

LEMMA SameSpared ==
    ASSUME TypeOK, TypeOK', StoreStep, NEW n \in Names, ingress'[n] \in {Nil, ingress[n]}
    PROVE  Spared(n)
  <1> SUFFICES ASSUME Exists(ingress'[n])
               PROVE  /\ Exists(ingress[n]) /\ SameRole(ingress[n], ingress'[n])
                      /\ Proper(n, ingress[n], version) => Proper(n, ingress'[n], version')
    BY DEF Spared
  <1>1. ingress'[n] = ingress[n]
    BY DEF Exists
  <1>2. PICK i \in Ingress : i = ingress[n]
    BY <1>1 DEF TypeOK, Exists
  <1>3. Proper(n, i, version) => Proper(n, i, version')
    BY ProperStays
  <1> QED
    BY <1>1, <1>2, <1>3 DEF SameRole

\* An ingress written with its marks or TLS entries changed.
LEMMA MarksSpared ==
    ASSUME TypeOK, TypeOK', StoreStep, NEW n \in Names, NEW o \in Ingress, NEW i \in Ingress,
           ingress[n] = o, ingress'[n] = i, SameRole(o, i),
           n \in CNames => i.terminating = o.terminating,
           i.frozen => o.frozen \/ n \in Freezable,
           Proper(n, o, version) => ToSet(i.tls) \subseteq HostsOf(n)
    PROVE  Spared(n)
  <1> SUFFICES ASSUME Proper(n, o, version)
               PROVE  Proper(n, i, version')
    BY NilAssumption DEF Spared, Exists
  <1>1. Proper(n, o, version')
    BY ProperStays
  <1> QED
    BY <1>1 DEF Proper, SameRole

\* AddCertificate and RemoveCertificate write the ingress they read, with other TLS
\* entries, for hosts of its rules.
LEMMA TLSSpares ==
    ASSUME IInv, Sound, TypeOK', NEW p \in Handlers, AddTLS(p) \/ RemoveTLS(p),
           NEW n \in Names
    PROVE  Spared(n)
  <1> DEFINE h == handler[p]
             m == h.name
  <1>0. /\ TypeOK /\ StoreStep /\ h \in Handler /\ StageOK(h)
        /\ h.pc = "addtls" \/ h.pc = "untls"
    BY CertificateStores DEF IInv, TypeOK, Staged, CertificateStep, AddTLS, RemoveTLS, At
  <1>1. h.pc \in FoundPCs
    BY <1>0 DEF FoundPCs
  <1>2. m \in Names /\ h.seen \in Ingress /\ h.req.host \in Hosts
    BY <1>0, <1>1, KeyType DEF IInv
  <1>3. Exists(h.seen)
    BY <1>2, NilAssumption DEF Exists
  <1>4. CASE ingress'[n] = ingress[n]
    BY <1>0, <1>4, SameSpared
  <1>5. ASSUME ingress'[n] # ingress[n],
               NEW tls \in HostList, ToSet(tls) \subseteq ToSet(h.seen.tls) \cup HostsOf(m),
               EditIngress(m, [h.seen EXCEPT !.tls = tls]),
               Accepts(ingress[m], h.seen.rv)
        PROVE  Spared(n)
    <2>1. ingress[m] = h.seen
      BY <1>3, <1>5, AcceptedIsSeen
    <2> DEFINE made == Edited(h.seen, [h.seen EXCEPT !.tls = tls], version[m] + 1)
    <2>2. n = m /\ ingress'[n] = made
      BY <1>0, <1>2, <1>5, <2>1, EditStores
    <2>3. version[m] + 1 \in Nat
      BY <1>0, <1>2 DEF TypeOK
    <2>4. /\ SameRole(h.seen, made) /\ made.tls = tls
          /\ made.frozen = h.seen.frozen /\ made.terminating = h.seen.terminating
      BY <1>2, <1>5, <2>3, EditedIs
    <2>5. made \in Ingress
      <3> DEFINE new == [h.seen EXCEPT !.tls = tls]
      <3>1. new \in Ingress
        BY <1>2, <1>5 DEF Ingress
      <3> HIDE DEF new
      <3>2. Edited(h.seen, new, version[m] + 1) \in Ingress
        BY <1>2, <2>3, <3>1, EditedType
      <3> QED
        BY <3>2 DEF new
    <2> HIDE DEF made
    <2>6. Proper(m, h.seen, version)
      BY <1>3 DEF Sound, LocalsOK
    <2>7. PICK o \in Ingress, i \in Ingress : o = h.seen /\ i = made
      BY <1>2, <2>5
    <2>8. ToSet(i.tls) \subseteq HostsOf(n)
      BY <1>5, <2>2, <2>4, <2>6, <2>7 DEF Proper
    <2> QED
      BY <1>0, <2>1, <2>2, <2>4, <2>7, <2>8, MarksSpared
  <1>6. CASE ingress'[n] # ingress[n] /\ AddTLS(p)
    <2> DEFINE tls == AddTLSEntry(h.seen.tls, h.req.host)
    <2>1. h.pc \in AddPCs
      BY <1>6 DEF AddTLS, At, AddPCs
    <2>2. h.req.host \in HostsOf(m)
      BY <1>3, <2>1 DEF Sound, LocalsOK, Steady, Proper
    <2>3. tls \in HostList /\ ToSet(tls) \subseteq ToSet(h.seen.tls) \cup {h.req.host}
      BY <1>2, AddTLSEntryType, TLSEntriesAre DEF Ingress
    <2>4. EditIngress(m, [h.seen EXCEPT !.tls = tls]) /\ Accepts(ingress[m], h.seen.rv)
      BY <1>6 DEF AddTLS, Refused, cluster
    <2> QED
      BY <1>5, <1>6, <2>2, <2>3, <2>4
  <1>7. CASE ingress'[n] # ingress[n] /\ RemoveTLS(p)
    <2> DEFINE tls == DropTLSEntry(h.seen.tls, h.req.host)
    <2>1. tls \in HostList /\ ToSet(tls) \subseteq ToSet(h.seen.tls)
      BY <1>2, DropTLSEntryType, TLSEntriesAre DEF Ingress
    <2>2. EditIngress(m, [h.seen EXCEPT !.tls = tls]) /\ Accepts(ingress[m], h.seen.rv)
      BY <1>7 DEF RemoveTLS, Refused, cluster
    <2> QED
      BY <1>5, <1>7, <2>1, <2>2
  <1> QED
    BY <1>4, <1>6, <1>7

\* Remove marks a main ingress.
LEMMA RemoveSpares ==
    ASSUME IInv, TypeOK', NEW p \in Handlers, RemoveMain(p), NEW n \in Names
    PROVE  Spared(n)
  <1> DEFINE a == handler[p].req.app
  <1>0. TypeOK /\ StoreStep /\ handler[p] \in Handler /\ StageOK(handler[p])
    <2>1. [Next]_vars
      BY DEF Next, HandlerStep
    <2> QED
      BY <2>1, NextStores DEF IInv, TypeOK, Staged
  <1>1. a \in Apps /\ a \in Names /\ a \notin CNames
    BY <1>0, NamesAssumption DEF RemoveMain, At, StageOK, RemoveRequest, Names
  <1>2. CASE ingress'[n] = ingress[n]
    BY <1>0, <1>2, SameSpared
  <1>3. CASE ingress'[n] # ingress[n]
    <2>1. /\ n = a /\ Exists(ingress[n])
          /\ ingress'[n] = Marked(ingress[n], version[n] + 1)
      BY <1>0, <1>1, <1>3 DEF RemoveMain, TypeOK, ingresses
    <2>2. PICK o \in Ingress, v \in Nat : o = ingress[n] /\ v = version[n] + 1
      BY <1>0, <2>1 DEF TypeOK, Exists
    <2>3. PICK i \in Ingress : i = Marked(o, v)
      BY MarkedType
    <2>4. SameRole(o, i) /\ i.frozen = o.frozen /\ i.tls = o.tls
      BY <2>3 DEF Marked, SameRole, Ingress
    <2>5. Proper(n, o, version) => ToSet(i.tls) \subseteq HostsOf(n)
      BY <2>4 DEF Proper
    <2> QED
      BY <1>0, <1>1, <2>1, <2>2, <2>3, <2>4, <2>5, MarksSpared
  <1> QED
    BY <1>2, <1>3

\* The environment deletes, or freezes what may be frozen.
LEMMA EnvironmentSpares ==
    ASSUME IInv, TypeOK', Environment, NEW n \in Names
    PROVE  Spared(n)
  <1>0. TypeOK /\ StoreStep
    <2>1. [Next]_vars
      BY DEF Next
    <2> QED
      BY <2>1, NextStores DEF IInv
  <1>1. CASE ingress'[n] \in {Nil, ingress[n]}
    BY <1>0, <1>1, SameSpared
  <1>2. CASE ingress'[n] \notin {Nil, ingress[n]}
    <2>1. PICK m \in Names : ToggleFreeze(m)
      BY <1>0, <1>2 DEF Environment, Collect, CollectCName, CollectMain, CollectCertificate,
         OwnerServiceDeleted, IssueCertificate, DeleteIngress, ingresses, TypeOK, Names
    <2>2. /\ n = m /\ n \in Freezable /\ Exists(ingress[n])
          /\ ingress'[n] = [ingress[n] EXCEPT !.frozen = ~@, !.rv = version[n] + 1]
      BY <1>0, <1>2, <2>1 DEF ToggleFreeze, TypeOK
    <2>3. PICK o \in Ingress, v \in Nat : o = ingress[n] /\ v = version[n] + 1
      BY <1>0, <2>2 DEF TypeOK, Exists
    <2>4. PICK i \in Ingress : i = [o EXCEPT !.frozen = ~@, !.rv = v]
      BY DEF Ingress
    <2>5. SameRole(o, i) /\ i.terminating = o.terminating /\ i.tls = o.tls
      BY <2>4 DEF SameRole, Ingress
    <2>6. Proper(n, o, version) => ToSet(i.tls) \subseteq HostsOf(n)
      BY <2>5 DEF Proper
    <2>7. ingress[n] = o /\ ingress'[n] = i
      BY <2>2, <2>3, <2>4
    <2> QED
      BY <1>0, <2>2, <2>5, <2>6, <2>7, MarksSpared
  <1> QED
    BY <1>1, <1>2

Puts(p) == EnsureCreate(p) \/ EnsureUpdate(p) \/ CNameCreate(p) \/ CNameUpdate(p)

\* The other steps of a handler spare every ingress.
LEMMA HandlerSpares ==
    ASSUME IInv, Sound, TypeOK', NEW p \in Handlers, HandlerStep(p), ~Puts(p), NEW n \in Names
    PROVE  Spared(n)
  <1>0. TypeOK /\ StoreStep
    <2>1. [Next]_vars
      BY DEF Next
    <2> QED
      BY <2>1, NextStores DEF IInv
  <1>1. CASE ingress'[n] \in {Nil, ingress[n]}
    BY <1>0, <1>1, SameSpared
  <1>2. CASE AddTLS(p) \/ RemoveTLS(p)
    BY <1>0, <1>2, TLSSpares
  <1>3. CASE RemoveMain(p)
    BY <1>0, <1>3, RemoveSpares
  <1>4. CASE CNameRemove(p)
    <2>1. PICK c \in handler[p].drop : DeleteIngress(c)
      BY <1>4 DEF CNameRemove
    <2> QED
      BY <1>0, <1>1, <2>1 DEF DeleteIngress, TypeOK
  <1>5. CASE UNCHANGED ingress
    BY <1>1, <1>5
  <1> QED
    BY <1>2, <1>3, <1>4, <1>5
       DEF HandlerStep, Receive, Fail, Return, EnsureStep, CertificateStep, Puts,
           EnsureGet, CNameGet, CNameDeleteCertificate, EnsureDone, FindTarget, FindMain,
           CreateSecret, GetSecret, UpdateSecret, DeleteSecret, Refused, cluster, ingresses

\* A step changes an ingress by one of the Puts of Ensure, or spares it.
LEMMA Writes ==
    ASSUME IInv, Sound, [Next]_vars, NEW n \in Names
    PROVE  Spared(n) \/ \E p \in Handlers :
            Puts(p) /\ ingress'[n] # ingress[n] /\ Exists(ingress'[n])
  <1>0. TypeOK /\ TypeOK' /\ StoreStep
    BY NextTyped, NextStores DEF IInv
  <1>1. CASE ingress'[n] \in {Nil, ingress[n]}
    BY <1>0, <1>1, SameSpared
  <1>2. CASE ingress'[n] \notin {Nil, ingress[n]}
    <2>1. CASE Environment
      BY <1>0, <2>1, EnvironmentSpares
    <2>2. ASSUME NEW p \in Handlers, HandlerStep(p)
          PROVE  Spared(n) \/ Puts(p)
      BY <1>0, <2>2, HandlerSpares
    <2>3. CASE UNCHANGED vars
      BY <1>2, <2>3 DEF vars, cluster
    <2> QED
      BY <1>2, <2>1, <2>2, <2>3 DEF Next, Exists
  <1> QED
    BY <1>1, <1>2

-----------------------------------------------------------------------------
(* Sound is preserved.                                                     *)

LEMMA StaysProper ==
    ASSUME IInv, Sound, [Next]_vars
    PROVE  AllProper'
  <1> SUFFICES ASSUME NEW n \in Names, Exists(ingress'[n])
               PROVE  Proper(n, ingress'[n], version')
    BY DEF AllProper
  <1>1. CASE Spared(n)
    BY <1>1 DEF Spared, Sound, AllProper
  <1>2. ASSUME NEW p \in Handlers, Puts(p), ingress'[n] # ingress[n]
        PROVE  Proper(n, ingress'[n], version')
    BY <1>2, MainWrites, CNameWrites DEF Puts
  <1> QED
    BY <1>1, <1>2, Writes

\* cert-manager issues the certificate of a CName for the ingress of that CName.
LEMMA IssuedFor ==
    ASSUME TypeOK, Sound, NEW n \in Names, IssueCertificate(n),
           NEW a \in Apps, NEW c \in CNames, certificate'[<<a, c>>] # certificate[<<a, c>>]
    PROVE  /\ n = c /\ Exists(ingress[c]) /\ ingress[c].app = a
           /\ c \in ToSet(ingress[c].tls)
           /\ certificate'[<<a, c>>] = ingress[c].uid
  <1>1. PICK host \in ToSet(ingress[n].tls) :
            certificate' = [certificate EXCEPT ![<<ingress[n].app, host>>] = ingress[n].uid]
    BY DEF IssueCertificate
  <1>2. Exists(ingress[n]) /\ Proper(n, ingress[n], version)
    BY DEF IssueCertificate, Sound, AllProper
  <1>3. host = c /\ ingress[n].app = a /\ certificate'[<<a, c>>] = ingress[n].uid
    BY <1>1 DEF TypeOK
  <1>4. c \in HostsOf(n)
    BY <1>1, <1>2, <1>3 DEF Proper
  <1>5. n = c
    BY <1>4, NamesAssumption DEF HostsOf, Names
  <1> QED
    BY <1>1, <1>2, <1>3, <1>5

\* What a step does to the certificate of a CName.
LEMMA CertificateChanges ==
    ASSUME TypeOK, Sound, [Next]_vars, NEW a \in Apps, NEW c \in CNames,
           certificate'[<<a, c>>] \notin {0, certificate[<<a, c>>]}
    PROVE  /\ Exists(ingress[c]) /\ ingress[c].app = a /\ c \in ToSet(ingress[c].tls)
           /\ certificate'[<<a, c>>] = ingress[c].uid /\ UNCHANGED <<ingress, handler>>
  <1>1. <<a, c>> \in SecretKeys
    BY DEF SecretKeys, Hosts
  <1>2. \/ UNCHANGED certificate
        \/ \E p \in Handlers : CNameDeleteCertificate(p)
        \/ \E k \in SecretKeys : CollectCertificate(k)
        \/ \E n \in Names : IssueCertificate(n)
    <2>1. CASE UNCHANGED vars
      BY <2>1 DEF vars, cluster
    <2>2. CASE Environment
      BY <2>2 DEF Environment, Collect, CollectCName, CollectMain, OwnerServiceDeleted,
         ToggleFreeze
    <2>3. ASSUME NEW p \in Handlers, HandlerStep(p)
          PROVE  UNCHANGED certificate \/ CNameDeleteCertificate(p)
      BY <2>3 DEF HandlerStep, Receive, Fail, Return, EnsureStep, CertificateStep,
         EnsureGet, EnsureCreate, EnsureUpdate, CNameGet, CNameCreate, CNameUpdate,
         CNameRemove, EnsureDone, RemoveMain, FindTarget, FindMain,
         CreateSecret, GetSecret, UpdateSecret, AddTLS, RemoveTLS, DeleteSecret, Refused, cluster
    <2> QED
      BY <2>1, <2>2, <2>3 DEF Next
  <1>3. PICK n \in Names : IssueCertificate(n)
    BY <1>1, <1>2 DEF CNameDeleteCertificate, CollectCertificate, TypeOK
  <1>4. UNCHANGED <<ingress, handler>>
    BY <1>3 DEF IssueCertificate, ingresses
  <1>5. certificate'[<<a, c>>] # certificate[<<a, c>>]
    OBVIOUS
  <1> QED
    BY <1>3, <1>4, <1>5, IssuedFor

LEMMA StaysCertificatesBound ==
    ASSUME IInv, Sound, [Next]_vars
    PROVE  CertificatesBound'
  <1> SUFFICES ASSUME NEW a \in Apps, NEW c \in CNames
               PROVE  certificate'[<<a, c>>] <= version'[c]
    BY DEF CertificatesBound
  <1>1. /\ <<a, c>> \in SecretKeys /\ c \in Names
        /\ version[c] \in Nat /\ version'[c] \in Nat /\ version'[c] >= version[c]
        /\ certificate[<<a, c>>] \in Nat
    BY NextTyped, NextStores DEF IInv, TypeOK, StoreStep, SecretKeys, Hosts, Names
  <1>2. CASE certificate'[<<a, c>>] \in {0, certificate[<<a, c>>]}
    BY <1>1, <1>2 DEF Sound, CertificatesBound
  <1>3. CASE certificate'[<<a, c>>] \notin {0, certificate[<<a, c>>]}
    <2>1. Exists(ingress[c]) /\ certificate'[<<a, c>>] = ingress[c].uid
      BY <1>3, CertificateChanges DEF IInv
    <2>2. ingress[c].uid <= version[c] /\ ingress[c].uid \in Nat
      BY <1>1, <2>1 DEF Sound, AllProper, Proper, IInv, TypeOK, Exists, Ingress
    <2> QED
      BY <1>1, <2>1, <2>2
  <1> QED
    BY <1>2, <1>3

\* What was read stays proper.
LEMMA SeenStaysProper ==
    ASSUME IInv, Sound, [Next]_vars, NEW p \in Handlers, Exists(handler'[p].seen)
    PROVE  Proper(handler'[p].name, handler'[p].seen, version')
  <1>1. TypeOK /\ TypeOK' /\ StoreStep /\ SeenStep /\ Staged'
    BY NextTyped, NextStores, NextSeen DEF IInv
  <1>2. handler'[p].name \in Names /\ handler'[p].seen \in Ingress
    BY <1>1 DEF Staged, StageOK, TypeOK, Handler, Exists
  <1>3. PICK n \in Names, i \in Ingress : n = handler'[p].name /\ i = handler'[p].seen
    BY <1>2
  <1>4. Proper(n, i, version)
    BY <1>1, <1>3 DEF SeenStep, Sound, LocalsOK, AllProper, Exists
  <1> QED
    BY <1>1, <1>3, <1>4, ProperStays

LEMMA AppOf ==
    ASSUME NEW r \in Requests
    PROVE  r.app \in Apps /\ r.app \in Names /\ r # Nil
  BY RequestsAssumption, NilAssumption
     DEF RequestType, EnsureRequest, RemoveRequest, CertRequest, Names

LEMMA SteadyStays ==
    ASSUME TypeOK, TypeOK', StoreStep, NEW h \in Handler, Steady(h, version)
    PROVE  Steady(h, version')
  <1>1. h.parent \in Nat /\ (h.req # Nil => h.req.app \in Names)
    BY AppOf DEF Handler
  <1>2. \A k \in Names :
            version[k] \in Nat /\ version'[k] \in Nat /\ version'[k] >= version[k]
    BY DEF TypeOK, StoreStep
  <1> QED
    BY <1>1, <1>2 DEF Steady

\* A handler that ends.
LEMMA EndSteady ==
    ASSUME TypeOK, TypeOK', StoreStep, NEW p \in Handlers, NEW outcome \in Ends,
           outcome \in {"ok", "error"} \/ handler[p].parent = 0,
           Steady(handler[p], version), End(p, outcome)
    PROVE  Steady(handler'[p], version')
  <1> DEFINE h == handler[p]
             g == [Idle EXCEPT !.pc = outcome, !.req = h.req, !.parent = h.parent]
  <1>1. h \in Handler /\ handler'[p] = g
    BY DEF End, TypeOK
  <1>2. Steady(h, version')
    BY <1>1, SteadyStays
  <1>3. g.pc = outcome /\ g.req = h.req /\ g.parent = h.parent
    BY DEF Idle
  <1>4. outcome \notin CNamePCs \cup AddPCs
    BY DEF Ends, CNamePCs, AddPCs
  <1> HIDE DEF g
  <1> QED
    BY <1>1, <1>2, <1>3, <1>4 DEF Steady, CNamePCs, AddPCs

\* A handler that is not at the CNames of an Ensure.
LEMMA OffSteady ==
    ASSUME NEW g, NEW v, g.parent = 0, g.pc \notin CNamePCs,
           g.pc \in AddPCs => g.req.host \in ToSet(g.seen.rules)
    PROVE  Steady(g, v)
  BY DEF Steady, CNamePCs

LEMMA TargetedSteady ==
    ASSUME TypeOK, TypeOK', StoreStep, NEW p \in Handlers, NEW n,
           handler[p].pc \in {"target", "main"}, Steady(handler[p], version), Targeted(p, n)
    PROVE  Steady(handler'[p], version')
  <1> DEFINE h == handler[p]
             on(step) == [h EXCEPT !.pc = step, !.name = n, !.seen = ingress[n]]
  <1>1. h \in Handler /\ h.parent = 0
    BY DEF TypeOK, Steady, CNamePCs
  <1>2. CASE End(p, "error") \/ End(p, "panic")
    BY <1>1, <1>2, EndSteady DEF Ends
  <1>3. CASE handler' = [handler EXCEPT ![p] = on("untls")]
    <2>1. handler'[p] = on("untls")
      BY <1>3 DEF TypeOK
    <2>2. on("untls").parent = 0 /\ on("untls").pc = "untls"
      BY <1>1 DEF Handler
    <2> QED
      BY <2>1, <2>2, OffSteady DEF CNamePCs, AddPCs
  <1>4. CASE /\ handler' = [handler EXCEPT ![p] = on("mksecret")]
             /\ MayAddCertificate(ingress[n], h.req.host)
    <2>1. handler'[p] = on("mksecret")
      BY <1>4 DEF TypeOK
    <2>2. LET g == on("mksecret") IN
          /\ g.parent = 0 /\ g.pc = "mksecret" /\ g.req = h.req /\ g.seen = ingress[n]
      BY <1>1 DEF Handler
    <2>3. h.req.host \in ToSet(ingress[n].rules)
      BY <1>4 DEF MayAddCertificate
    <2> HIDE DEF on
    <2> QED
      BY <2>1, <2>2, <2>3, OffSteady DEF CNamePCs
  <1> QED
    BY <1>2, <1>3, <1>4 DEF Targeted

\* AddCertificate, RemoveCertificate and Remove.
LEMMA CertificateSteady ==
    ASSUME TypeOK, TypeOK', StoreStep, NEW p \in Handlers, Steady(handler[p], version),
           CertificateStep(p) \/ RemoveMain(p)
    PROVE  Steady(handler'[p], version')
  <1> DEFINE h == handler[p]
  <1>1. h \in Handler /\ h.pc \in {"delete", "target", "main", "mksecret", "getsecret",
                                   "putsecret", "addtls", "untls", "unsecret"}
    BY DEF TypeOK, CertificateStep, RemoveMain, FindTarget, FindMain, CreateSecret,
       GetSecret, UpdateSecret, AddTLS, RemoveTLS, DeleteSecret, At
  <1>2. h.parent = 0
    BY <1>1 DEF Steady, CNamePCs
  <1>3. ASSUME NEW step \in {"main", "return", "unsecret"},
               handler' = [handler EXCEPT ![p].pc = step]
        PROVE  Steady(handler'[p], version')
    <2>1. handler'[p].pc = step /\ handler'[p].parent = 0
      BY <1>1, <1>2, <1>3 DEF TypeOK, Handler
    <2> QED
      BY <2>1, OffSteady DEF CNamePCs, AddPCs
  <1>4. CASE CreateSecret(p) \/ GetSecret(p) \/ UpdateSecret(p)
    <2>1. h.pc \in AddPCs
      BY <1>4 DEF CreateSecret, GetSecret, UpdateSecret, At, AddPCs
    <2>2. CASE End(p, "error")
      BY <2>2, EndSteady DEF Ends
    <2>3. ASSUME handler'[p].pc \in AddPCs, handler'[p].parent = 0,
                 handler'[p].req = h.req, handler'[p].seen = h.seen
          PROVE  Steady(handler'[p], version')
      <3>1. handler'[p].pc \notin CNamePCs
        BY <2>3 DEF AddPCs, CNamePCs
      <3>2. h.req.host \in ToSet(h.seen.rules)
        BY <2>1 DEF Steady
      <3> QED
        BY <2>3, <3>1, <3>2, OffSteady
    <2>4. ASSUME NEW step \in AddPCs, NEW rv,
                 handler'[p] = [h EXCEPT !.pc = step, !.secretRV = rv]
          PROVE  Steady(handler'[p], version')
      BY <1>1, <1>2, <2>3, <2>4 DEF Handler
    <2>5. CASE CreateSecret(p)
      <3>1. PICK step \in AddPCs : handler' = [handler EXCEPT ![p].pc = step]
        BY <2>5 DEF CreateSecret, AddPCs
      <3>2. handler'[p] = [h EXCEPT !.pc = step, !.secretRV = h.secretRV]
        BY <1>1, <3>1 DEF Handler, TypeOK
      <3> QED
        BY <2>4, <3>2
    <2>6. CASE GetSecret(p)
      <3>1. CASE handler' = [handler EXCEPT ![p] =
                    [@ EXCEPT !.pc = "putsecret", !.secretRV = secret[Key(p)]]]
        <4>1. handler'[p] = [h EXCEPT !.pc = "putsecret", !.secretRV = secret[Key(p)]]
          BY <3>1 DEF TypeOK
        <4> QED
          BY <2>4, <4>1 DEF AddPCs
      <3> QED
        BY <2>2, <2>6, <3>1 DEF GetSecret
    <2>7. CASE UpdateSecret(p)
      <3>1. CASE handler' = [handler EXCEPT ![p] = [@ EXCEPT !.pc = "addtls", !.secretRV = 0]]
        <4>1. handler'[p] = [h EXCEPT !.pc = "addtls", !.secretRV = 0]
          BY <3>1 DEF TypeOK
        <4> QED
          BY <2>4, <4>1 DEF AddPCs
      <3> QED
        BY <2>2, <2>7, <3>1 DEF UpdateSecret, Refused
    <2> QED
      BY <1>4, <2>5, <2>6, <2>7
  <1>5. CASE AddTLS(p) \/ RemoveTLS(p) \/ DeleteSecret(p) \/ RemoveMain(p)
    <2>1. CASE End(p, "error")
      BY <2>1, EndSteady DEF Ends
    <2> QED
      BY <1>3, <1>5, <2>1 DEF AddTLS, RemoveTLS, DeleteSecret, RemoveMain, Refused
  <1>6. CASE FindTarget(p) \/ FindMain(p)
    <2>1. CASE End(p, "error")
      BY <2>1, EndSteady DEF Ends
    <2>2. h.pc \in {"target", "main"}
      BY <1>6 DEF FindTarget, FindMain, At
    <2> QED
      BY <1>3, <1>6, <2>1, <2>2, TargetedSteady DEF FindTarget, FindMain
  <1> QED
    BY <1>4, <1>5, <1>6 DEF CertificateStep

\* Receive, Fail and Return.
LEMMA OutlineSteady ==
    ASSUME TypeOK, TypeOK', StoreStep, NEW p \in Handlers, Steady(handler[p], version),
           Receive(p) \/ Fail(p) \/ Return(p)
    PROVE  Steady(handler'[p], version')
  <1>1. CASE Receive(p)
    <2>1. PICK r \in Requests :
            handler' = [handler EXCEPT ![p] = [Idle EXCEPT !.pc = FirstStep(r.op), !.req = r]]
      BY <1>1 DEF Receive
    <2> DEFINE g == [Idle EXCEPT !.pc = FirstStep(r.op), !.req = r]
    <2>2. handler'[p] = g
      BY <2>1 DEF TypeOK
    <2>3. g.parent = 0 /\ g.pc \notin CNamePCs \cup AddPCs
      BY DEF Idle, FirstStep, CNamePCs, AddPCs
    <2> HIDE DEF g
    <2> QED
      BY <2>2, <2>3, OffSteady
  <1>2. CASE Fail(p)
    BY <1>2, EndSteady DEF Fail, Ends
  <1>3. CASE Return(p)
    BY <1>3, EndSteady DEF Return, Ends
  <1> QED
    BY <1>1, <1>2, <1>3

\* On to the CNames, under a main ingress whose version was given out.
LEMMA GoToCNamesSteady ==
    ASSUME TypeOK, NEW p \in Handlers, NEW parent \in Nat, handler[p].req \in EnsureRequest,
           GoToCNames(p, parent),
           NEW v, 0 < parent, parent <= v[handler[p].req.app]
    PROVE  Steady(handler'[p], v)
  <1> DEFINE h == handler[p]
             g == [Idle EXCEPT !.pc = "cnames", !.req = h.req, !.parent = parent,
                               !.todo = h.req.cnames,
                               !.drop = CNamesToRemove(h.seen, h.req.cnames)]
  <1>1. handler'[p] = g
    BY DEF GoToCNames, TypeOK
  <1>2. /\ g.pc = "cnames" /\ g.req = h.req /\ g.parent = parent
        /\ g.todo = h.req.cnames /\ g.drop = CNamesToRemove(h.seen, h.req.cnames)
    BY DEF Idle
  <1>3. CNamesToRemove(h.seen, h.req.cnames) \cap h.req.cnames = {}
    BY DEF CNamesToRemove
  <1>4. h.req # Nil
    BY NilAssumption DEF RequestType
  <1> HIDE DEF g
  <1> QED
    BY <1>1, <1>2, <1>3, <1>4 DEF Steady, CNamePCs, AddPCs

\* A handler that stays at the CNames.
LEMMA OnSteady ==
    ASSUME NEW h, NEW g, NEW v, Steady(h, v), h.pc \in CNamePCs, g.pc \in CNamePCs,
           g.req = h.req, g.parent = h.parent, g.todo \subseteq h.todo, g.drop \subseteq h.drop,
           g.pc \in {"cput", "cdelete"} => g.name \in g.todo
    PROVE  Steady(g, v)
  BY DEF Steady, CNamePCs, AddPCs

LEMMA NextCNameSteady ==
    ASSUME TypeOK, TypeOK', StoreStep, NEW p \in Handlers, Steady(handler[p], version),
           handler[p].pc \in {"cput", "cdelete"}, NextCName(p)
    PROVE  Steady(handler'[p], version')
  <1> DEFINE h == handler[p]
             g == [h EXCEPT !.pc = "cnames", !.todo = @ \ {h.name}, !.name = Nil, !.seen = Nil]
  <1>1. h \in Handler /\ handler'[p] = g
    BY DEF NextCName, TypeOK
  <1>2. /\ g.pc = "cnames" /\ g.req = h.req /\ g.parent = h.parent
        /\ g.todo \subseteq h.todo /\ g.drop = h.drop
    BY <1>1 DEF Handler
  <1>3. Steady(h, version')
    BY <1>1, SteadyStays
  <1> HIDE DEF g
  <1> QED
    BY <1>1, <1>2, <1>3, OnSteady DEF CNamePCs

LEMMA AfterCNamePutSteady ==
    ASSUME TypeOK, TypeOK', StoreStep, NEW p \in Handlers, Steady(handler[p], version),
           handler[p].pc = "cput", NEW tls, AfterCNamePut(p, tls)
    PROVE  Steady(handler'[p], version')
  <1> DEFINE h == handler[p]
             g == [h EXCEPT !.pc = "cdelete"]
  <1>1. CASE NextCName(p)
    BY <1>1, NextCNameSteady
  <1>2. CASE handler' = [handler EXCEPT ![p].pc = "cdelete"]
    <2>1. h \in Handler /\ handler'[p] = g
      BY <1>2 DEF TypeOK
    <2>2. /\ g.pc = "cdelete" /\ g.req = h.req /\ g.parent = h.parent /\ g.name = h.name
          /\ g.todo = h.todo /\ g.drop = h.drop
      BY <2>1 DEF Handler
    <2>3. Steady(h, version') /\ h.name \in h.todo
      BY <2>1, SteadyStays DEF Steady
    <2> HIDE DEF g
    <2> QED
      BY <2>1, <2>2, <2>3, OnSteady DEF CNamePCs
  <1> QED
    BY <1>1, <1>2 DEF AfterCNamePut

LEMMA EnsureSteady ==
    ASSUME IInv, Sound, TypeOK', StoreStep, NEW p \in Handlers, EnsureStep(p)
    PROVE  Steady(handler'[p], version')
  <1> DEFINE h == handler[p]
             a == h.req.app
  <1>0. TypeOK /\ h \in Handler /\ StageOK(h) /\ Steady(h, version) /\ LocalsOK(p)
    BY DEF IInv, TypeOK, Staged, Sound, LocalsOK
  <1>1. Steady(h, version')
    BY <1>0, SteadyStays
  <1>2. CASE EnsureGet(p)
    <2>1. h.pc = "get" /\ h.parent = 0
      BY <1>0, <1>2 DEF EnsureGet, At, Steady, CNamePCs
    <2>2. CASE handler' = [handler EXCEPT ![p].pc = "return"]
      <3>1. handler'[p].pc = "return" /\ handler'[p].parent = 0
        BY <1>0, <2>1, <2>2 DEF TypeOK, Handler
      <3> QED
        BY <3>1, OffSteady DEF CNamePCs, AddPCs
    <2>3. CASE handler' = [handler EXCEPT ![p] =
                    [@ EXCEPT !.pc = "put", !.name = a, !.seen = ingress[a]]]
      <3>1. handler'[p].pc = "put" /\ handler'[p].parent = 0
        BY <1>0, <2>1, <2>3 DEF TypeOK, Handler
      <3> QED
        BY <3>1, OffSteady DEF CNamePCs, AddPCs
    <2> QED
      BY <1>2, <2>2, <2>3 DEF EnsureGet
  <1>3. CASE EnsureCreate(p) \/ EnsureUpdate(p)
    <2>1. /\ h.pc = "put" /\ h.parent = 0 /\ h.req \in EnsureRequest
          /\ h.name = a /\ a \in Apps /\ a \in Names
      <3>1. h.pc = "put"
        BY <1>3 DEF EnsureCreate, EnsureUpdate, At
      <3>2. h.req \in EnsureRequest /\ h.name = a
        BY <1>0, <3>1 DEF StageOK, EnsurePCs
      <3> QED
        BY <1>0, <3>1, <3>2 DEF Steady, CNamePCs, EnsureRequest, Names
    <2>2. version[a] \in Nat /\ version'[a] \in Nat /\ version'[a] >= version[a]
      BY <1>0, <2>1 DEF TypeOK, StoreStep
    <2>3. CASE Refused(p)
      BY <1>0, <2>3, EndSteady DEF Refused, Ends
    <2>4. CASE EnsureCreate(p) /\ ~Refused(p)
      <3>1. GoToCNames(p, version[a] + 1) /\ version'[a] = version[a] + 1
        BY <1>0, <2>1, <2>4, CreateStores DEF EnsureCreate
      <3> QED
        BY <1>0, <2>1, <2>2, <3>1, GoToCNamesSteady
    <2>5. CASE EnsureUpdate(p) /\ ~Refused(p)
      <3>1. GoToCNames(p, h.seen.uid) /\ Exists(h.seen)
        BY <2>5 DEF EnsureUpdate
      <3>2. h.seen \in Ingress /\ Proper(a, h.seen, version)
        BY <1>0, <2>1, <3>1 DEF LocalsOK, Handler, Exists
      <3>3. h.seen.uid \in Nat /\ 0 < h.seen.uid /\ h.seen.uid <= version'[a]
        BY <2>2, <3>2 DEF Proper, Ingress
      <3> QED
        BY <1>0, <2>1, <3>1, <3>3, GoToCNamesSteady
    <2> QED
      BY <1>3, <2>3, <2>4, <2>5
  <1>4. CASE CNameGet(p)
    <2>1. h.pc = "cnames" /\ h.pc \in CNamePCs
      BY <1>4 DEF CNameGet, At, CNamePCs
    <2>2. PICK c \in h.todo :
            \/ handler' = [handler EXCEPT ![p].todo = @ \ {c}]
            \/ handler' = [handler EXCEPT ![p] =
                    [@ EXCEPT !.pc = "cput", !.name = c, !.seen = ingress[c]]]
      BY <1>4 DEF CNameGet
    <2>3. /\ handler'[p].pc \in CNamePCs /\ handler'[p].req = h.req
          /\ handler'[p].parent = h.parent /\ handler'[p].todo \subseteq h.todo
          /\ handler'[p].drop = h.drop
          /\ handler'[p].pc \in {"cput", "cdelete"} =>
                handler'[p].name \in handler'[p].todo
      <3>1. CASE handler' = [handler EXCEPT ![p].todo = @ \ {c}]
        BY <1>0, <2>1, <3>1 DEF TypeOK, Handler
      <3>2. CASE handler' = [handler EXCEPT ![p] =
                    [@ EXCEPT !.pc = "cput", !.name = c, !.seen = ingress[c]]]
        BY <1>0, <2>1, <3>2 DEF TypeOK, Handler, CNamePCs
      <3> QED
        BY <2>2, <3>1, <3>2
    <2> QED
      BY <1>1, <2>1, <2>3, OnSteady
  <1>5. CASE CNameCreate(p) \/ CNameUpdate(p)
    <2>1. h.pc = "cput"
      BY <1>5 DEF CNameCreate, CNameUpdate, At
    <2>2. CASE Refused(p)
      BY <1>0, <2>2, EndSteady DEF Refused, Ends
    <2>3. CASE NextCName(p)
      BY <1>0, <2>1, <2>3, NextCNameSteady
    <2>4. ASSUME NEW tls, AfterCNamePut(p, tls)
          PROVE  Steady(handler'[p], version')
      BY <1>0, <2>1, <2>4, AfterCNamePutSteady
    <2> QED
      BY <1>5, <2>2, <2>3, <2>4 DEF CNameCreate, CNameUpdate
  <1>6. CASE CNameDeleteCertificate(p)
    BY <1>0, <1>6, NextCNameSteady DEF CNameDeleteCertificate, At
  <1>7. CASE CNameRemove(p)
    <2>1. PICK c \in h.drop : handler' = [handler EXCEPT ![p].drop = @ \ {c}]
      BY <1>7 DEF CNameRemove
    <2>2. /\ handler'[p].pc = "cnames" /\ handler'[p].req = h.req
          /\ handler'[p].parent = h.parent /\ handler'[p].todo = h.todo
          /\ handler'[p].drop \subseteq h.drop
      BY <1>0, <1>7, <2>1 DEF CNameRemove, At, TypeOK, Handler
    <2> QED
      BY <1>1, <1>7, <2>2, OnSteady DEF CNameRemove, At, CNamePCs
  <1>8. CASE EnsureDone(p)
    BY <1>0, <1>8, EndSteady DEF EnsureDone, Ends
  <1> QED
    BY <1>2, <1>3, <1>4, <1>5, <1>6, <1>7, <1>8 DEF EnsureStep

\* Of the ingresses that a certificate request finds it reads one, or it ends.
LEMMA TargetedIs ==
    ASSUME NEW p \in Handlers, NEW n, Targeted(p, n)
    PROVE  \/ End(p, "error") \/ End(p, "panic")
           \/ handler' = [handler EXCEPT ![p] =
                [@ EXCEPT !.pc = "mksecret", !.name = n, !.seen = ingress[n]]]
           \/ handler' = [handler EXCEPT ![p] =
                [@ EXCEPT !.pc = "untls", !.name = n, !.seen = ingress[n]]]
  BY DEF Targeted

\* A step is of one handler, and the others stay where they are.
LEMMA OneMoves ==
    ASSUME TypeOK, NEW p \in Handlers, HandlerStep(p)
    PROVE  /\ \A q \in Handlers \ {p} : handler'[q] = handler[q]
           /\ handler'[p].pc # "idle"
           /\ handler'[p].req \in Requests \/ handler'[p].req = handler[p].req
  <1> DEFINE Moved == /\ \A q \in Handlers \ {p} : handler'[q] = handler[q]
                      /\ handler'[p].pc # "idle"
                      /\ handler'[p].req \in Requests \/ handler'[p].req = handler[p].req
  <1>0. handler \in [Handlers -> Handler] /\ handler[p] \in Handler
    BY DEF TypeOK
  <1>1. ASSUME NEW outcome, outcome # "idle", End(p, outcome)
        PROVE  Moved
    BY <1>0, <1>1 DEF End, Idle
  <1>2. ASSUME NextCName(p)
        PROVE  Moved
    BY <1>0, <1>2 DEF NextCName, Handler
  <1>3. ASSUME NEW parent, GoToCNames(p, parent)
        PROVE  Moved
    BY <1>0, <1>3 DEF GoToCNames, Idle
  <1>4. ASSUME NEW step, step # "idle", handler' = [handler EXCEPT ![p].pc = step]
        PROVE  Moved
    BY <1>0, <1>4 DEF Handler
  <1>5. ASSUME NEW n, Targeted(p, n)
        PROVE  Moved
    <2>1. CASE handler' = [handler EXCEPT ![p] =
                [@ EXCEPT !.pc = "mksecret", !.name = n, !.seen = ingress[n]]]
      BY <1>0, <2>1 DEF Handler
    <2>2. CASE handler' = [handler EXCEPT ![p] =
                [@ EXCEPT !.pc = "untls", !.name = n, !.seen = ingress[n]]]
      BY <1>0, <2>2 DEF Handler
    <2> QED
      BY <1>1, <1>5, <2>1, <2>2, TargetedIs
  <1>6. CASE Receive(p)
    BY <1>0, <1>6 DEF Receive, Idle, FirstStep
  <1>7. CASE EnsureGet(p)
    <2>1. PICK n, o :
            \/ handler' = [handler EXCEPT ![p].pc = "return"]
            \/ handler' = [handler EXCEPT ![p] =
                    [@ EXCEPT !.pc = "put", !.name = n, !.seen = o]]
      BY <1>7 DEF EnsureGet
    <2>2. CASE handler' = [handler EXCEPT ![p] =
                    [@ EXCEPT !.pc = "put", !.name = n, !.seen = o]]
      BY <1>0, <2>2 DEF Handler
    <2> QED
      BY <1>4, <2>1, <2>2
  <1>8. CASE CNameGet(p)
    <2>1. PICK c, o :
            \/ handler' = [handler EXCEPT ![p].todo = @ \ {c}]
            \/ handler' = [handler EXCEPT ![p] =
                    [@ EXCEPT !.pc = "cput", !.name = c, !.seen = o]]
      BY <1>8 DEF CNameGet
    <2>2. CASE handler' = [handler EXCEPT ![p].todo = @ \ {c}]
      BY <1>0, <1>8, <2>2 DEF CNameGet, At, Handler
    <2>3. CASE handler' = [handler EXCEPT ![p] =
                    [@ EXCEPT !.pc = "cput", !.name = c, !.seen = o]]
      BY <1>0, <2>3 DEF Handler
    <2> QED
      BY <2>1, <2>2, <2>3
  <1>9. CASE CNameRemove(p)
    BY <1>0, <1>9 DEF CNameRemove, At, Handler
  <1>10. CASE GetSecret(p)
    BY <1>0, <1>1, <1>10 DEF GetSecret, Handler
  <1>11. CASE UpdateSecret(p)
    BY <1>0, <1>1, <1>11 DEF UpdateSecret, Refused, Handler
  <1>12. CASE EnsureCreate(p) \/ EnsureUpdate(p)
    BY <1>1, <1>3, <1>12 DEF EnsureCreate, EnsureUpdate, Refused
  <1>13. CASE CNameCreate(p) \/ CNameUpdate(p) \/ CNameDeleteCertificate(p)
    BY <1>1, <1>2, <1>4, <1>13
       DEF CNameCreate, CNameUpdate, CNameDeleteCertificate, AfterCNamePut, Refused
  <1>14. CASE Fail(p) \/ Return(p) \/ EnsureDone(p)
    BY <1>1, <1>14 DEF Fail, Return, EnsureDone
  <1>15. CASE RemoveMain(p) \/ FindTarget(p) \/ FindMain(p) \/ CreateSecret(p)
    BY <1>1, <1>4, <1>5, <1>15 DEF RemoveMain, FindTarget, FindMain, CreateSecret
  <1>16. CASE AddTLS(p) \/ RemoveTLS(p) \/ DeleteSecret(p)
    BY <1>1, <1>4, <1>16 DEF AddTLS, RemoveTLS, DeleteSecret, Refused
  <1> QED
    BY <1>6, <1>7, <1>8, <1>9, <1>10, <1>11, <1>12, <1>13, <1>14, <1>15, <1>16
       DEF HandlerStep, EnsureStep, CertificateStep

\* So a handler that is alone after a step of one is the one that took it.
LEMMA AloneMoved ==
    ASSUME TypeOK, NEW p \in Handlers, NEW q \in Handlers, Alone(q)', HandlerStep(p)
    PROVE  p = q /\ Alone(p)
  BY OneMoves DEF Alone, At

LEMMA EnvironmentMovesNone ==
    ASSUME Environment
    PROVE  UNCHANGED <<handler, received, faults>>
  BY DEF Environment, Collect, CollectCName, CollectMain, CollectCertificate,
     IssueCertificate, OwnerServiceDeleted, ToggleFreeze, Event, bounds

LEMMA StaysAsked ==
    ASSUME TypeOK, Asked, [Next]_vars
    PROVE  Asked'
  <1> SUFFICES ASSUME NEW p \in Handlers, handler'[p].pc # "idle"
               PROVE  handler'[p].req \in Requests
    BY DEF Asked, At
  <1>1. CASE handler'[p] = handler[p]
    BY <1>1 DEF Asked, At
  <1>2. ASSUME NEW q \in Handlers, HandlerStep(q), handler'[p] # handler[p]
        PROVE  handler'[p].req \in Requests
    <2>1. p = q /\ (handler'[p].req \in Requests \/ handler'[p].req = handler[p].req)
      BY <1>2, OneMoves
    <2>2. CASE Receive(p)
      <3>1. PICK r \in Requests :
                handler' = [handler EXCEPT ![p] = [Idle EXCEPT !.pc = FirstStep(r.op), !.req = r]]
        BY <2>2 DEF Receive
      <3> QED
        BY <3>1 DEF TypeOK, Idle
    <2>3. CASE ~Receive(p)
      <3>1. ~At(p, "idle")
        BY <1>2, <2>1, <2>3 DEF HandlerStep, Fail, Return, EnsureStep, CertificateStep,
           RemoveMain, EnsureGet, EnsureCreate, EnsureUpdate, CNameGet, CNameCreate, CNameUpdate,
           CNameDeleteCertificate, CNameRemove, EnsureDone, FindTarget, FindMain, CreateSecret,
           GetSecret, UpdateSecret, AddTLS, RemoveTLS, DeleteSecret, At, Steps
      <3> QED
        BY <2>1, <3>1 DEF Asked
    <2> QED
      BY <2>2, <2>3
  <1> QED
    BY <1>1, <1>2, EnvironmentMovesNone DEF Next, vars

LEMMA StaysSound ==
    ASSUME IInv, Sound, [Next]_vars
    PROVE  Sound'
  <1>0. TypeOK /\ TypeOK' /\ StoreStep
    BY NextTyped, NextStores DEF IInv
  <1>1. ASSUME NEW p \in Handlers
        PROVE  LocalsOK(p)'
    <2>1. Steady(handler[p], version) /\ handler[p] \in Handler
      BY <1>0 DEF Sound, LocalsOK, TypeOK
    <2>2. Steady(handler'[p], version')
      <3>1. CASE handler'[p] = handler[p]
        BY <1>0, <2>1, <3>1, SteadyStays
      <3>2. ASSUME NEW q \in Handlers, HandlerStep(q), handler'[p] # handler[p]
            PROVE  Steady(handler'[p], version')
        <4>1. p = q
          BY <1>0, <3>2, OneMoves
        <4> QED
          BY <1>0, <2>1, <3>2, <4>1, OutlineSteady, EnsureSteady, CertificateSteady
             DEF HandlerStep
      <3> QED
        BY <3>1, <3>2, EnvironmentMovesNone DEF Next, vars
    <2>3. Exists(handler'[p].seen) => Proper(handler'[p].name, handler'[p].seen, version')
      BY SeenStaysProper
    <2> QED
      BY <2>2, <2>3 DEF LocalsOK
  <1> QED
    BY <1>0, <1>1, StaysProper, StaysCertificatesBound, StaysAsked DEF Sound

-----------------------------------------------------------------------------
(* What an Ensure has done of its CNames stays done.                       *)

\* Without a main ingress that it ensured, a request has nothing to keep.
LEMMA ParentlessAttaches ==
    ASSUME TypeOK', Sound', NEW p \in Handlers, handler'[p].parent = 0
    PROVE  Attaches(p)'
  <1> DEFINE r == handler'[p].req
  <1>1. CASE r = Nil
    BY <1>1 DEF Attaches
  <1>2. CASE r # Nil
    <2>1. r.app \in Names
      BY <1>2, AppOf DEF TypeOK, Handler
    <2>2. ~MainStands(p)'
      BY <2>1 DEF MainStands, Sound, AllProper, Proper
    <2> QED
      BY <2>2 DEF Attaches
  <1> QED
    BY <1>1, <1>2

\* Nor has one that ended with an error.
LEMMA OffAttaches ==
    ASSUME NEW p \in Handlers, handler'[p].pc \notin CNamePCs \cup {"ok"}
    PROVE  Attaches(p)'
  BY DEF Attaches, At, CNamePCs

LEMMA EndedAttaches ==
    ASSUME TypeOK, NEW p \in Handlers, End(p, "error")
    PROVE  Attaches(p)'
  <1>1. handler'[p].pc = "error"
    BY DEF End, Idle, TypeOK
  <1> QED
    BY <1>1, OffAttaches DEF CNamePCs

\* Every CName is still to do when the main ingress is written.
LEMMA GoToCNamesAttaches ==
    ASSUME TypeOK, NEW p \in Handlers, NEW parent, GoToCNames(p, parent)
    PROVE  Attaches(p)'
  <1> DEFINE g == handler'[p]
  <1>1. g.pc = "cnames" /\ g.todo = g.req.cnames
    BY DEF GoToCNames, Idle, TypeOK
  <1> QED
    BY <1>1 DEF Attaches, At

LEMMA MainPutAttaches ==
    ASSUME TypeOK, NEW p \in Handlers, EnsureCreate(p) \/ EnsureUpdate(p)
    PROVE  Attaches(p)'
  <1>1. CASE Refused(p)
    BY <1>1, EndedAttaches DEF Refused
  <1>2. CASE ~Refused(p)
    <2>1. PICK parent : GoToCNames(p, parent)
      BY <1>2 DEF EnsureCreate, EnsureUpdate
    <2> QED
      BY <2>1, GoToCNamesAttaches
  <1> QED
    BY <1>1, <1>2

\* What a handler at the CNames of its Ensure goes by.
LEMMA AtCNames ==
    ASSUME IInv, Sound, NEW p \in Handlers, handler[p].pc \in CNamePCs
    PROVE  LET h == handler[p] IN
           /\ h \in Handler /\ h.req \in EnsureRequest /\ h.req # Nil
           /\ h.req.op = "Ensure" /\ h.req.cnames \subseteq CNames
           /\ h.req.app \in Apps /\ h.req.app \in Names /\ h.req.app \notin CNames
           /\ h.parent \in Nat /\ h.todo \subseteq h.req.cnames
           /\ h.drop \cap h.req.cnames = {}
           /\ h.pc \in {"cput", "cdelete"} =>
                h.name \in h.todo /\ h.name \in CNames /\ h.name # h.req.app
  <1> DEFINE h == handler[p]
  <1>1. h \in Handler /\ StageOK(h) /\ Steady(h, version)
    BY DEF IInv, TypeOK, Staged, Sound, LocalsOK
  <1>2. h.req \in EnsureRequest /\ (h.pc \in {"cput", "cdelete"} => h.name \in CNames)
    BY <1>1 DEF StageOK, EnsurePCs, CNamePCs
  <1>3. /\ h.req.op = "Ensure" /\ h.req.cnames \subseteq CNames
        /\ h.req.app \in Apps /\ h.req.app \in Names /\ h.req.app \notin CNames
        /\ h.req # Nil
    BY <1>2, NamesAssumption, NilAssumption DEF EnsureRequest, Names, RequestType
  <1> QED
    BY <1>1, <1>2, <1>3 DEF Steady, Handler

\* The main ingress of a request stood before a step that does not touch it.
LEMMA StoodBefore ==
    ASSUME NEW p \in Handlers, MainStands(p)',
           handler'[p].req = handler[p].req, handler'[p].parent = handler[p].parent,
           ingress'[handler[p].req.app] = ingress[handler[p].req.app]
    PROVE  MainStands(p)
  BY DEF MainStands

LEMMA CNameGetAttaches ==
    ASSUME IInv, Sound, NEW p \in Handlers, Attaches(p), CNameGet(p)
    PROVE  Attaches(p)'
  <1> DEFINE h == handler[p]
             g == handler'[p]
             r == h.req
  <1>1. h.pc = "cnames" /\ h.pc \in CNamePCs /\ UNCHANGED <<ingress, certificate>>
    BY DEF CNameGet, At, CNamePCs, cluster
  <1>2. /\ h \in Handler /\ r # Nil /\ h.todo \subseteq r.cnames
        /\ r.cnames \subseteq CNames
    BY <1>1, AtCNames
  <1>3. TypeOK
    BY DEF IInv
  <1>4. PICK c \in h.todo :
            \/ Frozen(ingress[c]) /\ handler' = [handler EXCEPT ![p].todo = @ \ {c}]
            \/ handler' = [handler EXCEPT ![p] =
                    [@ EXCEPT !.pc = "cput", !.name = c, !.seen = ingress[c]]]
    BY DEF CNameGet
  <1>5. g.req = r /\ g.parent = h.parent
    <2>1. CASE handler' = [handler EXCEPT ![p].todo = @ \ {c}]
      BY <1>2, <1>3, <2>1 DEF TypeOK, Handler
    <2>2. CASE handler' = [handler EXCEPT ![p] =
                    [@ EXCEPT !.pc = "cput", !.name = c, !.seen = ingress[c]]]
      BY <1>2, <1>3, <2>2 DEF TypeOK, Handler
    <2> QED
      BY <1>4, <2>1, <2>2
  <1> SUFFICES ASSUME MainStands(p)'
               PROVE  Attaches(p)'
    BY DEF Attaches
  <1>6. MainStands(p)
    BY <1>1, <1>5, StoodBefore
  <1>7. PICK a, parent : a = r.app /\ parent = h.parent
    OBVIOUS
  <1>8. ASSUME NEW b \in (r.cnames \ h.todo) \ Freezable
        PROVE  Fulfilled(a, b, parent)'
    BY <1>1, <1>2, <1>6, <1>7, <1>8 DEF Attaches, Fulfilled, Attached
  <1>9. CASE Frozen(ingress[c]) /\ handler' = [handler EXCEPT ![p].todo = @ \ {c}]
    <2>1. g.pc = "cnames" /\ g.todo = h.todo \ {c}
      BY <1>1, <1>2, <1>3, <1>9 DEF TypeOK, Handler
    <2>2. c \in Freezable
      BY <1>2, <1>9 DEF Frozen, Sound, AllProper, Proper, Names
    <2>3. \A b \in (r.cnames \ g.todo) \ Freezable : Fulfilled(a, b, parent)'
      BY <1>8, <2>1, <2>2
    <2> QED
      BY <1>5, <1>7, <2>1, <2>3 DEF Attaches, At
  <1>10. CASE handler' = [handler EXCEPT ![p] =
                [@ EXCEPT !.pc = "cput", !.name = c, !.seen = ingress[c]]]
    <2>1. /\ g.pc = "cput" /\ g.todo = h.todo /\ g.name = c /\ g.seen = ingress[c]
      BY <1>2, <1>3, <1>10 DEF TypeOK, Handler
    <2> QED
      BY <1>1, <1>5, <1>7, <1>8, <2>1 DEF Attaches, At
  <1> QED
    BY <1>4, <1>9, <1>10

\* One more CName is done.
LEMMA NextCNameAttaches ==
    ASSUME IInv, Sound, NEW p \in Handlers, Attaches(p), NextCName(p),
           handler[p].pc \in {"cput", "cdelete"},
           NEW a, NEW d, NEW parent,
           a = handler[p].req.app, d = handler[p].name, parent = handler[p].parent,
           \A n \in Names \ {d} : ingress'[n] = ingress[n],
           \A c \in CNames \ {d} : certificate'[<<a, c>>] = certificate[<<a, c>>],
           MainStands(p) /\ d \notin Freezable => Fulfilled(a, d, parent)'
    PROVE  Attaches(p)'
  <1> DEFINE h == handler[p]
             g == handler'[p]
             r == h.req
  <1>1. h.pc \in CNamePCs
    BY DEF CNamePCs
  <1>2. /\ h \in Handler /\ r # Nil /\ h.todo \subseteq r.cnames
        /\ r.cnames \subseteq CNames /\ CNames \subseteq Names
        /\ a \in Names /\ d \in h.todo /\ d # a
    BY <1>1, AtCNames DEF Names
  <1>3. /\ g.req = r /\ g.parent = h.parent
        /\ g.pc = "cnames" /\ g.todo = h.todo \ {d}
    BY <1>2 DEF NextCName, IInv, TypeOK, Handler
  <1> SUFFICES ASSUME MainStands(p)'
               PROVE  Attaches(p)'
    BY DEF Attaches
  <1>4. MainStands(p)
    BY <1>2, <1>3, StoodBefore
  <1>5. ASSUME NEW c \in (r.cnames \ g.todo) \ Freezable
        PROVE  Fulfilled(a, c, parent)'
    <2>1. CASE c = d
      BY <1>4, <1>5, <2>1
    <2>2. CASE c # d
      <3>1. Fulfilled(a, c, parent)
        BY <1>1, <1>2, <1>3, <1>4, <1>5, <2>2 DEF Attaches
      <3>2. ingress'[c] = ingress[c] /\ certificate'[<<a, c>>] = certificate[<<a, c>>]
        BY <1>2, <1>5, <2>2
      <3> QED
        BY <3>1, <3>2 DEF Fulfilled, Attached
    <2> QED
      BY <2>1, <2>2
  <1> QED
    BY <1>3, <1>5 DEF Attaches, At

LEMMA CNameCreateAttaches ==
    ASSUME IInv, Sound, NEW p \in Handlers, Attaches(p), CNameCreate(p)
    PROVE  Attaches(p)'
  <1> DEFINE h == handler[p]
  <1>1. TypeOK /\ h.pc = "cput" /\ h.pc \in CNamePCs
    BY DEF IInv, CNameCreate, At, CNamePCs
  <1>2. PICK a, d, parent : a = h.req.app /\ d = h.name /\ parent = h.parent
    OBVIOUS
  <1>3. /\ h.req \in EnsureRequest /\ parent \in Nat
        /\ a \in Apps /\ d \in CNames /\ d \in Names
    BY <1>1, <1>2, AtCNames DEF Names
  <1>4. CASE Refused(p)
    BY <1>1, <1>4, EndedAttaches DEF Refused
  <1>5. CASE ~Refused(p)
    <2> DEFINE new == CNameIngress(h.req, d, parent)
               made == Created(new, version[d] + 1)
    <2>1. CreateIngress(d, new) /\ NextCName(p) /\ UNCHANGED certificate
      BY <1>2, <1>5 DEF CNameCreate
    <2>2. new \in Ingress /\ new.app = a /\ new.owner = parent
      BY <1>2, <1>3, CNameIngressType, CNameIngressIs
    <2> HIDE DEF new
    <2>3. version[d] \in Nat /\ version[d] + 1 \in Nat
      BY <1>1, <1>3 DEF TypeOK
    <2>4. made.app = a /\ made.owner = parent /\ made.uid = version[d] + 1 /\ made \in Ingress
      BY <2>2, <2>3, CreatedIs, CreatedType
    <2>5. ingress'[d] = made /\ \A n \in Names \ {d} : ingress'[n] = ingress[n]
      BY <1>1, <1>3, <2>1, CreateStores
    <2> HIDE DEF made
    <2>6. certificate'[<<a, d>>] # made.uid
      <3>1. certificate[<<a, d>>] <= version[d] /\ certificate[<<a, d>>] \in Nat
        BY <1>1, <1>3 DEF Sound, CertificatesBound, TypeOK, SecretKeys, Hosts
      <3> QED
        BY <2>1, <2>3, <2>4, <3>1
    <2>7. Fulfilled(a, d, parent)'
      BY <2>4, <2>5, <2>6, NilAssumption DEF Fulfilled, Attached, Exists
    <2> QED
      BY <1>1, <1>2, <2>1, <2>5, <2>7, NextCNameAttaches
  <1> QED
    BY <1>4, <1>5

\* A CName whose ingress is as wanted, but maybe for its certificate.
LEMMA AfterCNamePutAttaches ==
    ASSUME IInv, Sound, NEW p \in Handlers, Attaches(p), handler[p].pc = "cput",
           NEW tls, AfterCNamePut(p, tls), UNCHANGED certificate,
           NEW a, NEW d, NEW parent,
           a = handler[p].req.app, d = handler[p].name, parent = handler[p].parent,
           \A n \in Names \ {d} : ingress'[n] = ingress[n],
           MainStands(p) /\ d \notin Freezable =>
                Attached(a, d, parent)' /\ ingress'[d].tls = tls
    PROVE  Attaches(p)'
  <1> DEFINE h == handler[p]
             g == handler'[p]
             r == h.req
  <1>1. h.pc \in CNamePCs
    BY DEF CNamePCs
  <1>2. /\ h \in Handler /\ r # Nil /\ h.todo \subseteq r.cnames
        /\ r.cnames \subseteq CNames /\ CNames \subseteq Names
        /\ a \in Names /\ d \in h.todo /\ d # a
    BY <1>1, AtCNames DEF Names
  <1>3. CASE tls # <<>>
    <2>1. NextCName(p)
      BY <1>3 DEF AfterCNamePut
    <2>2. MainStands(p) /\ d \notin Freezable => Fulfilled(a, d, parent)'
      BY <1>3 DEF Fulfilled
    <2> QED
      BY <2>1, <2>2, NextCNameAttaches
  <1>4. CASE tls = <<>>
    <2>1. /\ g.req = r /\ g.parent = parent /\ g.name = d
          /\ g.pc = "cdelete" /\ g.todo = h.todo
      BY <1>2, <1>4 DEF AfterCNamePut, IInv, TypeOK, Handler
    <2> SUFFICES ASSUME MainStands(p)'
                 PROVE  Attaches(p)'
      BY DEF Attaches
    <2>2. MainStands(p)
      BY <1>2, <2>1, StoodBefore
    <2>3. ASSUME NEW c \in (r.cnames \ g.todo) \ Freezable
          PROVE  Fulfilled(a, c, parent)'
      <3>1. Fulfilled(a, c, parent)
        BY <1>1, <1>2, <2>1, <2>2, <2>3 DEF Attaches
      <3>2. ingress'[c] = ingress[c]
        BY <1>2, <2>1, <2>3
      <3> QED
        BY <3>1, <3>2 DEF Fulfilled, Attached
    <2> QED
      BY <2>1, <2>2, <2>3 DEF Attaches, At
  <1> QED
    BY <1>3, <1>4

LEMMA CNameUpdateAttaches ==
    ASSUME IInv, Sound, NEW p \in Handlers, Attaches(p), CNameUpdate(p)
    PROVE  Attaches(p)'
  <1> DEFINE h == handler[p]
  <1>1. TypeOK /\ h.pc = "cput" /\ h.pc \in CNamePCs /\ Exists(h.seen)
    BY DEF IInv, CNameUpdate, At, CNamePCs
  <1>2. PICK a, d, parent : a = h.req.app /\ d = h.name /\ parent = h.parent
    OBVIOUS
  <1>3. /\ h \in Handler /\ h.req \in EnsureRequest /\ parent \in Nat
        /\ a \in Apps /\ d \in CNames /\ d \in Names /\ h.req # Nil
    BY <1>1, <1>2, AtCNames DEF Names
  <1>4. h.seen \in Ingress
    BY <1>1, <1>3 DEF Handler, Exists
  <1> DEFINE new == CNameIngress(h.req, d, parent)
             merged == MergeIngress(new, h.seen)
  <1>5. new \in Ingress /\ new.app = a /\ new.owner = parent
    BY <1>2, <1>3, CNameIngressType, CNameIngressIs
  <1>6. CASE Refused(p)
    BY <1>1, <1>6, EndedAttaches DEF Refused
  <1>7. CASE /\ ~IngressHasChanges(h.seen, new)
             /\ AfterCNamePut(p, new.tls) /\ UNCHANGED cluster
    <2>1. h.seen.app = a /\ h.seen.owner = parent /\ h.seen.tls = new.tls
      <3> HIDE DEF new
      <3> QED
        BY <1>5, <1>7 DEF IngressHasChanges
    <2>2. MainStands(p) /\ d \notin Freezable => ingress[d] = h.seen
      BY <1>1, <1>2, <1>3, <2>1 DEF Attaches, At
    <2>3. UNCHANGED <<ingress, certificate>>
      BY <1>7 DEF cluster
    <2>4. MainStands(p) /\ d \notin Freezable =>
            Attached(a, d, parent)' /\ ingress'[d].tls = new.tls
      BY <1>1, <2>1, <2>2, <2>3 DEF Attached
    <2> HIDE DEF new
    <2> QED
      BY <1>1, <1>2, <1>7, <2>3, <2>4, AfterCNamePutAttaches
  <1>8. CASE /\ Accepts(ingress[d], MergeVersion(h.seen)) /\ ReplaceIngress(d, merged)
             /\ AfterCNamePut(p, merged.tls) /\ UNCHANGED certificate
    <2> HIDE DEF new
    <2>1. merged \in Ingress /\ merged.app = a /\ merged.owner = parent
      BY <1>4, <1>5, MergeIngressIs, MergeIngressType
    <2> HIDE DEF merged
    <2>2. ingress[d] = h.seen
      BY <1>1, <1>2, <1>8, AcceptedIsSeen
    <2> DEFINE made == Replaced(h.seen, merged, version[d] + 1)
    <2>3. version[d] + 1 \in Nat
      BY <1>1, <1>3 DEF TypeOK
    <2>4. ~h.seen.terminating
      BY <1>1, <1>2, <1>3 DEF Sound, LocalsOK, Proper
    <2>5. Exists(made)
      <3>1. made # Nil
        BY <1>4, <2>1, <2>3, <2>4, OverType, EditedType, NilAssumption DEF Replaced, Edited
      <3> QED
        BY <3>1 DEF Exists
    <2>6. made.app = a /\ made.owner = parent /\ made.tls = merged.tls
      BY <1>4, <2>1, <2>3, <2>5, ReplacedIs
    <2>7. ingress'[d] = made /\ \A n \in Names \ {d} : ingress'[n] = ingress[n]
      BY <1>1, <1>3, <1>8, <2>2, ReplaceStores
    <2> HIDE DEF made
    <2>8. Attached(a, d, parent)' /\ ingress'[d].tls = merged.tls
      BY <2>5, <2>6, <2>7 DEF Attached
    <2> QED
      BY <1>1, <1>2, <1>8, <2>7, <2>8, AfterCNamePutAttaches
  <1> QED
    BY <1>2, <1>6, <1>7, <1>8 DEF CNameUpdate

LEMMA CNameDeleteCertificateAttaches ==
    ASSUME IInv, Sound, NEW p \in Handlers, Attaches(p), CNameDeleteCertificate(p)
    PROVE  Attaches(p)'
  <1> DEFINE h == handler[p]
  <1>1. TypeOK /\ h.pc = "cdelete" /\ h.pc \in CNamePCs
    BY DEF IInv, CNameDeleteCertificate, At, CNamePCs
  <1>2. PICK a, d, parent : a = h.req.app /\ d = h.name /\ parent = h.parent
    OBVIOUS
  <1>3. a \in Apps /\ d \in CNames /\ d \in Names /\ h.req # Nil
    BY <1>1, <1>2, AtCNames DEF Names
  <1>4. /\ NextCName(p) /\ UNCHANGED ingress
        /\ certificate' = [certificate EXCEPT ![<<a, d>>] = 0]
    BY <1>2 DEF CNameDeleteCertificate, ingresses
  <1>5. certificate'[<<a, d>>] = 0
    BY <1>1, <1>3, <1>4 DEF TypeOK, SecretKeys, Hosts
  <1>6. \A c \in CNames \ {d} : certificate'[<<a, c>>] = certificate[<<a, c>>]
    BY <1>1, <1>4 DEF TypeOK
  <1>7. MainStands(p) /\ d \notin Freezable => Attached(a, d, parent)
    BY <1>1, <1>2, <1>3 DEF Attaches, At
  <1>8. Exists(ingress[d]) => ingress[d].uid # 0
    BY <1>3 DEF Sound, AllProper, Proper
  <1>9. MainStands(p) /\ d \notin Freezable => Fulfilled(a, d, parent)'
    BY <1>4, <1>5, <1>7, <1>8 DEF Fulfilled, Attached
  <1> QED
    BY <1>1, <1>2, <1>4, <1>6, <1>9, NextCNameAttaches

LEMMA CNameRemoveAttaches ==
    ASSUME IInv, Sound, NEW p \in Handlers, Attaches(p), CNameRemove(p)
    PROVE  Attaches(p)'
  <1> DEFINE h == handler[p]
             g == handler'[p]
             r == h.req
  <1>1. TypeOK /\ h.pc = "cnames" /\ h.pc \in CNamePCs
    BY DEF IInv, CNameRemove, At, CNamePCs
  <1>2. PICK a, parent : a = r.app /\ parent = h.parent
    OBVIOUS
  <1>3. /\ h \in Handler /\ r # Nil /\ h.drop \cap r.cnames = {}
        /\ r.cnames \subseteq CNames /\ CNames \subseteq Names
        /\ a \in Names /\ a \notin CNames /\ h.drop \subseteq CNames
    BY <1>1, <1>2, AtCNames DEF Names, Handler
  <1>4. PICK d \in h.drop :
            DeleteIngress(d) /\ handler' = [handler EXCEPT ![p].drop = @ \ {d}]
    BY DEF CNameRemove
  <1>5. UNCHANGED certificate /\ \A n \in Names \ {d} : ingress'[n] = ingress[n]
    BY <1>1, <1>4 DEF CNameRemove, DeleteIngress, TypeOK
  <1>6. g.pc = "cnames" /\ g.req = r /\ g.parent = parent /\ g.todo = h.todo
    BY <1>1, <1>2, <1>3, <1>4 DEF TypeOK, Handler
  <1> SUFFICES ASSUME MainStands(p)'
               PROVE  Attaches(p)'
    BY DEF Attaches
  <1>7. MainStands(p)
    BY <1>2, <1>3, <1>5, <1>6, StoodBefore
  <1>8. ASSUME NEW c \in (r.cnames \ g.todo) \ Freezable
        PROVE  Fulfilled(a, c, parent)'
    <2>1. Fulfilled(a, c, parent)
      BY <1>1, <1>2, <1>3, <1>6, <1>7, <1>8 DEF Attaches
    <2>2. ingress'[c] = ingress[c]
      BY <1>3, <1>5, <1>8
    <2> QED
      BY <1>5, <2>1, <2>2 DEF Fulfilled, Attached
  <1> QED
    BY <1>2, <1>6, <1>8 DEF Attaches, At

LEMMA EnsureDoneAttaches ==
    ASSUME IInv, Sound, NEW p \in Handlers, Attaches(p), EnsureDone(p)
    PROVE  Attaches(p)'
  <1> DEFINE h == handler[p]
             g == handler'[p]
             r == h.req
  <1>1. h.pc = "cnames" /\ h.todo = {} /\ h.pc \in CNamePCs
    BY DEF EnsureDone, At, CNamePCs
  <1>2. h \in Handler /\ r # Nil
    BY <1>1, AtCNames
  <1>3. g.pc = "ok" /\ g.req = r /\ g.parent = h.parent
    BY DEF EnsureDone, End, Idle, IInv, TypeOK
  <1>4. UNCHANGED <<ingress, certificate>>
    BY DEF EnsureDone, cluster
  <1> SUFFICES ASSUME MainStands(p)'
               PROVE  Attaches(p)'
    BY DEF Attaches
  <1>5. MainStands(p)
    BY <1>3, <1>4, StoodBefore
  <1>6. PICK a, parent : a = r.app /\ parent = h.parent
    OBVIOUS
  <1>7. ASSUME NEW c \in r.cnames \ Freezable
        PROVE  Fulfilled(a, c, parent)'
    BY <1>1, <1>2, <1>4, <1>5, <1>6, <1>7 DEF Attaches, Fulfilled, Attached
  <1> QED
    BY <1>3, <1>6, <1>7 DEF Attaches, At, CNamePCs

LEMMA HandlerAttaches ==
    ASSUME IInv, Sound, TypeOK', Sound', NEW p \in Handlers, Attaches(p), HandlerStep(p)
    PROVE  Attaches(p)'
  <1> DEFINE h == handler[p]
             g == handler'[p]
  <1>1. TypeOK /\ h \in Handler /\ Steady(h, version)
    BY DEF IInv, TypeOK, Sound, LocalsOK
  <1>2. CASE End(p, "error")
    BY <1>1, <1>2, EndedAttaches
  <1>3. ASSUME NEW step \in {"return", "main", "addtls", "getsecret", "unsecret"},
               handler' = [handler EXCEPT ![p].pc = step]
        PROVE  Attaches(p)'
    <2>1. g.pc = step
      BY <1>1, <1>3 DEF TypeOK, Handler
    <2> QED
      BY <2>1, OffAttaches DEF CNamePCs
  <1>4. ASSUME h.parent = 0, NEW outcome, End(p, outcome)
        PROVE  Attaches(p)'
    <2>1. g.parent = 0
      BY <1>1, <1>4 DEF End, Idle, TypeOK
    <2> QED
      BY <2>1, ParentlessAttaches
  <1>5. CASE Receive(p)
    <2>1. g.parent = 0
      BY <1>1, <1>5 DEF Receive, Idle, TypeOK
    <2> QED
      BY <2>1, ParentlessAttaches
  <1>6. CASE Fail(p)
    BY <1>2, <1>6 DEF Fail
  <1>7. CASE Return(p)
    <2>1. h.parent = 0
      BY <1>1, <1>7 DEF Return, At, Steady, CNamePCs
    <2> QED
      BY <1>4, <1>7, <2>1 DEF Return
  <1>8. CASE EnsureGet(p)
    <2>1. PICK n, o :
            \/ handler' = [handler EXCEPT ![p].pc = "return"]
            \/ handler' = [handler EXCEPT ![p] =
                    [@ EXCEPT !.pc = "put", !.name = n, !.seen = o]]
      BY <1>8 DEF EnsureGet
    <2>2. CASE handler' = [handler EXCEPT ![p] =
                    [@ EXCEPT !.pc = "put", !.name = n, !.seen = o]]
      <3>1. g.pc = "put"
        BY <1>1, <2>2 DEF TypeOK, Handler
      <3> QED
        BY <3>1, OffAttaches DEF CNamePCs
    <2> QED
      BY <1>3, <2>1, <2>2
  <1>9. CASE EnsureStep(p) /\ ~EnsureGet(p)
    BY <1>1, <1>9, MainPutAttaches, CNameGetAttaches, CNameCreateAttaches, CNameUpdateAttaches,
       CNameDeleteCertificateAttaches, CNameRemoveAttaches, EnsureDoneAttaches
       DEF EnsureStep
  <1>10. CASE RemoveMain(p)
    BY <1>3, <1>10 DEF RemoveMain
  <1>11. CASE CertificateStep(p)
    <2>1. h.pc \in {"target", "main", "mksecret", "getsecret", "putsecret", "addtls", "untls",
                    "unsecret"}
      BY <1>11 DEF CertificateStep, FindTarget, FindMain, CreateSecret, GetSecret,
         UpdateSecret, AddTLS, RemoveTLS, DeleteSecret, At
    <2>2. h.parent = 0
      BY <1>1, <2>1 DEF Steady, CNamePCs
    <2>3. ASSUME NEW n, Targeted(p, n)
          PROVE  Attaches(p)'
      <3>1. CASE handler' = [handler EXCEPT ![p] =
                    [@ EXCEPT !.pc = "mksecret", !.name = n, !.seen = ingress[n]]]
        <4>1. g.parent = 0
          BY <1>1, <2>2, <3>1 DEF TypeOK, Handler
        <4> QED
          BY <4>1, ParentlessAttaches
      <3>2. CASE handler' = [handler EXCEPT ![p] =
                    [@ EXCEPT !.pc = "untls", !.name = n, !.seen = ingress[n]]]
        <4>1. g.parent = 0
          BY <1>1, <2>2, <3>2 DEF TypeOK, Handler
        <4> QED
          BY <4>1, ParentlessAttaches
      <3> QED
        BY <1>4, <2>2, <2>3, <3>1, <3>2, TargetedIs
    <2>4. CASE FindTarget(p) \/ FindMain(p)
      BY <1>2, <1>3, <2>3, <2>4 DEF FindTarget, FindMain
    <2>5. CASE CreateSecret(p) \/ AddTLS(p) \/ RemoveTLS(p) \/ DeleteSecret(p)
      BY <1>2, <1>3, <2>5 DEF CreateSecret, AddTLS, RemoveTLS, DeleteSecret, Refused
    <2>6. CASE GetSecret(p) \/ UpdateSecret(p)
      <3>1. \/ End(p, "error")
            \/ \E step, rv : handler' = [handler EXCEPT ![p] =
                                [@ EXCEPT !.pc = step, !.secretRV = rv]]
        BY <2>6 DEF GetSecret, UpdateSecret, Refused
      <3>2. CASE \E step, rv : handler' = [handler EXCEPT ![p] =
                                [@ EXCEPT !.pc = step, !.secretRV = rv]]
        <4>1. g.parent = 0
          BY <1>1, <2>2, <3>2 DEF TypeOK, Handler
        <4> QED
          BY <4>1, ParentlessAttaches
      <3> QED
        BY <1>2, <3>1, <3>2
    <2> QED
      BY <1>11, <2>4, <2>5, <2>6 DEF CertificateStep
  <1> QED
    BY <1>5, <1>6, <1>7, <1>8, <1>9, <1>10, <1>11 DEF HandlerStep

\* The cluster leaves alone what hangs from a main ingress that stands.
LEMMA EnvironmentKeepsAttached ==
    ASSUME IInv, Sound, Environment,
           NEW a \in Apps, NEW c \in CNames \ Freezable, NEW parent,
           Exists(ingress[a]), ingress[a].uid = parent, ~ingress[a].terminating,
           Attached(a, c, parent)
    PROVE  ingress'[c] = ingress[c]
  <1>1. TypeOK /\ a \in Names /\ c \in Names /\ c \notin Apps
    BY NamesAssumption DEF IInv, Names
  <1>2. ~Collectable(ingress[c])
    BY <1>1 DEF Collectable, OwnerThere, Attached
  <1>3. \A d \in CNames : CollectCName(d) => d # c
    BY <1>2 DEF CollectCName
  <1>4. CASE \E d \in CNames : CollectCName(d)
    BY <1>1, <1>3, <1>4 DEF CollectCName, DeleteIngress, TypeOK
  <1>5. CASE \E b \in Apps : CollectMain(b) \/ OwnerServiceDeleted(b)
    BY <1>1, <1>5 DEF CollectMain, OwnerServiceDeleted, DeleteIngress, TypeOK
  <1>6. CASE \E n \in Names : ToggleFreeze(n)
    BY <1>1, <1>6 DEF ToggleFreeze, TypeOK
  <1>7. CASE UNCHANGED ingress
    BY <1>7
  <1> QED
    BY <1>4, <1>5, <1>6, <1>7
       DEF Environment, Collect, CollectCertificate, IssueCertificate, ingresses

\* A main ingress that stands after a step of the cluster stood before it.
LEMMA EnvironmentStands ==
    ASSUME TypeOK, Environment, NEW n \in Names,
           Exists(ingress'[n]), ~ingress'[n].terminating
    PROVE  Exists(ingress[n]) /\ ~ingress[n].terminating /\ ingress'[n].uid = ingress[n].uid
  <1>1. CASE ingress'[n] = ingress[n]
    BY <1>1
  <1>2. CASE ingress'[n] # ingress[n]
    <2>1. PICK m \in Names : ToggleFreeze(m)
      BY <1>2 DEF Environment, Collect, CollectCName, CollectMain, CollectCertificate,
         OwnerServiceDeleted, IssueCertificate, DeleteIngress, ingresses, TypeOK, Names, Exists
    <2>2. /\ Exists(ingress[n])
          /\ ingress'[n] = [ingress[n] EXCEPT !.frozen = ~@, !.rv = version[n] + 1]
      BY <1>2, <2>1 DEF ToggleFreeze, TypeOK
    <2>3. PICK o \in Ingress : o = ingress[n]
      BY <2>2 DEF TypeOK, Exists
    <2> QED
      BY <2>2, <2>3 DEF Ingress
  <1> QED
    BY <1>1, <1>2

LEMMA EnvironmentAttaches ==
    ASSUME IInv, Sound, Environment, NEW p \in Handlers, Attaches(p)
    PROVE  Attaches(p)'
  <1> DEFINE h == handler[p]
             r == h.req
  <1>1. TypeOK /\ StageOK(h) /\ Steady(h, version) /\ h \in Handler /\ UNCHANGED handler
    BY EnvironmentMovesNone DEF IInv, TypeOK, Staged, Sound, LocalsOK
  <1> SUFFICES ASSUME r # Nil, MainStands(p)'
               PROVE  Attaches(p)'
    BY <1>1 DEF Attaches
  <1>2. PICK a, parent : a = r.app /\ parent = h.parent
    OBVIOUS
  <1>3. a \in Apps /\ a \in Names /\ (r.op = "Ensure" => r.cnames \subseteq CNames)
    BY <1>1, <1>2, AppOf, RequestsAssumption
       DEF Handler, RequestType, EnsureRequest, RemoveRequest, CertRequest
  <1>4. Exists(ingress[a]) /\ ingress[a].uid = parent /\ ~ingress[a].terminating
    BY <1>1, <1>2, <1>3, EnvironmentStands DEF MainStands
  <1>5. MainStands(p)
    BY <1>2, <1>4 DEF MainStands
  <1>6. ASSUME NEW c \in CNames \ Freezable, Attached(a, c, parent)
        PROVE  ingress'[c] = ingress[c] /\ Attached(a, c, parent)'
    BY <1>3, <1>4, <1>6, EnvironmentKeepsAttached DEF Attached
  <1>7. ASSUME NEW c \in CNames \ Freezable, Fulfilled(a, c, parent)
        PROVE  Fulfilled(a, c, parent)'
    <2>1. ingress'[c] = ingress[c] /\ Attached(a, c, parent)'
      BY <1>6, <1>7 DEF Fulfilled
    <2>2. ASSUME ingress[c].tls = <<>>
          PROVE  certificate'[<<a, c>>] # ingress[c].uid
      <3>1. Exists(ingress[c]) /\ ingress[c].uid # 0
        BY <1>7 DEF Fulfilled, Attached, Sound, AllProper, Proper, Names
      <3>2. c \notin ToSet(ingress[c].tls)
        BY <2>2 DEF ToSet
      <3>3. [Next]_vars
        BY DEF Next
      <3>4. certificate'[<<a, c>>] \in {0, certificate[<<a, c>>]}
        BY <1>1, <1>3, <3>2, <3>3, CertificateChanges
      <3> QED
        BY <1>7, <2>2, <3>1, <3>4 DEF Fulfilled
    <2> QED
      BY <2>1, <2>2 DEF Fulfilled
  <1>8. h.pc \in CNamePCs =>
            /\ r.op = "Ensure"
            /\ (h.pc \in {"cput", "cdelete"} => h.name \in CNames)
            /\ h.parent # 0
    BY <1>1 DEF StageOK, CNamePCs, EnsurePCs, EnsureRequest, Steady
  <1>9. h.pc \in CNamePCs =>
            \A c \in (r.cnames \ h.todo) \ Freezable : Fulfilled(a, c, parent)'
    BY <1>2, <1>3, <1>5, <1>7, <1>8 DEF Attaches
  <1>10. At(p, "ok") /\ r.op = "Ensure" =>
            \A c \in r.cnames \ Freezable : Fulfilled(a, c, parent)'
    BY <1>2, <1>3, <1>5, <1>7 DEF Attaches
  <1>11. ASSUME At(p, "cput"), h.name \notin Freezable,
                Exists(h.seen), h.seen.app = a, h.seen.owner = parent
         PROVE  ingress'[h.name] = h.seen
    <2>1. ingress[h.name] = h.seen /\ h.name \in CNames
      BY <1>2, <1>5, <1>8, <1>11 DEF Attaches, At, CNamePCs
    <2> QED
      BY <1>6, <1>11, <2>1 DEF Attached
  <1>12. PICK d : d = h.name
    OBVIOUS
  <1>13. At(p, "cdelete") /\ d \notin Freezable => Attached(a, d, parent)'
    BY <1>2, <1>5, <1>6, <1>8, <1>12 DEF Attaches, At, CNamePCs
  <1> QED
    BY <1>1, <1>2, <1>9, <1>10, <1>11, <1>12, <1>13 DEF Attaches, At

-----------------------------------------------------------------------------
(* As long as nothing fails, what hangs from a main ingress is known to it. *)

LEMMA HangingStays ==
    ASSUME \A n \in Names : Spared(n), NEW a \in Apps, Exists(ingress'[a])
    PROVE  /\ Exists(ingress[a])
           /\ ingress'[a].cnames = ingress[a].cnames /\ ingress'[a].uid = ingress[a].uid
           /\ Hanging(a)' \subseteq Hanging(a)
  <1>1. /\ Exists(ingress[a])
        /\ ingress'[a].cnames = ingress[a].cnames /\ ingress'[a].uid = ingress[a].uid
    BY DEF Spared, SameRole, Names
  <1>2. ASSUME NEW c \in CNames, Attached(a, c, ingress[a].uid)'
        PROVE  Attached(a, c, ingress[a].uid)
    BY <1>1, <1>2 DEF Spared, SameRole, Names, Attached
  <1> QED
    BY <1>1, <1>2 DEF Hanging

\* Steps away from the CNames.
LEMMA OffTracks ==
    ASSUME NEW p \in Handlers, \A n \in Names : Spared(n), Tracks(p),
           handler[p].pc \notin CNamePCs, handler'[p].pc \notin CNamePCs \cup {"put"},
           handler'[p].pc = "ok" => handler'[p].parent = 0
    PROVE  Tracks(p)'
  <1>1. ASSUME NEW a \in Apps, Exists(ingress'[a])
        PROVE  Hanging(a)' \subseteq ingress'[a].cnames
    BY <1>1, HangingStays DEF Tracks
  <1> QED
    BY <1>1 DEF Tracks, At, CNamePCs

\* Steps at the CNames.
LEMMA OnTracks ==
    ASSUME NEW p \in Handlers, \A n \in Names : Spared(n), Tracks(p),
           handler[p].pc \in CNamePCs, handler'[p].pc \in CNamePCs,
           handler[p].parent # 0, handler[p].req.app \in Apps,
           handler'[p].req = handler[p].req, handler'[p].drop = handler[p].drop
    PROVE  Tracks(p)'
  <1> DEFINE h == handler[p]
             g == handler'[p]
             r == h.req
  <1>1. ASSUME NEW a \in Apps, Exists(ingress'[a])
        PROVE  Hanging(a)' \subseteq (IF a = r.app THEN r.cnames \cup h.drop
                                     ELSE ingress'[a].cnames)
    BY <1>1, HangingStays DEF Tracks
  <1>2. Exists(ingress'[r.app]) => ingress'[r.app].cnames = r.cnames
    BY HangingStays DEF Tracks
  <1> QED
    BY <1>1, <1>2 DEF Tracks, At, CNamePCs

LEMMA EnvironmentTracks ==
    ASSUME IInv, Sound, TypeOK', Environment, NEW p \in Handlers, Tracks(p)
    PROVE  Tracks(p)'
  <1> DEFINE h == handler[p]
             r == h.req
  <1>1. UNCHANGED handler /\ \A n \in Names : Spared(n)
    BY EnvironmentMovesNone, EnvironmentSpares
  <1>2. h \in Handler /\ StageOK(h) /\ Steady(h, version)
    BY DEF IInv, TypeOK, Staged, Sound, LocalsOK
  <1>3. /\ At(p, "put") => r.app \in Apps
        /\ h.pc \in CNamePCs \cup {"ok"} /\ h.parent # 0 => r.app \in Apps
    BY <1>2, AppOf DEF StageOK, EnsurePCs, EnsureRequest, Steady, At, Handler
  <1>4. ASSUME NEW a \in Apps, Exists(ingress'[a])
        PROVE  Hanging(a)' \subseteq (IF h.pc \in CNamePCs /\ a = r.app
                                     THEN r.cnames \cup h.drop ELSE ingress'[a].cnames)
    BY <1>1, <1>4, HangingStays DEF Tracks
  <1>5. At(p, "put") /\ Exists(ingress'[r.app]) =>
            /\ Exists(h.seen) /\ ingress'[r.app].cnames = h.seen.cnames
            /\ ingress'[r.app].uid = h.seen.uid
    BY <1>1, <1>3, HangingStays DEF Tracks
  <1>6. h.pc \in CNamePCs \cup {"ok"} /\ h.parent # 0 /\ Exists(ingress'[r.app]) =>
            ingress'[r.app].cnames = r.cnames
    BY <1>1, <1>3, HangingStays DEF Tracks
  <1> QED
    BY <1>1, <1>4, <1>5, <1>6 DEF Tracks, At

LEMMA EnsureGetTracks ==
    ASSUME IInv, Sound, TypeOK', NEW p \in Handlers, Tracks(p), EnsureGet(p)
    PROVE  Tracks(p)'
  <1> DEFINE h == handler[p]
             g == handler'[p]
  <1>1. /\ TypeOK /\ h \in Handler /\ h.pc = "get" /\ h.req.app \in Apps
        /\ UNCHANGED ingress /\ StoreStep
    <2>1. h \in Handler /\ StageOK(h) /\ h.pc = "get" /\ UNCHANGED ingress
      BY DEF IInv, TypeOK, Staged, EnsureGet, At, cluster
    <2>2. StoreStep
      BY EnsureStores DEF IInv, EnsureStep
    <2> QED
      BY <2>1, <2>2 DEF StageOK, EnsurePCs, EnsureRequest, IInv
  <1>2. \A n \in Names : Spared(n)
    BY <1>1, SameSpared
  <1>3. PICK a : a = h.req.app
    OBVIOUS
  <1>4. CASE handler' = [handler EXCEPT ![p].pc = "return"]
    <2>1. g.pc = "return"
      BY <1>1, <1>4 DEF TypeOK, Handler
    <2> QED
      BY <1>1, <1>2, <2>1, OffTracks DEF CNamePCs
  <1>5. CASE handler' = [handler EXCEPT ![p] =
                    [@ EXCEPT !.pc = "put", !.name = a, !.seen = ingress[a]]]
    <2>1. g.pc = "put" /\ g.req = h.req /\ g.seen = ingress[a]
      BY <1>1, <1>5 DEF TypeOK, Handler
    <2>2. ASSUME NEW b \in Apps, Exists(ingress'[b])
          PROVE  Hanging(b)' \subseteq ingress'[b].cnames
      BY <1>1, <1>2, <2>2, HangingStays DEF Tracks, CNamePCs
    <2> QED
      BY <1>1, <1>3, <2>1, <2>2 DEF Tracks, At, CNamePCs
  <1> QED
    BY <1>3, <1>4, <1>5 DEF EnsureGet

LEMMA EnsureDoneTracks ==
    ASSUME IInv, Sound, TypeOK', NEW p \in Handlers, Tracks(p), EnsureDone(p)
    PROVE  Tracks(p)'
  <1> DEFINE h == handler[p]
             g == handler'[p]
             r == h.req
  <1>1. h.pc = "cnames" /\ h.pc \in CNamePCs /\ h.drop = {} /\ UNCHANGED ingress
    BY DEF EnsureDone, At, CNamePCs, cluster
  <1>2. r.app \in Apps /\ h.parent # 0
    BY <1>1, AtCNames DEF Sound, LocalsOK, Steady
  <1>3. g.pc = "ok" /\ g.req = r /\ g.parent = h.parent
    BY DEF EnsureDone, End, Idle, IInv, TypeOK
  <1>4. Exists(ingress[r.app]) => ingress[r.app].cnames = r.cnames
    BY <1>1, <1>2 DEF Tracks
  <1>5. ASSUME NEW a \in Apps, Exists(ingress'[a])
        PROVE  Hanging(a)' \subseteq ingress'[a].cnames
    <2>1. Hanging(a)' = Hanging(a)
      BY <1>1 DEF Hanging, Attached
    <2> QED
      BY <1>1, <1>4, <1>5, <2>1 DEF Tracks
  <1> QED
    BY <1>1, <1>3, <1>4, <1>5 DEF Tracks, At, CNamePCs

LEMMA CNameRemoveTracks ==
    ASSUME IInv, Sound, TypeOK', NEW p \in Handlers, Tracks(p), CNameRemove(p)
    PROVE  Tracks(p)'
  <1> DEFINE h == handler[p]
             g == handler'[p]
             r == h.req
  <1>1. /\ TypeOK /\ h.pc = "cnames" /\ h.pc \in CNamePCs
        /\ \A n \in Names : Spared(n)
    <2>1. \A n \in Names : Spared(n)
      BY HandlerSpares DEF HandlerStep, EnsureStep, Puts, CNameRemove, EnsureCreate,
         EnsureUpdate, CNameCreate, CNameUpdate, At
    <2> QED
      BY <2>1 DEF IInv, CNameRemove, At, CNamePCs
  <1>2. r.app \in Apps /\ h.parent # 0 /\ h \in Handler /\ h.drop \subseteq CNames
    BY <1>1, AtCNames DEF Sound, LocalsOK, Steady, Handler
  <1>3. PICK d \in h.drop :
            DeleteIngress(d) /\ handler' = [handler EXCEPT ![p].drop = @ \ {d}]
    BY DEF CNameRemove
  <1>4. /\ g.pc = "cnames" /\ g.req = r /\ g.parent = h.parent /\ g.drop = h.drop \ {d}
        /\ ingress'[d] = Nil
    BY <1>1, <1>2, <1>3 DEF TypeOK, Handler, DeleteIngress, Names
  <1>5. ASSUME NEW a \in Apps, Exists(ingress'[a])
        PROVE  Hanging(a)' \subseteq (IF a = r.app THEN r.cnames \cup g.drop
                                     ELSE ingress'[a].cnames)
    <2>1. Hanging(a)' \subseteq Hanging(a) /\ ingress'[a].cnames = ingress[a].cnames
      BY <1>1, <1>5, HangingStays
    <2>2. d \notin Hanging(a)'
      BY <1>4 DEF Hanging, Attached, Exists
    <2>3. Hanging(a) \subseteq (IF a = r.app THEN r.cnames \cup h.drop
                                ELSE ingress[a].cnames)
      BY <1>1, <1>5, HangingStays DEF Tracks
    <2> QED
      BY <1>4, <2>1, <2>2, <2>3
  <1>6. Exists(ingress'[r.app]) => ingress'[r.app].cnames = r.cnames
    BY <1>1, <1>2, HangingStays DEF Tracks
  <1> QED
    BY <1>4, <1>5, <1>6 DEF Tracks, At, CNamePCs

\* The drops of a request are the CNames it read and does not want.
LEMMA WentToCNames ==
    ASSUME TypeOK, NEW p \in Handlers, NEW parent, GoToCNames(p, parent)
    PROVE  LET g == handler'[p] IN
           /\ g.pc = "cnames" /\ g.req = handler[p].req
           /\ g.drop = CNamesToRemove(handler[p].seen, handler[p].req.cnames)
  BY DEF GoToCNames, Idle, TypeOK

\* Tracks at the CNames, of what an Ensure wrote and of what it left.
LEMMA TracksAtCNames ==
    ASSUME NEW p \in Handlers, handler'[p].pc \in CNamePCs,
           NEW a, NEW cnames, NEW drop,
           a = handler'[p].req.app, cnames = handler'[p].req.cnames, drop = handler'[p].drop,
           Exists(ingress'[a]) =>
                Hanging(a)' \subseteq cnames \cup drop /\ ingress'[a].cnames = cnames,
           \A b \in Apps \ {a} : Exists(ingress'[b]) =>
                Hanging(b)' \subseteq ingress'[b].cnames
    PROVE  Tracks(p)'
  BY DEF Tracks, At, CNamePCs

\* An Ensure at its main ingress.
LEMMA AtPut ==
    ASSUME IInv, NEW p \in Handlers, handler[p].pc = "put"
    PROVE  LET h == handler[p] IN
           /\ h \in Handler /\ h.req \in EnsureRequest /\ h.req \in Requests
           /\ h.req.app \in Apps /\ h.req.app \in Names /\ h.req.app \notin CNames
           /\ h.name = h.req.app
  <1>1. handler[p] \in Handler /\ StageOK(handler[p])
    BY DEF IInv, TypeOK, Staged
  <1>2. handler[p].req \in EnsureRequest /\ handler[p].name = handler[p].req.app
    BY <1>1 DEF StageOK, EnsurePCs
  <1> QED
    BY <1>1, <1>2, NamesAssumption, NilAssumption
       DEF EnsureRequest, Names, Handler, RequestType

\* The other apps see nothing of it.
LEMMA OthersHanging ==
    ASSUME NEW p \in Handlers, Tracks(p), handler[p].pc \notin CNamePCs,
           NEW a \in Apps, \A n \in Names \ {a} : ingress'[n] = ingress[n],
           NEW b \in Apps \ {a}, Exists(ingress'[b])
    PROVE  Hanging(b)' \subseteq ingress'[b].cnames
  <1>1. ingress'[b] = ingress[b] /\ \A c \in CNames : ingress'[c] = ingress[c]
    BY NamesAssumption DEF Names
  <1>2. Hanging(b)' = Hanging(b)
    BY <1>1 DEF Hanging, Attached
  <1> QED
    BY <1>1, <1>2 DEF Tracks

\* Nothing hangs from a main ingress that is new: its uid is.
LEMMA EnsureCreateTracks ==
    ASSUME IInv, Sound, NEW p \in Handlers, Tracks(p), EnsureCreate(p), ~Refused(p)
    PROVE  Tracks(p)'
  <1> DEFINE h == handler[p]
             r == h.req
  <1>1. TypeOK /\ h.pc = "put" /\ h.pc \notin CNamePCs
    BY DEF IInv, EnsureCreate, At, CNamePCs
  <1>2. PICK a, cnames : a = r.app /\ cnames = r.cnames
    OBVIOUS
  <1>3. /\ r \in EnsureRequest /\ r \in Requests
        /\ a \in Apps /\ a \in Names /\ a \notin CNames /\ h.name = a
    BY <1>1, <1>2, AtPut
  <1>4. PICK rules \in RuleOrders(r.hosts) :
            CreateIngress(a, MainIngress(r, rules)) /\ GoToCNames(p, version[a] + 1)
    BY <1>3 DEF EnsureCreate
  <1> DEFINE new == MainIngress(r, rules)
             made == Created(new, version[a] + 1)
  <1>5. new \in Ingress /\ new.cnames = cnames
    BY <1>2, <1>3, MainIngressType, MainIngressIs
  <1> HIDE DEF new
  <1>6. version[a] \in Nat /\ version[a] + 1 \in Nat
    BY <1>1, <1>3 DEF TypeOK
  <1>7. made.uid = version[a] + 1 /\ made.cnames = cnames
    BY <1>5, <1>6, CreatedIs
  <1>8. ingress'[a] = made /\ \A n \in Names \ {a} : ingress'[n] = ingress[n]
    BY <1>1, <1>3, <1>4, CreateStores DEF new
  <1> HIDE DEF made
  <1>9. Hanging(a)' = {}
    <2> SUFFICES ASSUME NEW c \in CNames, Attached(a, c, ingress[a].uid)'
                 PROVE  FALSE
      BY DEF Hanging
    <2>1. c \in Names /\ ingress'[c] = ingress[c]
      BY <1>3, <1>8 DEF Names
    <2>2. Exists(ingress[c]) /\ ingress[c].app = a /\ ingress[c].owner = version[a] + 1
      BY <1>7, <1>8, <2>1 DEF Attached
    <2>3. ingress[c].owner <= version[a]
      BY <2>1, <2>2 DEF Sound, AllProper, Proper
    <2> QED
      BY <1>6, <2>2, <2>3
  <1>10. /\ handler'[p].pc \in CNamePCs /\ handler'[p].req = r
    BY <1>1, <1>4, WentToCNames DEF CNamePCs
  <1>11. PICK drop : drop = handler'[p].drop
    OBVIOUS
  <1>12. \A b \in Apps \ {a} : Exists(ingress'[b]) => Hanging(b)' \subseteq ingress'[b].cnames
    BY <1>1, <1>3, <1>8, OthersHanging
  <1> QED
    BY <1>2, <1>7, <1>8, <1>9, <1>10, <1>11, <1>12, TracksAtCNames

LEMMA EnsureUpdateTracks ==
    ASSUME IInv, Sound, NEW p \in Handlers, Tracks(p), EnsureUpdate(p), ~Refused(p)
    PROVE  Tracks(p)'
  <1> DEFINE h == handler[p]
             r == h.req
  <1>1. TypeOK /\ h.pc = "put" /\ h.pc \notin CNamePCs /\ Exists(h.seen)
    BY DEF IInv, EnsureUpdate, At, CNamePCs
  <1>2. PICK a, cnames, drop : /\ a = r.app /\ cnames = r.cnames
                               /\ drop = CNamesToRemove(h.seen, r.cnames)
    OBVIOUS
  <1>3. /\ r \in EnsureRequest /\ r \in Requests /\ h \in Handler
        /\ a \in Apps /\ a \in Names /\ a \notin CNames /\ h.name = a
    BY <1>1, <1>2, AtPut
  <1>4. h.seen \in Ingress /\ drop = h.seen.cnames \ cnames
    BY <1>1, <1>2, <1>3 DEF Handler, Exists, CNamesToRemove
  <1>5. \E parent : GoToCNames(p, parent)
    BY DEF EnsureUpdate
  <1>6. handler'[p].pc \in CNamePCs /\ handler'[p].req = r /\ handler'[p].drop = drop
    BY <1>1, <1>2, <1>5, WentToCNames DEF CNamePCs
  <1>7. Exists(ingress[a]) => /\ Hanging(a) \subseteq ingress[a].cnames
                              /\ ingress[a].cnames = h.seen.cnames
                              /\ ingress[a].uid = h.seen.uid
    BY <1>1, <1>2, <1>3 DEF Tracks, At
  <1>8. PICK rules \in RuleOrders(r.hosts) :
            LET new == MainIngress(r, rules) IN
            \/ ~IngressHasChanges(h.seen, new) /\ UNCHANGED ingress
            \/ /\ Accepts(ingress[a], MergeVersion(h.seen))
               /\ ReplaceIngress(a, MergeIngress(new, h.seen))
    BY <1>3 DEF EnsureUpdate, cluster
  <1> DEFINE new == MainIngress(r, rules)
             merged == MergeIngress(new, h.seen)
             made == Replaced(h.seen, merged, version[a] + 1)
  <1>9. new \in Ingress /\ new.cnames = cnames
    BY <1>2, <1>3, MainIngressType, MainIngressIs
  <1> HIDE DEF new
  <1>10. /\ Exists(ingress'[a]) =>
                Hanging(a)' \subseteq cnames \cup drop /\ ingress'[a].cnames = cnames
         /\ \A n \in Names \ {a} : ingress'[n] = ingress[n]
    <2>1. CASE ~IngressHasChanges(h.seen, new) /\ UNCHANGED ingress
      <3>1. h.seen.cnames = cnames
        BY <1>9, <2>1 DEF IngressHasChanges
      <3>2. Hanging(a)' = Hanging(a)
        BY <2>1 DEF Hanging, Attached
      <3> QED
        BY <1>7, <2>1, <3>1, <3>2
    <2>2. CASE /\ Accepts(ingress[a], MergeVersion(h.seen))
               /\ ReplaceIngress(a, merged)
      <3>1. ingress[a] = h.seen
        BY <1>1, <1>3, <2>2, AcceptedIsSeen
      <3>2. merged \in Ingress /\ merged.cnames = cnames
        BY <1>4, <1>9, MergeIngressType, MergeIngressIs
      <3> HIDE DEF merged
      <3>3. ingress'[a] = made /\ \A n \in Names \ {a} : ingress'[n] = ingress[n]
        BY <1>1, <1>3, <2>2, <3>1, ReplaceStores
      <3>4. version[a] + 1 \in Nat
        BY <1>1, <1>3 DEF TypeOK
      <3>5. Exists(made) => made.uid = h.seen.uid /\ made.cnames = cnames
        BY <1>4, <3>2, <3>4, ReplacedIs
      <3> HIDE DEF made
      <3>6. \A c \in CNames : ingress'[c] = ingress[c]
        BY <1>3, <3>3 DEF Names
      <3>7. Exists(ingress'[a]) => Hanging(a)' = Hanging(a)
        BY <3>1, <3>3, <3>5, <3>6 DEF Hanging, Attached
      <3> QED
        BY <1>1, <1>4, <1>7, <3>1, <3>3, <3>5, <3>7
    <2> QED
      BY <1>8, <2>1, <2>2 DEF new
  <1>11. \A b \in Apps \ {a} : Exists(ingress'[b]) => Hanging(b)' \subseteq ingress'[b].cnames
    BY <1>1, <1>3, <1>10, OthersHanging
  <1> QED
    BY <1>2, <1>6, <1>10, <1>11, TracksAtCNames

LEMMA NextCNameKeeps ==
    ASSUME TypeOK, NEW p \in Handlers,
           NextCName(p) \/ \E tls : AfterCNamePut(p, tls)
    PROVE  /\ handler'[p].pc \in CNamePCs /\ handler'[p].req = handler[p].req
           /\ handler'[p].drop = handler[p].drop /\ handler'[p].parent = handler[p].parent
  <1>1. handler[p] \in Handler
    BY DEF TypeOK
  <1>2. CASE NextCName(p)
    BY <1>1, <1>2 DEF NextCName, TypeOK, Handler, CNamePCs
  <1>3. CASE handler' = [handler EXCEPT ![p].pc = "cdelete"]
    BY <1>1, <1>3 DEF TypeOK, Handler, CNamePCs
  <1> QED
    BY <1>2, <1>3 DEF AfterCNamePut

\* The ingress of a CName is hung from the main ingress of the request that wants it.
LEMMA CNamePutTracks ==
    ASSUME IInv, Sound, NEW p \in Handlers, Tracks(p), CNameCreate(p) \/ CNameUpdate(p),
           ~Refused(p)
    PROVE  Tracks(p)'
  <1> DEFINE h == handler[p]
             r == h.req
  <1>1. TypeOK /\ h.pc = "cput" /\ h.pc \in CNamePCs
    BY DEF IInv, CNameCreate, CNameUpdate, At, CNamePCs
  <1>2. PICK a, d, cnames, drop : a = r.app /\ d = h.name /\ cnames = r.cnames /\ drop = h.drop
    OBVIOUS
  <1>3. /\ a \in Apps /\ a \in Names /\ a \notin CNames
        /\ d \in CNames /\ d \in Names /\ d \in cnames /\ h.parent # 0
    BY <1>1, <1>2, AtCNames DEF Names, Sound, LocalsOK, Steady
  <1>4. /\ handler'[p].pc \in CNamePCs /\ handler'[p].req = r
        /\ handler'[p].drop = drop /\ handler'[p].parent = h.parent
    BY <1>1, <1>2, NextCNameKeeps DEF CNameCreate, CNameUpdate
  <1>5. \A n \in Names \ {d} : ingress'[n] = ingress[n]
    BY <1>1, <1>2, <1>3, CreateStores, ReplaceStores DEF CNameCreate, CNameUpdate, cluster
  <1>6. Exists(ingress'[d]) => ingress'[d] = ingress[d] \/ ingress'[d].app = a
    BY <1>2, <1>3, CNameWrites
  <1>7. ASSUME NEW b \in Apps
        PROVE  /\ ingress'[b] = ingress[b]
               /\ Hanging(b)' \subseteq Hanging(b) \cup {d}
               /\ b # a => d \notin Hanging(b)' \ Hanging(b)
    <2>1. b # d /\ b \in Names
      BY <1>3, NamesAssumption DEF Names
    <2>2. ingress'[b] = ingress[b]
      BY <1>5, <2>1
    <2>3. \A c \in CNames \ {d} : ingress'[c] = ingress[c]
      BY <1>5 DEF Names
    <2>4. Hanging(b)' \subseteq Hanging(b) \cup {d}
      BY <2>2, <2>3 DEF Hanging, Attached
    <2>5. b # a => d \notin Hanging(b)' \ Hanging(b)
      BY <1>3, <1>6, <2>2 DEF Hanging, Attached
    <2> QED
      BY <2>2, <2>4, <2>5
  <1>8. Exists(ingress'[a]) =>
            Hanging(a)' \subseteq cnames \cup drop /\ ingress'[a].cnames = cnames
    <2>1. Exists(ingress[a]) =>
            Hanging(a) \subseteq cnames \cup drop /\ ingress[a].cnames = cnames
      BY <1>1, <1>2, <1>3 DEF Tracks
    <2> QED
      BY <1>3, <1>7, <2>1
  <1>9. \A b \in Apps \ {a} : Exists(ingress'[b]) => Hanging(b)' \subseteq ingress'[b].cnames
    <2>1. \A b \in Apps \ {a} : Exists(ingress[b]) => Hanging(b) \subseteq ingress[b].cnames
      BY <1>2 DEF Tracks
    <2> QED
      BY <1>7, <2>1
  <1> QED
    BY <1>2, <1>4, <1>8, <1>9, TracksAtCNames

LEMMA HandlerTracks ==
    ASSUME IInv, Sound, TypeOK', Sound', NEW p \in Handlers, Tracks(p), HandlerStep(p),
           faults = 0, faults' = 0
    PROVE  Tracks(p)'
  <1> DEFINE h == handler[p]
             g == handler'[p]
  <1>1. TypeOK /\ h \in Handler /\ Steady(h, version) /\ Steady(g, version')
    BY DEF IInv, TypeOK, Sound, LocalsOK
  <1>2. ~Refused(p) /\ ~Fail(p)
    BY DEF Refused, Fail
  <1>3. CASE EnsureGet(p)
    BY <1>1, <1>3, EnsureGetTracks
  <1>4. CASE EnsureCreate(p) \/ EnsureUpdate(p)
    BY <1>2, <1>4, EnsureCreateTracks, EnsureUpdateTracks
  <1>5. CASE CNameCreate(p) \/ CNameUpdate(p)
    BY <1>2, <1>5, CNamePutTracks
  <1>6. CASE CNameRemove(p)
    BY <1>6, CNameRemoveTracks
  <1>7. CASE EnsureDone(p)
    BY <1>7, EnsureDoneTracks
  <1>8. ASSUME ~Puts(p)
        PROVE  \A n \in Names : Spared(n)
    BY <1>8, HandlerSpares
  <1>9. CASE CNameGet(p) \/ CNameDeleteCertificate(p)
    <2>1. h.pc \in CNamePCs /\ ~Puts(p)
      BY <1>9 DEF CNameGet, CNameDeleteCertificate, At, CNamePCs, Puts, EnsureCreate,
         EnsureUpdate, CNameCreate, CNameUpdate
    <2>2. h.parent # 0 /\ h.req.app \in Apps
      BY <1>1, <2>1, AtCNames DEF Steady
    <2>3. g.pc \in CNamePCs /\ g.req = h.req /\ g.drop = h.drop
      <3>1. CASE CNameGet(p)
        <4>1. PICK c, o :
                \/ handler' = [handler EXCEPT ![p].todo = @ \ {c}]
                \/ handler' = [handler EXCEPT ![p] =
                        [@ EXCEPT !.pc = "cput", !.name = c, !.seen = o]]
          BY <3>1 DEF CNameGet
        <4>2. CASE handler' = [handler EXCEPT ![p].todo = @ \ {c}]
          BY <1>1, <2>1, <4>2 DEF TypeOK, Handler
        <4>3. CASE handler' = [handler EXCEPT ![p] =
                        [@ EXCEPT !.pc = "cput", !.name = c, !.seen = o]]
          BY <1>1, <4>3 DEF TypeOK, Handler, CNamePCs
        <4> QED
          BY <4>1, <4>2, <4>3
      <3>2. CASE CNameDeleteCertificate(p)
        BY <1>1, <3>2, NextCNameKeeps DEF CNameDeleteCertificate
      <3> QED
        BY <1>9, <3>1, <3>2
    <2> QED
      BY <1>8, <2>1, <2>2, <2>3, OnTracks
  <1>10. CASE Receive(p) \/ Return(p) \/ RemoveMain(p) \/ CertificateStep(p)
    <2>1. ~Puts(p) /\ h.pc \notin CNamePCs
      BY <1>10 DEF Receive, Return, RemoveMain, CertificateStep, FindTarget, FindMain,
         CreateSecret, GetSecret, UpdateSecret, AddTLS, RemoveTLS, DeleteSecret, Puts,
         EnsureCreate, EnsureUpdate, CNameCreate, CNameUpdate, At, CNamePCs, Ends
    <2>2. g.pc \notin CNamePCs \cup {"put"} /\ (g.pc = "ok" => g.parent = 0)
      <3>1. CASE Receive(p)
        <4>1. PICK r \in Requests :
                handler' = [handler EXCEPT ![p] =
                    [Idle EXCEPT !.pc = FirstStep(r.op), !.req = r]]
          BY <3>1 DEF Receive
        <4>2. g.pc = FirstStep(r.op)
          BY <1>1, <4>1 DEF TypeOK, Idle
        <4> QED
          BY <4>2 DEF FirstStep, CNamePCs
      <3>2. CASE Return(p)
        <4>1. h.parent = 0
          BY <1>1, <3>2 DEF Return, At, Steady, CNamePCs
        <4> QED
          BY <1>1, <3>2, <4>1 DEF Return, End, Idle, TypeOK, CNamePCs
      <3>3. ASSUME NEW outcome \in {"error", "panic"}, End(p, outcome)
            PROVE  g.pc \notin CNamePCs \cup {"put", "ok"}
        BY <1>1, <3>3 DEF End, Idle, TypeOK, CNamePCs
      <3>4. ASSUME NEW step \in {"return", "main", "addtls", "getsecret", "unsecret"},
                   handler' = [handler EXCEPT ![p].pc = step]
            PROVE  g.pc \notin CNamePCs \cup {"put", "ok"}
        BY <1>1, <3>4 DEF TypeOK, Handler, CNamePCs
      <3>5. ASSUME NEW n, Targeted(p, n)
            PROVE  g.pc \notin CNamePCs \cup {"put", "ok"}
        <4>1. CASE handler' = [handler EXCEPT ![p] =
                    [@ EXCEPT !.pc = "mksecret", !.name = n, !.seen = ingress[n]]]
          BY <1>1, <4>1 DEF TypeOK, Handler, CNamePCs
        <4>2. CASE handler' = [handler EXCEPT ![p] =
                    [@ EXCEPT !.pc = "untls", !.name = n, !.seen = ingress[n]]]
          BY <1>1, <4>2 DEF TypeOK, Handler, CNamePCs
        <4> QED
          BY <3>3, <3>5, <4>1, <4>2, TargetedIs
      <3>6. CASE RemoveMain(p) \/ FindTarget(p) \/ FindMain(p) \/ CreateSecret(p)
        BY <3>3, <3>4, <3>5, <3>6 DEF RemoveMain, FindTarget, FindMain, CreateSecret
      <3>7. CASE AddTLS(p) \/ RemoveTLS(p) \/ DeleteSecret(p)
        BY <3>3, <3>4, <3>7 DEF AddTLS, RemoveTLS, DeleteSecret, Refused
      <3>8. CASE GetSecret(p) \/ UpdateSecret(p)
        <4>1. \/ End(p, "error")
              \/ \E step \in {"putsecret", "addtls"} : \E rv :
                    handler' = [handler EXCEPT ![p] =
                        [@ EXCEPT !.pc = step, !.secretRV = rv]]
          BY <3>8 DEF GetSecret, UpdateSecret, Refused
        <4>2. CASE \E step \in {"putsecret", "addtls"} : \E rv :
                    handler' = [handler EXCEPT ![p] =
                        [@ EXCEPT !.pc = step, !.secretRV = rv]]
          <5>1. g.pc \in {"putsecret", "addtls"}
            BY <1>1, <4>2 DEF TypeOK, Handler
          <5> QED
            BY <5>1 DEF CNamePCs
        <4> QED
          BY <3>3, <4>1, <4>2
      <3> QED
        BY <1>10, <3>1, <3>2, <3>6, <3>7, <3>8 DEF CertificateStep
    <2> QED
      BY <1>8, <2>1, <2>2, OffTracks
  <1> QED
    BY <1>2, <1>3, <1>4, <1>5, <1>6, <1>7, <1>9, <1>10 DEF HandlerStep, EnsureStep

-----------------------------------------------------------------------------
(* The invariant, and what it says of an Ensure that succeeded.            *)

LEMMA SerialInit ==
    ASSUME Init
    PROVE  Sound /\ InTurn
  <1>1. \A p \in Handlers : handler[p] = Idle
    BY DEF Init
  <1>2. /\ Idle.pc = "idle" /\ Idle.req = Nil /\ Idle.seen = Nil /\ Idle.parent = 0
    BY DEF Idle
  <1>3. \A n \in Names : ~Exists(ingress[n]) /\ version[n] = 0
    BY DEF Init, Exists
  <1>4. Sound
    <2>1. \A p \in Handlers : LocalsOK(p)
      BY <1>1, <1>2 DEF LocalsOK, Steady, CNamePCs, AddPCs, Exists
    <2>2. CertificatesBound
      BY <1>3 DEF CertificatesBound, Init, SecretKeys, Hosts, Names
    <2>3. Asked
      BY <1>1, <1>2 DEF Asked, At
    <2> QED
      BY <1>3, <2>1, <2>2, <2>3 DEF Sound, AllProper
  <1>5. ASSUME NEW p \in Handlers
        PROVE  Stage(p)
    <2>1. \A a \in Apps : ~Exists(ingress[a])
      BY <1>3 DEF Names
    <2> QED
      BY <1>1, <1>2, <2>1 DEF Stage, Attaches, Tracks, At, CNamePCs
  <1> QED
    BY <1>4, <1>5 DEF InTurn

\* Faults are counted, never forgotten.
LEMMA FaultsStay ==
    ASSUME faults \in Nat, NEW p \in Handlers, HandlerStep(p), faults' = 0
    PROVE  faults = 0
  <1>1. ~Refused(p) /\ ~Fail(p)
    BY DEF Refused, Fail
  <1>2. CASE EnsureStep(p)
    BY <1>1, <1>2 DEF EnsureStep, EnsureGet, EnsureCreate, EnsureUpdate, CNameGet, CNameCreate,
       CNameUpdate, CNameDeleteCertificate, CNameRemove, EnsureDone, bounds
  <1>3. CASE CertificateStep(p)
    BY <1>1, <1>3 DEF CertificateStep, FindTarget, FindMain, CreateSecret, GetSecret,
       UpdateSecret, AddTLS, RemoveTLS, DeleteSecret, bounds
  <1> QED
    BY <1>1, <1>2, <1>3 DEF HandlerStep, Receive, Return, RemoveMain, bounds

LEMMA StaysInTurn ==
    ASSUME IInv, Sound, InTurn, [Next]_vars
    PROVE  InTurn'
  <1>1. TypeOK /\ TypeOK' /\ Sound' /\ faults \in Nat
    BY NextTyped, StaysSound DEF IInv, TypeOK
  <1> SUFFICES ASSUME NEW q \in Handlers, Alone(q)'
               PROVE  Stage(q)'
    BY DEF InTurn
  <1>2. ASSUME NEW p \in Handlers, HandlerStep(p)
        PROVE  Stage(q)'
    <2>1. p = q /\ Alone(p)
      BY <1>1, <1>2, AloneMoved
    <2>2. Attaches(p) /\ (faults = 0 => Tracks(p))
      BY <2>1 DEF InTurn, Stage
    <2>3. Attaches(p)'
      BY <1>1, <1>2, <2>2, HandlerAttaches
    <2>4. faults' = 0 => faults = 0
      BY <1>1, <1>2, FaultsStay
    <2>5. faults' = 0 => Tracks(p)'
      BY <1>1, <1>2, <2>2, <2>4, HandlerTracks
    <2> QED
      BY <2>1, <2>3, <2>5 DEF Stage
  <1>3. CASE Environment
    <2>1. UNCHANGED <<handler, faults>>
      BY <1>3, EnvironmentMovesNone
    <2>2. Attaches(q) /\ (faults = 0 => Tracks(q))
      BY <2>1 DEF InTurn, Stage, Alone, At
    <2> QED
      BY <1>1, <1>3, <2>1, <2>2, EnvironmentAttaches, EnvironmentTracks DEF Stage
  <1>4. CASE UNCHANGED vars
    BY <1>4 DEF vars, cluster, bounds, InTurn, Stage, Alone, At, Attaches, Tracks, MainStands,
       Fulfilled, Attached, Hanging
  <1> QED
    BY <1>2, <1>3, <1>4 DEF Next

LEMMA SerialInvariantHolds == Spec => []IInvSerial
  <1>1. Init => Sound /\ InTurn
    BY SerialInit
  <1>2. IInvSerial /\ [Next]_vars => Sound' /\ InTurn'
    BY StaysSound, StaysInTurn DEF IInvSerial
  <1> QED
    BY <1>1, <1>2, InvariantHolds, PTL DEF Spec, IInvSerial

\* A handler that answered an Ensure with success has done of its CNames what it said.
LEMMA AppliedStage ==
    ASSUME IInvSerial, NEW p \in Handlers, Applied(p)
    PROVE  /\ handler[p].req \in Requests /\ handler[p].req # Nil
           /\ handler[p].req.op = "Ensure" /\ handler[p].req.app \in Apps
           /\ At(p, "ok") /\ Attaches(p) /\ (faults = 0 => Tracks(p))
  <1>1. /\ At(p, "ok") /\ handler[p].req.op = "Ensure"
        /\ Attaches(p) /\ (faults = 0 => Tracks(p))
    BY DEF IInvSerial, InTurn, Stage, Applied
  <1>2. handler[p].req \in Requests
    BY <1>1 DEF IInvSerial, Sound, Asked, At
  <1> QED
    BY <1>1, <1>2, AppOf

\* After a successful Ensure every CName it asked for has its ingress, owned by the main
\* ingress that stands: neither missing nor about to be collected, whatever the requests
\* before it left, wherever they stopped, and whatever the cluster does in between
\* (ingress.go ensureCNameBackend).
THEOREM EnsuredCNamesThere == Spec => []CNamesApplied
  <1>1. IInvSerial => CNamesApplied
    <2> SUFFICES ASSUME IInvSerial, NEW p \in Handlers, Applied(p), MainStands(p),
                        NEW c \in handler[p].req.cnames \ Freezable
                 PROVE  Attached(handler[p].req.app, c, handler[p].parent)
      BY DEF CNamesApplied, Attached
    <2> QED
      BY AppliedStage DEF Attaches, Fulfilled
  <1> QED
    BY <1>1, SerialInvariantHolds, PTL

\* After a successful Ensure no CName ingress hangs from the main ingress beyond the ones
\* asked for, as long as no call failed and no write was refused (the removal of the CNames
\* that the annotation of the old ingress has and the new one has not, ingress.go:249-264).
THEOREM EnsuredCNamesOnly == Spec => []NoOtherCNames
  <1>1. IInvSerial => NoOtherCNames
    <2> SUFFICES ASSUME IInvSerial, faults = 0,
                        NEW p \in Handlers, Applied(p), MainStands(p),
                        NEW c \in CNames \ handler[p].req.cnames,
                        Attached(handler[p].req.app, c, handler[p].parent)
                 PROVE  FALSE
      BY DEF NoOtherCNames, OnlyItsCNames, Attached
    <2> DEFINE r == handler[p].req
    <2>1. /\ r.app \in Apps /\ At(p, "ok") /\ Tracks(p)
      BY AppliedStage
    <2>2. Exists(ingress[r.app]) /\ ingress[r.app].uid = handler[p].parent
      BY DEF MainStands
    <2>3. handler[p].parent # 0
      BY <2>1, <2>2 DEF IInvSerial, Sound, AllProper, Proper, Names
    <2>4. c \in Hanging(r.app)
      BY <2>2 DEF Hanging
    <2>5. ingress[r.app].cnames = r.cnames
      BY <2>1, <2>2, <2>3 DEF Tracks, At
    <2> QED
      BY <2>1, <2>2, <2>4, <2>5 DEF Tracks, At, CNamePCs
  <1> QED
    BY <1>1, SerialInvariantHolds, PTL

-----------------------------------------------------------------------------
(* What becomes of one ingress in a step.                                  *)

\* An Ensure sends m for the ingress n.
Sent(n, m) ==
    \E r \in EnsuresOf(n) :
        IF n = r.app THEN \E rules \in RuleOrders(r.hosts) : m = MainIngress(r, rules)
        ELSE \E parent \in Nat : m = CNameIngress(r, n, parent)

\* The stored ingress n, updated by an Ensure that had read it.
Updated(n, m) ==
    LET old == ingress[n] IN
    /\ ~old.frozen
    /\ ingress'[n] = Replaced(old, MergeIngress(m, old), version[n] + 1)

\* ... given new TLS entries by a certificate request ...
Retouched(n, tls) ==
    LET old == ingress[n] IN ingress'[n] = Edited(old, [old EXCEPT !.tls = tls], version[n] + 1)

\* ... or marked, or frozen.
Remarked(n) ==
    LET old == ingress[n] IN
    \/ n \in Apps /\ ingress'[n] = Marked(old, version[n] + 1)
    \/ ingress'[n] = [old EXCEPT !.frozen = ~@, !.rv = version[n] + 1]

Writing(p, n) ==
    LET h == handler[p]
        old == ingress[n]
    IN
    \/ ~Exists(old) /\ \E m : Sent(n, m) /\ ingress'[n] = Created(m, version[n] + 1)
    \/ Exists(old) /\ \E m : Sent(n, m) /\ Updated(n, m)
    \/ /\ AddTLS(p) /\ n = h.name /\ old = h.seen /\ Exists(old)
       /\ Retouched(n, AddTLSEntry(old.tls, h.req.host))
    \/ /\ RemoveTLS(p) /\ n = h.name /\ old = h.seen /\ Exists(old)
       /\ Retouched(n, DropTLSEntry(old.tls, h.req.host))
    \/ Exists(old) /\ Remarked(n)

LEMMA MainWriting ==
    ASSUME IInv, NEW p \in Handlers, EnsureCreate(p) \/ EnsureUpdate(p),
           NEW n \in Names, ingress'[n] # ingress[n]
    PROVE  Writing(p, n)
  <1> DEFINE h == handler[p]
             m == h.name
  <1>0. TypeOK /\ h \in Handler /\ StageOK(h) /\ h.pc = "put"
    BY DEF IInv, TypeOK, Staged, EnsureCreate, EnsureUpdate, At
  <1>1. h.req \in EnsureRequest /\ h.req \in Requests /\ m = h.req.app /\ m \in Names
    BY <1>0, AtPut DEF IInv
  <1>2. h.req \in EnsuresOf(m)
    BY <1>1 DEF EnsuresOf, EnsureRequest
  <1>3. CASE EnsureCreate(p)
    <2>1. PICK rules \in RuleOrders(h.req.hosts) : CreateIngress(m, MainIngress(h.req, rules))
      BY <1>3 DEF EnsureCreate, Refused, cluster
    <2>2. ~Exists(ingress[m])
      BY <1>3 DEF EnsureCreate, Refused, cluster
    <2>3. PICK new : new = MainIngress(h.req, rules)
      OBVIOUS
    <2>4. n = m /\ ingress'[n] = Created(new, version[n] + 1)
      BY <1>0, <1>1, <2>1, <2>3, CreateStores
    <2>5. Sent(n, new)
      BY <1>1, <1>2, <2>3, <2>4 DEF Sent
    <2> QED
      BY <2>2, <2>4, <2>5 DEF Writing
  <1>4. CASE EnsureUpdate(p)
    <2>0. Exists(h.seen) /\ ~Frozen(h.seen)
      BY <1>0, <1>4 DEF EnsureUpdate, StageOK
    <2>1. PICK rules \in RuleOrders(h.req.hosts) :
            /\ Accepts(ingress[m], MergeVersion(h.seen))
            /\ ReplaceIngress(m, MergeIngress(MainIngress(h.req, rules), h.seen))
      BY <1>4 DEF EnsureUpdate, Refused, cluster
    <2>2. ingress[m] = h.seen /\ ~ingress[m].frozen /\ Exists(ingress[m])
      BY <2>0, <2>1, AcceptedIsSeen DEF Frozen
    <2>3. PICK new : new = MainIngress(h.req, rules)
      OBVIOUS
    <2>4. n = m /\ Updated(n, new)
      BY <1>0, <1>1, <2>1, <2>2, <2>3, ReplaceStores DEF Updated
    <2>5. Sent(n, new)
      BY <1>1, <1>2, <2>3, <2>4 DEF Sent
    <2> QED
      BY <2>2, <2>4, <2>5 DEF Writing
  <1> QED
    BY <1>3, <1>4

LEMMA CNameWriting ==
    ASSUME IInv, Sound, NEW p \in Handlers, CNameCreate(p) \/ CNameUpdate(p),
           NEW n \in Names, ingress'[n] # ingress[n]
    PROVE  Writing(p, n)
  <1> DEFINE h == handler[p]
             m == h.name
  <1>0. TypeOK /\ h \in Handler /\ StageOK(h) /\ h.pc = "cput"
    BY DEF IInv, TypeOK, Staged, CNameCreate, CNameUpdate, At
  <1>1. /\ h.req \in EnsureRequest /\ h.req \in Requests /\ h.parent \in Nat
        /\ m \in h.req.cnames /\ m # h.req.app /\ m \in Names
    <2>1. h.req \in EnsureRequest /\ h.req # Nil /\ h.todo \subseteq h.req.cnames
          /\ m \in h.todo /\ m \in CNames /\ m # h.req.app /\ h.parent \in Nat
      BY <1>0, AtCNames DEF CNamePCs
    <2> QED
      BY <1>0, <2>1 DEF Handler, Names
  <1>2. h.req \in EnsuresOf(m)
    BY <1>1 DEF EnsuresOf, EnsureRequest
  <1>3. PICK new : new = CNameIngress(h.req, m, h.parent)
    OBVIOUS
  <1>4. Sent(m, new)
    BY <1>1, <1>2, <1>3 DEF Sent
  <1>5. CASE CNameCreate(p)
    <2>1. ~Exists(ingress[m]) /\ CreateIngress(m, new)
      BY <1>3, <1>5 DEF CNameCreate, Refused, cluster
    <2>2. n = m /\ ingress'[n] = Created(new, version[n] + 1)
      BY <1>0, <1>1, <2>1, CreateStores
    <2> QED
      BY <1>4, <2>1, <2>2 DEF Writing
  <1>6. CASE CNameUpdate(p)
    <2>0. Exists(h.seen) /\ ~Frozen(h.seen)
      BY <1>0, <1>6 DEF CNameUpdate, StageOK
    <2>1. /\ Accepts(ingress[m], MergeVersion(h.seen))
          /\ ReplaceIngress(m, MergeIngress(new, h.seen))
      BY <1>3, <1>6 DEF CNameUpdate, Refused, cluster
    <2>2. ingress[m] = h.seen /\ ~ingress[m].frozen /\ Exists(ingress[m])
      BY <2>0, <2>1, AcceptedIsSeen DEF Frozen
    <2>3. n = m /\ Updated(n, new)
      BY <1>0, <1>1, <2>1, <2>2, ReplaceStores DEF Updated
    <2> QED
      BY <1>4, <2>2, <2>3 DEF Writing
  <1> QED
    BY <1>5, <1>6

LEMMA TLSWriting ==
    ASSUME IInv, NEW p \in Handlers, AddTLS(p) \/ RemoveTLS(p),
           NEW n \in Names, ingress'[n] # ingress[n]
    PROVE  Writing(p, n)
  <1> DEFINE h == handler[p]
             m == h.name
  <1>0. TypeOK /\ h.pc \in FoundPCs
    BY DEF IInv, AddTLS, RemoveTLS, At, FoundPCs
  <1>1. m \in Names /\ h.seen \in Ingress /\ Exists(h.seen)
    BY <1>0, KeyType, NilAssumption DEF IInv, Exists
  <1>2. ASSUME NEW tls, EditIngress(m, [h.seen EXCEPT !.tls = tls]),
               Accepts(ingress[m], h.seen.rv)
        PROVE  n = m /\ ingress[n] = h.seen /\ Exists(ingress[n]) /\ Retouched(n, tls)
    <2>1. ingress[m] = h.seen
      BY <1>1, <1>2, AcceptedIsSeen
    <2> QED
      BY <1>0, <1>1, <1>2, <2>1, EditStores DEF Retouched
  <1>3. CASE AddTLS(p)
    <2>1. /\ EditIngress(m, [h.seen EXCEPT !.tls = AddTLSEntry(h.seen.tls, h.req.host)])
          /\ Accepts(ingress[m], h.seen.rv)
      BY <1>3 DEF AddTLS, Refused, cluster
    <2> QED
      BY <1>2, <1>3, <2>1 DEF Writing
  <1>4. CASE RemoveTLS(p)
    <2>1. /\ EditIngress(m, [h.seen EXCEPT !.tls = DropTLSEntry(h.seen.tls, h.req.host)])
          /\ Accepts(ingress[m], h.seen.rv)
      BY <1>4 DEF RemoveTLS, Refused, cluster
    <2> QED
      BY <1>2, <1>4, <2>1 DEF Writing
  <1> QED
    BY <1>3, <1>4

LEMMA EnvironmentRemarks ==
    ASSUME TypeOK, Environment, NEW n \in Names, Exists(ingress'[n]), ingress'[n] # ingress[n]
    PROVE  Exists(ingress[n]) /\ Remarked(n)
  <1>1. PICK m \in Names : ToggleFreeze(m)
    BY DEF Environment, Collect, CollectCName, CollectMain, CollectCertificate,
       OwnerServiceDeleted, IssueCertificate, DeleteIngress, ingresses, TypeOK, Names, Exists
  <1>2. /\ n = m /\ Exists(ingress[n])
        /\ ingress'[n] = [ingress[n] EXCEPT !.frozen = ~@, !.rv = version[n] + 1]
    BY <1>1 DEF ToggleFreeze, TypeOK
  <1> QED
    BY <1>2 DEF Remarked

\* An ingress that a step leaves otherwise than it was, was written by a handler or frozen.
LEMMA WriteKinds ==
    ASSUME IInv, Sound, [Next]_vars, NEW n \in Names,
           Exists(ingress'[n]), ingress'[n] # ingress[n]
    PROVE  \/ \E p \in Handlers : HandlerStep(p) /\ Writing(p, n)
           \/ Exists(ingress[n]) /\ Remarked(n)
  <1>0. TypeOK
    BY DEF IInv
  <1>1. ASSUME NEW p \in Handlers, HandlerStep(p)
        PROVE  Writing(p, n)
    <2>1. CASE Puts(p)
      BY <2>1, MainWriting, CNameWriting DEF Puts
    <2>2. CASE AddTLS(p) \/ RemoveTLS(p)
      BY <2>2, TLSWriting
    <2>3. CASE RemoveMain(p)
      <3>1. handler[p].req.app \in Apps /\ handler[p].req.app \in Names
        BY <2>3 DEF IInv, TypeOK, Staged, RemoveMain, At, StageOK, RemoveRequest, Names
      <3>2. /\ n = handler[p].req.app /\ Exists(ingress[n])
            /\ ingress'[n] = Marked(ingress[n], version[n] + 1)
        BY <1>0, <2>3, <3>1 DEF RemoveMain, TypeOK, ingresses
      <3> QED
        BY <3>1, <3>2 DEF Writing, Remarked
    <2>4. CASE CNameRemove(p)
      <3>1. PICK c \in handler[p].drop : DeleteIngress(c)
        BY <2>4 DEF CNameRemove
      <3> QED
        BY <1>0, <3>1 DEF DeleteIngress, TypeOK, Exists
    <2>5. CASE UNCHANGED ingress
      BY <2>5
    <2> QED
      BY <1>1, <2>1, <2>2, <2>3, <2>4, <2>5
         DEF HandlerStep, Receive, Fail, Return, EnsureStep, CertificateStep, Puts,
             EnsureGet, CNameGet, CNameDeleteCertificate, EnsureDone, FindTarget, FindMain,
             CreateSecret, GetSecret, UpdateSecret, DeleteSecret, Refused, cluster, ingresses
  <1>2. CASE Environment
    BY <1>0, <1>2, EnvironmentRemarks
  <1> QED
    BY <1>1, <1>2 DEF Next, vars, cluster

-----------------------------------------------------------------------------
(* What a certificate request knows of the ingress it found.               *)

\* It is an ingress of its app that allows what is to be done, the one of its host or the
\* main one.
Targets(p) ==
    LET h == handler[p]
        k == Key(p)
    IN
    /\ h.pc \in FoundPCs => h.seen.app = k[1] /\ h.name \in {k[1], CertificateHolder(k)}
    /\ h.pc \in AddPCs => MayAddCertificate(h.seen, h.req.host)
    /\ h.pc = "untls" => MayRemoveCertificate(h.seen) /\ ~RemovalPanics(h.seen.tls, h.req.host)
    /\ h.pc \in {"untls", "unsecret"} => h.req.op = "RemoveCertificate"

AllTarget == \A p \in Handlers : Targets(p)

LEMMA EnsureKeepsRequest ==
    ASSUME TypeOK, NEW p \in Handlers, EnsureStep(p)
    PROVE  handler'[p].req = handler[p].req
  <1>0. handler \in [Handlers -> Handler] /\ handler[p] \in Handler
    BY DEF TypeOK
  <1>1. ASSUME NEW outcome, End(p, outcome)
        PROVE  handler'[p].req = handler[p].req
    BY <1>0, <1>1 DEF End, Idle
  <1>2. CASE EnsureGet(p)
    BY <1>0, <1>2 DEF EnsureGet, Handler
  <1>3. CASE EnsureCreate(p) \/ EnsureUpdate(p)
    BY <1>0, <1>1, <1>3, WentToCNames DEF EnsureCreate, EnsureUpdate, Refused
  <1>4. CASE CNameGet(p)
    BY <1>0, <1>4 DEF CNameGet, Handler
  <1>5. CASE CNameCreate(p) \/ CNameUpdate(p) \/ CNameDeleteCertificate(p)
    BY <1>0, <1>1, <1>5, NextCNameKeeps
       DEF CNameCreate, CNameUpdate, CNameDeleteCertificate, Refused
  <1>6. CASE CNameRemove(p) \/ EnsureDone(p)
    BY <1>0, <1>1, <1>6 DEF CNameRemove, EnsureDone, Handler
  <1> QED
    BY <1>2, <1>3, <1>4, <1>5, <1>6 DEF EnsureStep

LEMMA EnsureOff ==
    ASSUME IInv, NEW p \in Handlers, EnsureStep(p)
    PROVE  handler'[p].pc \notin CertPCs
  <1>1. TypeOK /\ StageOK(handler[p])
    BY DEF IInv, Staged
  <1>2. [Next]_vars
    BY DEF Next, HandlerStep
  <1>3. Staged' /\ handler'[p].req = handler[p].req
    BY <1>1, <1>2, NextTyped, EnsureKeepsRequest DEF IInv
  <1>4. handler[p].req \in EnsureRequest
    BY <1>1 DEF StageOK, EnsureStep, EnsureGet, EnsureCreate, EnsureUpdate, CNameGet,
       CNameCreate, CNameUpdate, CNameDeleteCertificate, CNameRemove, EnsureDone, At, EnsurePCs
  <1> QED
    BY <1>3, <1>4 DEF Staged, StageOK, CertRequest, EnsureRequest

LEMMA OffTargets ==
    ASSUME NEW p \in Handlers, handler'[p].pc \notin FoundPCs
    PROVE  Targets(p)'
  BY DEF Targets, FoundPCs, AddPCs

LEMMA OnTargets ==
    ASSUME NEW p \in Handlers, Targets(p), handler[p].pc \in FoundPCs,
           handler'[p].seen = handler[p].seen, handler'[p].req = handler[p].req,
           handler'[p].name = handler[p].name,
           handler'[p].pc \in AddPCs => handler[p].pc \in AddPCs,
           handler'[p].pc # "untls",
           handler'[p].pc = "unsecret" => handler[p].pc \in {"untls", "unsecret"}
    PROVE  Targets(p)'
  BY DEF Targets, Key

LEMMA TargetedTargets ==
    ASSUME TypeOK, NEW p \in Handlers, NEW n, Targeted(p, n), ingress[n].app = handler[p].req.app,
           n \in {Key(p)[1], CertificateHolder(Key(p))}, handler[p].pc \in {"target", "main"}
    PROVE  Targets(p)'
  <1> DEFINE h == handler[p]
             on(step) == [h EXCEPT !.pc = step, !.name = n, !.seen = ingress[n]]
  <1>1. h \in Handler /\ handler \in [Handlers -> Handler]
    BY DEF TypeOK
  <1>2. ASSUME NEW outcome \in Ends, End(p, outcome)
        PROVE  Targets(p)'
    <2>1. handler'[p].pc = outcome
      BY <1>1, <1>2 DEF End, Idle
    <2> QED
      BY <2>1, OffTargets DEF Ends, FoundPCs
  <1>3. ASSUME NEW step \in {"mksecret", "untls"}, handler' = [handler EXCEPT ![p] = on(step)],
               step = "mksecret" => MayAddCertificate(ingress[n], h.req.host),
               step = "untls" => /\ MayRemoveCertificate(ingress[n])
                                 /\ ~RemovalPanics(ingress[n].tls, h.req.host)
                                 /\ h.req.op = "RemoveCertificate"
        PROVE  Targets(p)'
    <2>1. /\ handler'[p].pc = step /\ handler'[p].name = n /\ handler'[p].seen = ingress[n]
          /\ handler'[p].req = h.req
      BY <1>1, <1>3 DEF Handler
    <2> QED
      BY <1>3, <2>1 DEF Targets, Key, AddPCs
  <1> QED
    BY <1>2, <1>3 DEF Targeted, Ends

LEMMA HandlerTargets ==
    ASSUME IInv, Sound, NEW p \in Handlers, Targets(p), HandlerStep(p)
    PROVE  Targets(p)'
  <1> DEFINE h == handler[p]
             g == handler'[p]
  <1>0. TypeOK /\ h \in Handler /\ handler \in [Handlers -> Handler] /\ StageOK(h)
    BY DEF IInv, TypeOK, Staged
  <1>1. ASSUME NEW outcome \in Ends, End(p, outcome)
        PROVE  Targets(p)'
    <2>1. g.pc = outcome
      BY <1>0, <1>1 DEF End, Idle
    <2> QED
      BY <2>1, OffTargets DEF Ends, FoundPCs
  <1>2. CASE Receive(p)
    <2>1. PICK r \in Requests :
            handler' = [handler EXCEPT ![p] = [Idle EXCEPT !.pc = FirstStep(r.op), !.req = r]]
      BY <1>2 DEF Receive
    <2>2. g.pc \in {"get", "delete", "target"}
      BY <1>0, <2>1 DEF Idle, FirstStep
    <2> QED
      BY <2>2, OffTargets DEF FoundPCs
  <1>3. CASE EnsureStep(p)
    <2>1. g.pc \notin FoundPCs
      BY <1>3, EnsureOff DEF CertPCs
    <2> QED
      BY <2>1, OffTargets
  <1>4. CASE RemoveMain(p)
    <2>1. g.pc = "return"
      BY <1>0, <1>4 DEF RemoveMain, Handler
    <2> QED
      BY <2>1, OffTargets DEF FoundPCs
  <1>5. CASE FindTarget(p)
    <2>1. CASE handler' = [handler EXCEPT ![p].pc = "main"]
      <3>1. g.pc = "main"
        BY <1>0, <2>1 DEF Handler
      <3> QED
        BY <3>1, OffTargets DEF FoundPCs
    <2>2. CASE /\ h.req.host \in CNames /\ ingress[h.req.host].app = h.req.app
               /\ Targeted(p, h.req.host)
      <3>1. h.req.host = CertificateHolder(Key(p))
        BY <2>2 DEF CertificateHolder, Key
      <3> QED
        BY <1>0, <1>5, <2>2, <3>1, TargetedTargets DEF FindTarget, At
    <2> QED
      BY <1>5, <2>1, <2>2 DEF FindTarget
  <1>6. CASE FindMain(p)
    <2>1. CASE End(p, "error")
      BY <1>1, <2>1 DEF Ends
    <2>2. CASE Exists(ingress[h.req.app]) /\ Targeted(p, h.req.app)
      <3>1. h.req.app \in Apps
        BY <1>0, <1>6 DEF StageOK, CertPCs, FindMain, At, CertRequest
      <3>2. ingress[h.req.app].app = h.req.app
        BY <2>2, <3>1 DEF Sound, AllProper, Proper, Names
      <3>3. h.req.app = Key(p)[1]
        BY DEF Key
      <3> QED
        BY <1>0, <1>6, <2>2, <3>2, <3>3, TargetedTargets DEF FindMain, At
    <2> QED
      BY <1>6, <2>1, <2>2 DEF FindMain
  <1>7. ASSUME NEW step, handler' = [handler EXCEPT ![p].pc = step], h.pc \in FoundPCs,
               step # "untls", step \in AddPCs => h.pc \in AddPCs,
               step = "unsecret" => h.pc = "untls"
        PROVE  Targets(p)'
    <2>1. g.pc = step /\ g.seen = h.seen /\ g.req = h.req /\ g.name = h.name
      BY <1>0, <1>7 DEF Handler
    <2> QED
      BY <1>7, <2>1, OnTargets
  <1>8. ASSUME NEW step \in AddPCs, NEW rv, h.pc \in AddPCs,
               handler' = [handler EXCEPT ![p] = [@ EXCEPT !.pc = step, !.secretRV = rv]]
        PROVE  Targets(p)'
    <2>1. g.pc = step /\ g.seen = h.seen /\ g.req = h.req /\ g.name = h.name
      BY <1>0, <1>8 DEF Handler
    <2> QED
      BY <1>8, <2>1, OnTargets DEF AddPCs, FoundPCs
  <1>9. CASE CreateSecret(p) \/ AddTLS(p) \/ RemoveTLS(p) \/ DeleteSecret(p)
    <2>1. h.pc \in FoundPCs /\ (CreateSecret(p) => h.pc \in AddPCs)
      BY <1>9 DEF CreateSecret, AddTLS, RemoveTLS, DeleteSecret, At, FoundPCs, AddPCs
    <2>2. \/ End(p, "error")
          \/ handler' = [handler EXCEPT ![p].pc = "return"]
          \/ h.pc = "untls" /\ handler' = [handler EXCEPT ![p].pc = "unsecret"]
          \/ /\ CreateSecret(p)
             /\ \E step \in {"addtls", "getsecret"} : handler' = [handler EXCEPT ![p].pc = step]
      BY <1>9 DEF CreateSecret, AddTLS, RemoveTLS, DeleteSecret, Refused, At
    <2> QED
      BY <1>1, <1>7, <2>1, <2>2 DEF Ends, AddPCs
  <1>10. CASE GetSecret(p) \/ UpdateSecret(p)
    <2>1. h.pc \in AddPCs
      BY <1>10 DEF GetSecret, UpdateSecret, At, AddPCs
    <2>2. \/ End(p, "error")
          \/ \E step \in AddPCs : \E rv :
                handler' = [handler EXCEPT ![p] = [@ EXCEPT !.pc = step, !.secretRV = rv]]
      BY <1>10 DEF GetSecret, UpdateSecret, Refused, AddPCs
    <2> QED
      BY <1>1, <1>8, <2>1, <2>2 DEF Ends
  <1>11. CASE Fail(p) \/ Return(p)
    BY <1>1, <1>11 DEF Fail, Return, Ends
  <1> QED
    BY <1>2, <1>3, <1>4, <1>5, <1>6, <1>9, <1>10, <1>11 DEF HandlerStep, CertificateStep

LEMMA StaysTargets ==
    ASSUME IInv, Sound, AllTarget, [Next]_vars
    PROVE  AllTarget'
  <1> SUFFICES ASSUME NEW q \in Handlers
               PROVE  Targets(q)'
    BY DEF AllTarget
  <1>1. CASE handler'[q] = handler[q]
    BY <1>1 DEF AllTarget, Targets, Key
  <1>2. ASSUME NEW p \in Handlers, HandlerStep(p)
        PROVE  Targets(q)'
    BY <1>1, <1>2, OneMoves, HandlerTargets DEF AllTarget, IInv
  <1> QED
    BY <1>1, <1>2, EnvironmentMovesNone DEF Next, vars

-----------------------------------------------------------------------------
(* Every step is one of AtomicIngress.                                     *)

LEMMA ViewIs ==
    ASSUME NEW i \in Ingress
    PROVE  /\ View(i) = [shows |-> Content(i), tls |-> i.tls, frozen |-> i.frozen,
                         marked |-> i.terminating]
           /\ View(i) # Nil /\ Exists(i)
           /\ View(i).shows = Content(i) /\ View(i).tls = i.tls
           /\ View(i).frozen = i.frozen /\ View(i).marked = i.terminating
  <1>1. Exists(i)
    BY NilAssumption DEF Exists
  <1>2. Content(i) \in [app : Apps, route : Routes, rules : HostList,
                        cnames : SUBSET CNames, issuer : BOOLEAN, acme : BOOLEAN]
    BY DEF Content, Ingress
  <1>3. i.tls \in HostList /\ i.frozen \in BOOLEAN /\ i.terminating \in BOOLEAN
    BY DEF Ingress
  <1> DEFINE c == Content(i)
             v == [shows |-> c, tls |-> i.tls, frozen |-> i.frozen, marked |-> i.terminating]
  <1>4. View(i) = v
    BY <1>1 DEF View
  <1>5. v # Nil
    <2> HIDE DEF c
    <2> QED
      BY <1>2, <1>3, ViewAssumption DEF c
  <1> HIDE DEF c
  <1> QED
    BY <1>1, <1>4, <1>5 DEF c

LEMMA ContentIs ==
    \A i : LET c == Content(i) IN
           c.app = i.app /\ c.rules = i.rules /\ c.issuer = i.issuer /\ c.acme = i.acme
  BY DEF Content

LEMMA MarkedRecord ==
    ASSUME NEW c, NEW t, NEW f, NEW k, NEW v, NEW b,
           v = [shows |-> c, tls |-> t, frozen |-> f, marked |-> k]
    PROVE  [v EXCEPT !.marked = b] = [shows |-> c, tls |-> t, frozen |-> f, marked |-> b]
  OBVIOUS

\* An ingress that is there, and what the cluster's clients see of it.
LEMMA ViewsAt ==
    ASSUME TypeOK, NEW n \in Names, Exists(ingress[n])
    PROVE  ingress[n] \in Ingress /\ Views[n] = View(ingress[n]) /\ Views[n] # Nil
  <1>1. ingress[n] \in Ingress
    BY DEF TypeOK, Exists
  <1> QED
    BY <1>1, ViewIs DEF Views

LEMMA BecomesIs ==
    ASSUME NEW n \in Names, \A k \in Names \ {n} : ingress'[k] = ingress[k],
           NEW o, View(ingress'[n]) = o
    PROVE  Abstract!Becomes(n, o)
  <1>1. \A k : View(ingress[k])' = View(ingress'[k])
    BY DEF View, Content, Exists
  <1>2. Views' = [k \in Names |-> View(ingress'[k])]
    BY <1>1 DEF Views
  <1>3. \A k \in Names : Views'[k] = (IF k = n THEN o ELSE Views[k])
    BY <1>2 DEF Views
  <1>4. Views' = [Views EXCEPT ![n] = o]
    BY <1>2, <1>3 DEF Views
  <1> QED
    BY <1>4 DEF Abstract!Becomes

LEMMA SameToSet == \A s : Abstract!ToSet(s) = ToSet(s)
  BY DEF Abstract!ToSet, ToSet

\* What is sent shows what an Ensure asks for, with TLS where it is issued.
LEMMA SentIs ==
    ASSUME NEW n \in Names, NEW m, Sent(n, m)
    PROVE  /\ m \in Ingress /\ Content(m) \in Wanted[n]
           /\ m.tls = Abstract!Issued(Content(m))
           /\ ~m.frozen
  <1>1. PICK r \in EnsuresOf(n) :
            IF n = r.app THEN \E rules \in RuleOrders(r.hosts) : m = MainIngress(r, rules)
            ELSE \E parent \in Nat : m = CNameIngress(r, n, parent)
    BY DEF Sent
  <1>2. r \in EnsureRequest /\ (n # r.app => n \in CNames)
    BY RequestsAssumption DEF EnsuresOf, RequestType, RemoveRequest, CertRequest, EnsureRequest
  <1>3. \A w : Abstract!Issued(w) = IF w.issuer \/ w.acme THEN w.rules ELSE <<>>
    BY DEF Abstract!Issued
  <1>4. CASE n = r.app
    <2>1. PICK rules \in RuleOrders(r.hosts) : m = MainIngress(r, rules)
      BY <1>1, <1>4
    <2>2. m \in Ingress
      BY <1>2, <2>1, MainIngressType
    <2>3. Content(m) \in Wanted[n]
      BY <1>4, <2>1 DEF Wanted
    <2>4. /\ ~m.issuer /\ m.acme = r.acme /\ m.rules = rules /\ ~m.frozen
          /\ m.tls = IF r.acme THEN rules ELSE <<>>
      BY <2>1 DEF MainIngress, FillIngressTLS
    <2>5. Content(m).issuer = m.issuer /\ Content(m).acme = m.acme /\ Content(m).rules = m.rules
      BY DEF Content
    <2> QED
      BY <1>2, <1>3, <2>2, <2>3, <2>4, <2>5
  <1>5. CASE n # r.app
    <2>1. PICK parent \in Nat : m = CNameIngress(r, n, parent)
      BY <1>1, <1>5
    <2>2. m \in Ingress
      BY <1>2, <1>5, <2>1, CNameIngressType
    <2>3. Content(m) = Content(CNameIngress(r, n, 0))
      BY <2>1 DEF Content, CNameIngress, FillIngressTLS, CNameOwner
    <2>4. Content(m) \in Wanted[n]
      BY <1>5, <2>3 DEF Wanted
    <2>5. ~m.frozen /\ m.tls = IF m.issuer \/ m.acme THEN m.rules ELSE <<>>
      BY <2>1 DEF CNameIngress, FillIngressTLS, CNameOwner
    <2>6. Content(m).issuer = m.issuer /\ Content(m).acme = m.acme /\ Content(m).rules = m.rules
      BY DEF Content
    <2> QED
      BY <1>3, <2>2, <2>4, <2>5, <2>6
  <1> QED
    BY <1>4, <1>5

LEMMA CreatedContent ==
    ASSUME NEW m \in Ingress, NEW v \in Nat
    PROVE  Content(Created(m, v)) = Content(m)
  BY DEF Content, Created, Ingress

LEMMA OverContent ==
    ASSUME NEW m \in Ingress, NEW o \in Ingress, NEW v \in Nat
    PROVE  /\ Content(Over(o, m)) = Content(m)
           /\ Content([Over(o, m) EXCEPT !.rv = v]) = Content(m)
  BY DEF Content, Over, Ingress

LEMMA MergedContent ==
    ASSUME NEW m \in Ingress, NEW o
    PROVE  Content(MergeIngress(m, o)) = Content(m)
  BY DEF MergeIngress, FillIngressTLS, Content, Ingress

\* What an update leaves shows what was sent.
LEMMA ReplacedContent ==
    ASSUME NEW o \in Ingress, NEW m \in Ingress, NEW v \in Nat, Exists(Replaced(o, m, v))
    PROVE  Content(Replaced(o, m, v)) = Content(m)
  <1>1. ~o.terminating
    BY DEF Replaced, Exists
  <1>2. CASE Over(o, m) = o
    BY <1>1, <1>2, OverContent DEF Replaced
  <1>3. CASE Over(o, m) # o
    BY <1>1, <1>3, OverContent DEF Replaced
  <1> QED
    BY <1>2, <1>3

LEMMA EditedContent ==
    ASSUME NEW o \in Ingress, NEW tls \in HostList, NEW v \in Nat
    PROVE  Content(Edited(o, [o EXCEPT !.tls = tls], v)) = Content(o)
  <1>1. PICK m \in Ingress : m = [o EXCEPT !.tls = tls]
    BY DEF Ingress
  <1>2. Content(m) = Content(o)
    BY <1>1 DEF Content, Ingress
  <1> QED
    BY <1>1, <1>2, OverContent DEF Edited

\* A step writes one ingress at most.
LEMMA OneWritten ==
    ASSUME TypeOK, [Next]_vars, NEW n \in Names, ingress'[n] # ingress[n]
    PROVE  \A k \in Names \ {n} : ingress'[k] = ingress[k]
  <1> DEFINE Only(m) == \A k \in Names \ {m} : ingress'[k] = ingress[k]
  <1> SUFFICES \E m : Only(m)
    OBVIOUS
  <1>1. CASE UNCHANGED ingress
    BY <1>1
  <1>2. ASSUME NEW m, NEW i,
               CreateIngress(m, i) \/ ReplaceIngress(m, i) \/ EditIngress(m, i) \/ DeleteIngress(m)
        PROVE  Only(m)
    BY <1>2 DEF CreateIngress, ReplaceIngress, EditIngress, DeleteIngress, TypeOK
  <1>3. ASSUME NEW p \in Handlers, EnsureStep(p)
        PROVE  \E m : Only(m)
    BY <1>1, <1>2, <1>3 DEF EnsureStep, EnsureGet, EnsureCreate, EnsureUpdate, CNameGet,
       CNameCreate, CNameUpdate, CNameDeleteCertificate, CNameRemove, EnsureDone, Refused,
       cluster, ingresses
  <1>4. ASSUME NEW p \in Handlers, CertificateStep(p)
        PROVE  \E m : Only(m)
    BY <1>1, <1>2, <1>4 DEF CertificateStep, FindTarget, FindMain, CreateSecret, GetSecret,
       UpdateSecret, AddTLS, RemoveTLS, DeleteSecret, Refused, cluster, ingresses
  <1>5. ASSUME NEW p \in Handlers, RemoveMain(p)
        PROVE  \E m : Only(m)
    BY <1>5 DEF RemoveMain, TypeOK, ingresses
  <1>6. ASSUME NEW p \in Handlers, Receive(p) \/ Fail(p) \/ Return(p)
        PROVE  \E m : Only(m)
    BY <1>1, <1>6 DEF Receive, Fail, Return, cluster
  <1>7. CASE Environment
    <2>1. ASSUME NEW m, ToggleFreeze(m)
          PROVE  Only(m)
      BY <2>1 DEF ToggleFreeze, TypeOK
    <2> QED
      BY <1>1, <1>2, <1>7, <2>1 DEF Environment, Collect, CollectCName, CollectMain,
         CollectCertificate, OwnerServiceDeleted, IssueCertificate, ingresses
  <1> QED
    BY <1>1, <1>3, <1>4, <1>5, <1>6, <1>7 DEF Next, vars, cluster, HandlerStep

\* An Ensure publishes, or rewrites, what it was asked for.
LEMMA PublishRefines ==
    ASSUME IInv, NEW n \in Names, \A k \in Names \ {n} : ingress'[k] = ingress[k],
           ~Exists(ingress[n]), NEW m, Sent(n, m), ingress'[n] = Created(m, version[n] + 1)
    PROVE  Abstract!Next
  <1>1. m \in Ingress /\ version[n] + 1 \in Nat
    BY SentIs DEF IInv, TypeOK
  <1>2. PICK i \in Ingress : i = Created(m, version[n] + 1)
    BY <1>1, CreatedType
  <1>3. i.tls = m.tls /\ i.frozen = m.frozen /\ ~i.terminating /\ Content(i) = Content(m)
    BY <1>1, <1>2, CreatedIs, CreatedContent
  <1>4. i.terminating = FALSE /\ i.frozen = FALSE
    BY <1>2, <1>3, SentIs DEF Ingress
  <1>5. PICK w \in Wanted[n] : w = Content(m)
    BY SentIs
  <1>6. i.tls = Abstract!Issued(w)
    BY <1>3, <1>5, SentIs
  <1>7. View(i) = [shows |-> w, tls |-> Abstract!Issued(w), frozen |-> FALSE, marked |-> FALSE]
    BY <1>3, <1>4, <1>5, <1>6, ViewIs
  <1>8. Views[n] = Nil
    BY DEF Views, View
  <1>9. Abstract!Publish(n, w)
    BY <1>2, <1>7, <1>8, BecomesIs DEF Abstract!Publish
  <1> QED
    BY <1>5, <1>9 DEF Abstract!Next

LEMMA RewriteRefines ==
    ASSUME IInv, NEW n \in Names, \A k \in Names \ {n} : ingress'[k] = ingress[k],
           Exists(ingress[n]), Exists(ingress'[n]), NEW m, Sent(n, m), Updated(n, m)
    PROVE  Abstract!Next
  <1>1. m \in Ingress /\ version[n] + 1 \in Nat
    BY SentIs DEF IInv, TypeOK
  <1>2. PICK o \in Ingress : o = ingress[n]
    BY ViewsAt DEF IInv
  <1>3. PICK g \in Ingress : g = MergeIngress(m, o)
    BY <1>1, MergeIngressType
  <1>4. PICK i \in Ingress : i = Replaced(o, g, version[n] + 1) /\ i = ingress'[n]
    BY <1>1, <1>2, <1>3, ReplacedType DEF Updated, Exists
  <1>5. /\ i.tls = g.tls /\ i.frozen = g.frozen /\ ~i.terminating /\ ~o.terminating
        /\ Content(i) = Content(g)
    BY <1>1, <1>4, ReplacedIs, ReplacedContent
  <1>6. PICK w \in Wanted[n] : w = Content(m)
    BY SentIs
  <1>7. Content(i) = w /\ i.frozen = FALSE /\ i.terminating = FALSE
    BY <1>1, <1>3, <1>5, <1>6, SentIs, MergedContent, MergeIngressIs DEF Ingress
  <1>8. ~o.frozen
    BY <1>2 DEF Updated
  <1>9. i.tls = IF o.tls # <<>> /\ ~o.issuer THEN w.rules ELSE Abstract!Issued(w)
    <2>1. w.rules = m.rules /\ m.tls = Abstract!Issued(w)
      BY <1>6, SentIs DEF Content
    <2>2. g.tls = IF o.tls # <<>> /\ ~o.issuer THEN m.rules ELSE m.tls
      BY <1>1, <1>3 DEF MergeIngress, FillIngressTLS, IsManagedByCertManager, Ingress
    <2> QED
      BY <1>5, <2>1, <2>2
  <1>10. PICK v : v = Views[n]
    OBVIOUS
  <1>11. /\ v = [shows |-> Content(o), tls |-> o.tls, frozen |-> o.frozen,
                 marked |-> o.terminating]
         /\ v # Nil
    BY <1>2, <1>10, ViewIs DEF Views
  <1>12. v.shows.issuer = o.issuer
    BY <1>11 DEF Content
  <1>13. ~v.frozen /\ ~v.marked
    BY <1>5, <1>8, <1>11
  <1>14. i.tls = IF v.tls # <<>> /\ ~v.shows.issuer THEN w.rules ELSE Abstract!Issued(w)
    BY <1>9, <1>11, <1>12
  <1>15. View(i) = [shows |-> w, tls |-> i.tls, frozen |-> FALSE, marked |-> FALSE]
    BY <1>7, ViewIs
  <1>16. Abstract!Becomes(n, [shows |-> w, tls |-> i.tls, frozen |-> FALSE, marked |-> FALSE])
    BY <1>4, <1>15, BecomesIs
  <1>17. Abstract!Rewrite(n, w)
    BY <1>10, <1>11, <1>13, <1>14, <1>16 DEF Abstract!Rewrite
  <1> QED
    BY <1>6, <1>17 DEF Abstract!Next

\* An ingress that has other TLS entries, and is the same otherwise.
LEMMA RetouchedView ==
    ASSUME IInv, NEW n \in Names, \A k \in Names \ {n} : ingress'[k] = ingress[k],
           Exists(ingress[n]), NEW tls \in HostList, Retouched(n, tls)
    PROVE  Abstract!Becomes(n, [Views[n] EXCEPT !.tls = tls])
  <1>1. version[n] + 1 \in Nat
    BY DEF IInv, TypeOK
  <1>2. PICK o \in Ingress : o = ingress[n] /\ Views[n] = View(o)
    BY ViewsAt DEF IInv
  <1>3. [o EXCEPT !.tls = tls] \in Ingress
    BY DEF Ingress
  <1>4. PICK i \in Ingress : i = Edited(o, [o EXCEPT !.tls = tls], version[n] + 1)
    BY <1>1, <1>3, EditedType
  <1>5. /\ i.tls = tls /\ i.frozen = o.frozen /\ i.terminating = o.terminating
        /\ Content(i) = Content(o)
    BY <1>1, <1>4, EditedIs, EditedContent
  <1>6. View(i) = [View(o) EXCEPT !.tls = tls]
    <2>1. View(o) = [shows |-> Content(o), tls |-> o.tls, frozen |-> o.frozen,
                     marked |-> o.terminating]
      BY ViewIs
    <2>2. [View(o) EXCEPT !.tls = tls] =
            [shows |-> Content(o), tls |-> tls, frozen |-> o.frozen, marked |-> o.terminating]
      BY <2>1
    <2> QED
      BY <1>5, <2>2, ViewIs
  <1> QED
    BY <1>2, <1>4, <1>6, BecomesIs DEF Retouched

LEMMA EditedSame ==
    ASSUME NEW o \in Ingress, NEW v
    PROVE  Edited(o, [o EXCEPT !.tls = o.tls], v) = o
  <1>1. [o EXCEPT !.tls = o.tls] = o
    BY DEF Ingress
  <1>2. Over(o, o) = o
    BY DEF Over, Ingress
  <1> QED
    BY <1>1, <1>2 DEF Edited

\* AddCertificate and RemoveCertificate.
LEMMA PinRefines ==
    ASSUME IInv, NEW p \in Handlers, Targets(p), AddTLS(p),
           NEW n \in Names, \A k \in Names \ {n} : ingress'[k] = ingress[k],
           n = handler[p].name, ingress[n] = handler[p].seen, ingress'[n] # ingress[n],
           Retouched(n, AddTLSEntry(ingress[n].tls, handler[p].req.host))
    PROVE  Abstract!Next
  <1> DEFINE h == handler[p]
  <1>1. h.pc \in FoundPCs /\ h.pc \in AddPCs
    BY DEF AddTLS, At, FoundPCs, AddPCs
  <1>2. PICK host \in Hosts, o \in Ingress : host = h.req.host /\ o = ingress[n]
    BY <1>1, KeyType DEF IInv
  <1>3. Exists(ingress[n]) /\ Views[n] = View(o)
    BY <1>2, ViewIs DEF Views
  <1>4. ~o.issuer /\ ~o.acme /\ host \in ToSet(o.rules)
    BY <1>1, <1>2 DEF Targets, MayAddCertificate, IsManagedByCertManager
  <1>5. host \notin ToSet(o.tls)
    BY <1>2, EditedSame DEF Retouched, AddTLSEntry
  <1>6. Retouched(n, Append(o.tls, host)) /\ Append(o.tls, host) \in HostList
    BY <1>2, <1>5, AddTLSEntryType DEF AddTLSEntry, Ingress
  <1>7. PICK v : v = Views[n]
    OBVIOUS
  <1>8. /\ v # Nil /\ v.tls = o.tls /\ v.shows.rules = o.rules
        /\ v.shows.issuer = o.issuer /\ v.shows.acme = o.acme
    BY <1>2, <1>3, <1>7, ViewIs, ContentIs
  <1>9. Abstract!Becomes(n, [v EXCEPT !.tls = Append(v.tls, host)])
    BY <1>3, <1>6, <1>7, <1>8, RetouchedView
  <1>10. Abstract!ByHand(v)
    BY <1>4, <1>8 DEF Abstract!ByHand
  <1>11. host \in Abstract!ToSet(v.shows.rules) \ Abstract!ToSet(v.tls)
    BY <1>4, <1>5, <1>8, SameToSet
  <1>12. Abstract!Pin(n, host)
    BY <1>7, <1>8, <1>9, <1>10, <1>11 DEF Abstract!Pin
  <1> QED
    BY <1>7, <1>8, <1>11, <1>12 DEF Abstract!Next

LEMMA UnpinRefines ==
    ASSUME IInv, NEW p \in Handlers, Targets(p), RemoveTLS(p),
           NEW n \in Names, \A k \in Names \ {n} : ingress'[k] = ingress[k],
           n = handler[p].name, ingress[n] = handler[p].seen, ingress'[n] # ingress[n],
           Retouched(n, DropTLSEntry(ingress[n].tls, handler[p].req.host))
    PROVE  Abstract!Next
  <1> DEFINE h == handler[p]
  <1>1. h.pc \in FoundPCs /\ h.pc = "untls"
    BY DEF RemoveTLS, At, FoundPCs
  <1>2. PICK host \in Hosts, o \in Ingress : host = h.req.host /\ o = ingress[n]
    BY <1>1, KeyType DEF IInv
  <1>3. Exists(ingress[n]) /\ Views[n] = View(o)
    BY <1>2, ViewIs DEF Views
  <1>4. ~o.issuer /\ ~o.acme
    BY <1>1, <1>2 DEF Targets, MayRemoveCertificate, IsManagedByCertManager
  <1>5. o.tls # <<>> /\ DropTLSEntry(o.tls, host) = SubSeq(o.tls, 1, Len(o.tls) - 1)
    BY <1>2, EditedSame DEF Retouched, DropTLSEntry
  <1>6. /\ Retouched(n, SubSeq(o.tls, 1, Len(o.tls) - 1))
        /\ SubSeq(o.tls, 1, Len(o.tls) - 1) \in HostList
    BY <1>2, <1>5, DropTLSEntryType DEF Ingress
  <1>7. PICK v : v = Views[n]
    OBVIOUS
  <1>8. v # Nil /\ v.tls = o.tls /\ v.shows.issuer = o.issuer /\ v.shows.acme = o.acme
    BY <1>2, <1>3, <1>7, ViewIs, ContentIs
  <1>9. Abstract!Front(v.tls) = SubSeq(o.tls, 1, Len(o.tls) - 1)
    BY <1>8 DEF Abstract!Front
  <1>10. Abstract!Becomes(n, [v EXCEPT !.tls = Abstract!Front(v.tls)])
    BY <1>3, <1>6, <1>7, <1>9, RetouchedView
  <1>11. Abstract!Unpin(n)
    BY <1>4, <1>5, <1>7, <1>8, <1>10 DEF Abstract!Unpin, Abstract!ByHand
  <1> QED
    BY <1>11 DEF Abstract!Next

\* Remove, and the operators that freeze an ingress.
LEMMA RemarkRefines ==
    ASSUME IInv, Sound, NEW n \in Names, \A k \in Names \ {n} : ingress'[k] = ingress[k],
           Exists(ingress[n]), Remarked(n), ingress'[n] # ingress[n]
    PROVE  Abstract!Next
  <1>1. PICK o \in Ingress : o = ingress[n]
    BY ViewsAt DEF IInv
  <1>2. PICK rv \in Nat : rv = version[n] + 1
    BY DEF IInv, TypeOK
  <1>3. PICK v : v = Views[n]
    OBVIOUS
  <1>4. PICK c, t, f, k : c = Content(o) /\ t = o.tls /\ f = o.frozen /\ k = o.terminating
    OBVIOUS
  <1>5. v = [shows |-> c, tls |-> t, frozen |-> f, marked |-> k] /\ v # Nil
    BY <1>1, <1>3, <1>4, ViewIs DEF Views
  <1>6. CASE n \in Apps /\ ingress'[n] = Marked(o, rv)
    <2>1. PICK i \in Ingress : i = Marked(o, rv) /\ i = ingress'[n]
      BY <1>6, MarkedType
    <2>2. Content(i) = c /\ i.tls = t /\ i.frozen = f /\ i.terminating = TRUE
      BY <1>1, <1>4, <1>6, <2>1 DEF Marked, Content, Ingress
    <2>3. View(i) = [shows |-> c, tls |-> t, frozen |-> f, marked |-> TRUE]
      BY <2>2, ViewIs
    <2>4. View(i) = [v EXCEPT !.marked = TRUE]
      <3>1. [v EXCEPT !.marked = TRUE] = [shows |-> c, tls |-> t, frozen |-> f, marked |-> TRUE]
        <4>1. PICK b : b = TRUE
          OBVIOUS
        <4>2. [v EXCEPT !.marked = b] = [shows |-> c, tls |-> t, frozen |-> f, marked |-> b]
          BY <1>5, MarkedRecord
        <4> QED
          BY <4>1, <4>2, Zenon
      <3> QED
        BY <2>3, <3>1
    <2>5. v.shows.app = n
      <3>1. o.app = n
        BY <1>1, <1>6 DEF Sound, AllProper, Proper
      <3> QED
        BY <1>4, <1>5, <3>1 DEF Content
    <2>6. Abstract!Mark(n)
      BY <1>3, <1>5, <2>1, <2>4, <2>5, BecomesIs DEF Abstract!Mark
    <2> QED
      BY <2>6 DEF Abstract!Next
  <1>7. CASE ingress'[n] = [o EXCEPT !.frozen = ~o.frozen, !.rv = rv]
    <2>1. PICK i \in Ingress : i = ingress'[n]
      BY <1>7 DEF Ingress
    <2>2. Content(i) = c /\ i.tls = t /\ i.frozen = ~f /\ i.terminating = k
      BY <1>4, <1>7, <2>1 DEF Content, Ingress
    <2>3. View(i) = [shows |-> c, tls |-> t, frozen |-> ~f, marked |-> k]
      BY <2>2, ViewIs
    <2>4. View(i) = [v EXCEPT !.frozen = ~v.frozen]
      <3>1. [v EXCEPT !.frozen = ~v.frozen] = [shows |-> c, tls |-> t, frozen |-> ~f, marked |-> k]
        BY <1>5
      <3> QED
        BY <2>3, <3>1
    <2>5. Abstract!ToggleFreeze(n)
      BY <1>3, <1>5, <2>1, <2>4, BecomesIs DEF Abstract!ToggleFreeze
    <2> QED
      BY <2>5 DEF Abstract!Next
  <1> QED
    BY <1>1, <1>2, <1>6, <1>7 DEF Remarked

LEMMA StepRefines == IInv /\ Sound /\ AllTarget /\ [Next]_vars => [Abstract!Next]_Views
  <1> SUFFICES ASSUME IInv, Sound, AllTarget, [Next]_vars, Views' # Views
               PROVE  Abstract!Next
    OBVIOUS
  <1>1. PICK n \in Names : ingress'[n] # ingress[n]
    BY DEF Views, View, Content, Exists
  <1>2. \A k \in Names \ {n} : ingress'[k] = ingress[k]
    BY <1>1, OneWritten DEF IInv
  <1>3. CASE ~Exists(ingress'[n])
    <2>1. View(ingress'[n]) = Nil
      BY <1>3 DEF View
    <2> QED
      BY <1>2, <2>1, BecomesIs DEF Abstract!Next, Abstract!Vanish
  <1>4. CASE Exists(ingress'[n])
    <2>1. CASE Exists(ingress[n]) /\ Remarked(n)
      BY <1>1, <1>2, <2>1, RemarkRefines
    <2>2. ASSUME NEW p \in Handlers, Writing(p, n)
          PROVE  Abstract!Next
      <3>1. CASE /\ ~Exists(ingress[n])
                 /\ \E m : Sent(n, m) /\ ingress'[n] = Created(m, version[n] + 1)
        BY <1>2, <3>1, PublishRefines
      <3>2. CASE Exists(ingress[n]) /\ \E m : Sent(n, m) /\ Updated(n, m)
        BY <1>2, <1>4, <3>2, RewriteRefines
      <3>3. CASE /\ AddTLS(p) /\ n = handler[p].name /\ ingress[n] = handler[p].seen
                 /\ Retouched(n, AddTLSEntry(ingress[n].tls, handler[p].req.host))
        BY <1>1, <1>2, <3>3, PinRefines DEF AllTarget
      <3>4. CASE /\ RemoveTLS(p) /\ n = handler[p].name /\ ingress[n] = handler[p].seen
                 /\ Retouched(n, DropTLSEntry(ingress[n].tls, handler[p].req.host))
        BY <1>1, <1>2, <3>4, UnpinRefines DEF AllTarget
      <3> QED
        BY <2>1, <2>2, <3>1, <3>2, <3>3, <3>4 DEF Writing
    <2> QED
      BY <1>1, <1>4, <2>1, <2>2, WriteKinds
  <1> QED
    BY <1>3, <1>4

LEMMA TargetsHold == Spec => []AllTarget
  <1>1. Init => AllTarget
    BY DEF Init, AllTarget, Targets, Idle, FoundPCs, AddPCs
  <1>2. IInvSerial /\ AllTarget /\ [Next]_vars => AllTarget'
    BY StaysTargets DEF IInvSerial
  <1> QED
    BY <1>1, <1>2, SerialInvariantHolds, PTL DEF Spec

\* Every request takes effect atomically on each ingress it writes, on the ingress as it is
\* then, however its calls interleave with those of others: IngressService implements
\* AtomicIngress (Get, then Update with the version of that Get, in Ensure, AddCertificate
\* and RemoveCertificate).
THEOREM Implements == Spec => Atomic
  <1>1. Init => Abstract!Init
    BY DEF Init, Abstract!Init, Views, View, Exists
  <1>2. IInvSerial => IInv /\ Sound
    BY DEF IInvSerial
  <1> QED
    BY <1>1, <1>2, StepRefines, SerialInvariantHolds, TargetsHold, PTL
       DEF Spec, Atomic, Abstract!Spec

-----------------------------------------------------------------------------
(* The Secrets of TLS entries.                                             *)

\* What the ingress n is, an Ensure asked for.
AskedIngress(n, i) ==
    /\ \E r \in EnsuresOf(n) : r.app = i.app
    /\ n \in Apps =>
        \A host \in ToSet(i.rules) \cup ToSet(i.tls) :
            \E r \in EnsuresOf(n) : host \in r.hosts

AskedFor == \A n \in Names : Exists(ingress[n]) => AskedIngress(n, ingress[n])

\* A request that is about to write the TLS entry has written the Secret.
Secured(p) == At(p, "addtls") /\ Undisturbed(Key(p)) => secret[Key(p)] # 0

\* One that is about to delete the Secret has seen to it that no entry names it.
Clears(p) ==
    LET h == handler[p]
        k == Key(p)
        i == ingress[CertificateHolder(k)]
        mine == Exists(i) /\ i.app = k[1]
    IN
    /\ h.pc = "main" /\ h.req.host \in CNames => ~mine
    /\ h.pc \in FoundPCs /\ h.name # CertificateHolder(k) => ~mine
    /\ h.pc = "unsecret" /\ mine => k[2] \notin ToSet(i.tls)

AllSecured == \A p \in Handlers : Secured(p) /\ (Alone(p) => Clears(p))

IInvSecrets == IInv /\ Sound /\ AllTarget /\ AskedFor /\ AllSecured /\ TLSHasSecret

LEMMA SentAsked ==
    ASSUME NEW n \in Names, NEW m, Sent(n, m)
    PROVE  AskedIngress(n, m)
  <1>1. PICK r \in EnsuresOf(n) :
            IF n = r.app THEN \E rules \in RuleOrders(r.hosts) : m = MainIngress(r, rules)
            ELSE \E parent \in Nat : m = CNameIngress(r, n, parent)
    BY DEF Sent
  <1>2. r \in EnsureRequest /\ r \in Requests /\ (n # r.app => n \in CNames)
    BY RequestsAssumption DEF EnsuresOf, RequestType, RemoveRequest, CertRequest, EnsureRequest
  <1>3. CASE n = r.app
    <2>1. PICK rules \in RuleOrders(r.hosts) : m = MainIngress(r, rules)
      BY <1>1, <1>3
    <2>2. r.hosts \in SUBSET Hosts /\ IsFiniteSet(r.hosts)
      BY <1>2, NamesAssumption, FS_Subset DEF EnsureRequest
    <2>3. ToSet(rules) \subseteq r.hosts
      BY <2>2, FS_CardinalityType DEF RuleOrders, SetToSeqs, ToSet
    <2>4. ToSet(<<>>) = {}
      BY DEF ToSet
    <2>5. m.app = r.app /\ ToSet(m.rules) \subseteq r.hosts /\ ToSet(m.tls) \subseteq r.hosts
      BY <2>1, <2>3, <2>4 DEF MainIngress, FillIngressTLS
    <2> QED
      BY <2>5 DEF AskedIngress
  <1>4. CASE n # r.app
    <2>1. PICK parent \in Nat : m = CNameIngress(r, n, parent)
      BY <1>1, <1>4
    <2>2. n \notin Apps
      BY <1>2, <1>4, NamesAssumption
    <2> QED
      BY <1>2, <1>4, <2>1, <2>2, CNameIngressIs DEF AskedIngress
  <1> QED
    BY <1>3, <1>4

\* An ingress that is asked for stays so with fewer TLS entries, or with one of its rules.
LEMMA SameAsked ==
    ASSUME NEW n, NEW o, NEW i, AskedIngress(n, o), i.app = o.app, i.rules = o.rules,
           ToSet(i.tls) \subseteq ToSet(o.tls) \cup ToSet(o.rules)
    PROVE  AskedIngress(n, i)
  BY DEF AskedIngress

\* A mark changes nothing else.
LEMMA RemarkedIs ==
    ASSUME TypeOK, NEW n \in Names, Exists(ingress[n]), Remarked(n)
    PROVE  /\ ingress'[n].app = ingress[n].app /\ ingress'[n].rules = ingress[n].rules
           /\ ingress'[n].tls = ingress[n].tls /\ ingress'[n].issuer = ingress[n].issuer
  <1>1. ingress[n] \in Ingress
    BY ViewsAt
  <1> QED
    BY <1>1 DEF Remarked, Marked, Ingress

\* What an update leaves.
LEMMA UpdatedIs ==
    ASSUME TypeOK, NEW n \in Names, Exists(ingress[n]), Exists(ingress'[n]),
           NEW m, Sent(n, m), Updated(n, m)
    PROVE  LET old == ingress[n]
               new == ingress'[n]
           IN  /\ new.app = m.app /\ new.rules = m.rules /\ new.issuer = m.issuer
               /\ new.tls = IF old.tls # <<>> /\ ~old.issuer THEN m.rules ELSE m.tls
  <1>1. PICK o \in Ingress : o = ingress[n]
    BY ViewsAt
  <1>2. m \in Ingress /\ version[n] + 1 \in Nat
    BY SentIs DEF TypeOK
  <1>3. PICK g \in Ingress : g = MergeIngress(m, o)
    BY <1>2, MergeIngressType
  <1>4. PICK i : i = Replaced(o, g, version[n] + 1) /\ i = ingress'[n] /\ Exists(i)
    BY <1>1, <1>3 DEF Updated
  <1>5. i.tls = g.tls /\ Content(i) = Content(g)
    BY <1>2, <1>4, ReplacedIs, ReplacedContent
  <1>6. Content(g) = Content(m)
    BY <1>2, <1>3, MergedContent
  <1>7. g.tls = IF o.tls # <<>> /\ ~o.issuer THEN m.rules ELSE m.tls
    BY <1>2, <1>3 DEF MergeIngress, FillIngressTLS, IsManagedByCertManager, Ingress
  <1>8. i.app = m.app /\ i.rules = m.rules /\ i.issuer = m.issuer
    BY <1>5, <1>6, ContentIs
  <1> QED
    BY <1>1, <1>4, <1>5, <1>7, <1>8

LEMMA RetouchedIs ==
    ASSUME TypeOK, NEW n \in Names, Exists(ingress[n]), NEW tls \in HostList, Retouched(n, tls)
    PROVE  /\ ingress'[n].app = ingress[n].app /\ ingress'[n].rules = ingress[n].rules
           /\ ingress'[n].tls = tls /\ ingress'[n].issuer = ingress[n].issuer
  <1>1. PICK o \in Ingress : o = ingress[n]
    BY ViewsAt
  <1>2. version[n] + 1 \in Nat
    BY DEF TypeOK
  <1>3. PICK i : i = Edited(o, [o EXCEPT !.tls = tls], version[n] + 1) /\ i = ingress'[n]
    BY <1>1 DEF Retouched
  <1>4. i.tls = tls /\ Content(i) = Content(o)
    BY <1>2, <1>3, EditedIs, EditedContent
  <1> QED
    BY <1>1, <1>3, <1>4, ContentIs

\* The entries that AddCertificate and RemoveCertificate write.
LEMMA EntriesOf ==
    ASSUME IInv, NEW p \in Handlers, Targets(p), handler[p].pc \in {"addtls", "untls"},
           NEW n, ingress[n] = handler[p].seen
    PROVE  LET tls == ingress[n].tls
               host == handler[p].req.host
           IN  /\ host \in Hosts /\ tls \in HostList /\ ingress[n].app = handler[p].req.app
               /\ AddTLSEntry(tls, host) \in HostList /\ DropTLSEntry(tls, host) \in HostList
               /\ ToSet(AddTLSEntry(tls, host)) \subseteq ToSet(tls) \cup {host}
               /\ ToSet(DropTLSEntry(tls, host)) \subseteq ToSet(tls)
               /\ handler[p].pc = "addtls" => host \in ToSet(ingress[n].rules)
  <1>1. handler[p].pc \in FoundPCs
    BY DEF FoundPCs
  <1>2. PICK host \in Hosts, o \in Ingress : host = handler[p].req.host /\ o = ingress[n]
    BY <1>1, KeyType DEF IInv
  <1>3. o.tls \in HostList
    BY DEF Ingress
  <1>4. o.app = handler[p].req.app
    BY <1>1, <1>2 DEF Targets, Key
  <1>5. handler[p].pc = "addtls" => host \in ToSet(o.rules)
    BY <1>2 DEF Targets, MayAddCertificate, AddPCs
  <1> QED
    BY <1>2, <1>3, <1>4, <1>5, AddTLSEntryType, DropTLSEntryType, TLSEntriesAre

LEMMA StaysAskedFor ==
    ASSUME IInv, Sound, AllTarget, AskedFor, [Next]_vars
    PROVE  AskedFor'
  <1>0. TypeOK
    BY DEF IInv
  <1> SUFFICES ASSUME NEW n \in Names, Exists(ingress'[n])
               PROVE  AskedIngress(n, ingress'[n])
    BY DEF AskedFor, AskedIngress, EnsuresOf
  <1>1. CASE ingress'[n] = ingress[n]
    BY <1>1 DEF AskedFor
  <1>2. CASE Exists(ingress[n]) /\ Remarked(n)
    BY <1>0, <1>2, RemarkedIs, SameAsked DEF AskedFor
  <1>3. ASSUME NEW p \in Handlers, Writing(p, n)
        PROVE  AskedIngress(n, ingress'[n])
    <2>1. ASSUME ~Exists(ingress[n]), NEW m, Sent(n, m), ingress'[n] = Created(m, version[n] + 1)
          PROVE  AskedIngress(n, ingress'[n])
      <3>1. m \in Ingress /\ version[n] + 1 \in Nat
        BY <1>0, <2>1, SentIs DEF TypeOK
      <3>2. ingress'[n].app = m.app /\ ingress'[n].rules = m.rules /\ ingress'[n].tls = m.tls
        BY <2>1, <3>1, CreatedIs
      <3> QED
        BY <2>1, <3>2, SentAsked, SameAsked
    <2>2. ASSUME Exists(ingress[n]), NEW m, Sent(n, m), Updated(n, m)
          PROVE  AskedIngress(n, ingress'[n])
      <3>1. /\ ingress'[n].app = m.app /\ ingress'[n].rules = m.rules
            /\ ingress'[n].tls \in {m.rules, m.tls}
        BY <1>0, <2>2, UpdatedIs
      <3> QED
        BY <2>2, <3>1, SentAsked, SameAsked
    <2>3. CASE /\ AddTLS(p) /\ ingress[n] = handler[p].seen /\ Exists(ingress[n])
               /\ Retouched(n, AddTLSEntry(ingress[n].tls, handler[p].req.host))
      <3>1. handler[p].pc = "addtls" /\ Targets(p)
        BY <2>3 DEF AddTLS, At, AllTarget
      <3> QED
        BY <1>0, <2>3, <3>1, EntriesOf, RetouchedIs, SameAsked DEF AskedFor
    <2>4. CASE /\ RemoveTLS(p) /\ ingress[n] = handler[p].seen /\ Exists(ingress[n])
               /\ Retouched(n, DropTLSEntry(ingress[n].tls, handler[p].req.host))
      <3>1. handler[p].pc = "untls" /\ Targets(p)
        BY <2>4 DEF RemoveTLS, At, AllTarget
      <3> QED
        BY <1>0, <2>4, <3>1, EntriesOf, RetouchedIs, SameAsked DEF AskedFor
    <2> QED
      BY <1>2, <1>3, <2>1, <2>2, <2>3, <2>4 DEF Writing
  <1> QED
    BY <1>1, <1>2, <1>3, WriteKinds

\* The Ensures of an ingress whose entries are added by hand are all of one app, and bring
\* no other host to it.
LEMMA SentByHand ==
    ASSUME NEW n \in Names, NEW m, Sent(n, m), ByHand(n)
    PROVE  /\ ~m.issuer => m.tls = <<>>
           /\ \A s \in EnsuresOf(n) : s.app = m.app
           /\ n \in CNames => ToSet(m.rules) \subseteq {n}
           /\ n \in Apps =>
                \A s \in EnsuresOf(n) : \A g \in s.hosts : ToSet(m.rules) \subseteq {g}
  <1>1. PICK r \in EnsuresOf(n) :
            IF n = r.app THEN \E rules \in RuleOrders(r.hosts) : m = MainIngress(r, rules)
            ELSE \E parent \in Nat : m = CNameIngress(r, n, parent)
    BY DEF Sent
  <1>2. \A s \in EnsuresOf(n) : s \in EnsureRequest /\ s \in Requests /\ n \in s.cnames \cup {s.app}
    BY RequestsAssumption DEF EnsuresOf, RequestType, RemoveRequest, CertRequest, EnsureRequest
  <1>3. \A s \in EnsureRequest : s.app \in Apps /\ s.cnames \subseteq CNames
    BY DEF EnsureRequest
  <1>4. Apps \cap CNames = {}
    BY NamesAssumption
  <1>5. CASE n = r.app
    <2>1. PICK rules \in RuleOrders(r.hosts) : m = MainIngress(r, rules)
      BY <1>1, <1>5
    <2>2. n \in Apps /\ n \notin CNames
      BY <1>2, <1>3, <1>4, <1>5
    <2>3. \A s \in EnsuresOf(n) : s.app = n
      BY <1>2, <1>3, <2>2
    <2>4. /\ ~r.acme
          /\ \A s \in EnsuresOf(n) : \A h \in r.hosts, g \in s.hosts : h = g
      BY <2>2 DEF ByHand
    <2>5. r.hosts \in SUBSET Hosts /\ IsFiniteSet(r.hosts)
      BY <1>2, NamesAssumption, FS_Subset DEF EnsureRequest
    <2>6. ToSet(rules) \subseteq r.hosts
      BY <2>5, FS_CardinalityType DEF RuleOrders, SetToSeqs, ToSet
    <2>7. m.app = r.app /\ m.rules = rules /\ m.tls = <<>>
      BY <2>1, <2>4 DEF MainIngress
    <2> QED
      BY <1>5, <2>2, <2>3, <2>4, <2>6, <2>7
  <1>6. CASE n # r.app
    <2>1. PICK parent \in Nat : m = CNameIngress(r, n, parent)
      BY <1>1, <1>6
    <2>2. n \in CNames /\ n \notin Apps
      BY <1>2, <1>3, <1>4, <1>6
    <2>3. /\ r.acmeCName => r.httpOnly
          /\ \A s \in EnsuresOf(n) : r.app = s.app
      BY <2>2 DEF ByHand
    <2>4. /\ m.app = r.app /\ ToSet(m.rules) \subseteq {n}
      BY <1>2, <2>1, <2>2, CNameIngressIs
    <2>5. ~m.issuer => m.tls = <<>>
      BY <2>1, <2>3 DEF CNameIngress, FillIngressTLS
    <2> QED
      BY <2>2, <2>3, <2>4, <2>5
  <1> QED
    BY <1>5, <1>6

\* An entry for a host is an entry for no other, once there is one of an app for it.
LEMMA OnlyEntry ==
    ASSUME IInv, Sound, AskedFor, NEW n \in Names, ByHand(n), Exists(ingress[n]),
           NEW m, Sent(n, m), ingress[n].tls # <<>>, NEW host \in ToSet(m.rules)
    PROVE  host \in ToSet(ingress[n].tls) /\ m.app = ingress[n].app
  <1>1. PICK o \in Ingress : o = ingress[n]
    BY ViewsAt DEF IInv
  <1>2. AskedIngress(n, o) /\ ToSet(o.tls) \subseteq HostsOf(n)
    BY <1>1 DEF AskedFor, Sound, AllProper, Proper
  <1>3. PICK g : g \in ToSet(o.tls)
    <2>1. o.tls \in Seq(Hosts) /\ o.tls # <<>>
      BY <1>1 DEF Ingress, HostList
    <2>2. 1 \in DOMAIN o.tls
      BY <2>1
    <2> QED
      BY <2>2 DEF ToSet
  <1>4. m.app = o.app
    BY <1>2, SentByHand DEF AskedIngress
  <1>5. CASE n \in CNames
    BY <1>1, <1>2, <1>3, <1>4, <1>5, SentByHand DEF HostsOf
  <1>6. CASE n \in Apps
    <2>1. PICK s \in EnsuresOf(n) : g \in s.hosts
      BY <1>2, <1>3, <1>6 DEF AskedIngress
    <2>2. ToSet(m.rules) \subseteq {g}
      BY <1>6, <2>1, SentByHand
    <2> QED
      BY <1>1, <1>3, <1>4, <2>2
  <1> QED
    BY <1>5, <1>6 DEF Names

\* An entry that nobody manages was there before, or an AddCertificate has just written it.
LEMMA EntryOrigin ==
    ASSUME IInv, Sound, AllTarget, AskedFor, [Next]_vars,
           NEW n \in Names, ByHand(n), Exists(ingress'[n]), ~ingress'[n].issuer,
           NEW host \in ToSet(ingress'[n].tls)
    PROVE  \/ /\ Exists(ingress[n]) /\ ~ingress[n].issuer /\ ingress[n].app = ingress'[n].app
              /\ host \in ToSet(ingress[n].tls)
           \/ \E p \in Handlers : AddTLS(p) /\ Key(p) = <<ingress'[n].app, host>>
  <1>0. TypeOK
    BY DEF IInv
  <1>1. CASE ingress'[n] = ingress[n]
    BY <1>1
  <1>2. CASE Exists(ingress[n]) /\ Remarked(n)
    BY <1>0, <1>2, RemarkedIs
  <1>3. ASSUME NEW p \in Handlers, Writing(p, n)
        PROVE  \/ /\ Exists(ingress[n]) /\ ~ingress[n].issuer /\ ingress[n].app = ingress'[n].app
                  /\ host \in ToSet(ingress[n].tls)
               \/ AddTLS(p) /\ Key(p) = <<ingress'[n].app, host>>
    <2>0. ToSet(<<>>) = {}
      BY DEF ToSet
    <2>1. ASSUME NEW m, Sent(n, m), ingress'[n] = Created(m, version[n] + 1)
          PROVE  FALSE
      <3>1. m \in Ingress /\ version[n] + 1 \in Nat
        BY <1>0, <2>1, SentIs DEF TypeOK
      <3>2. ingress'[n].tls = m.tls /\ ingress'[n].issuer = m.issuer
        BY <2>1, <3>1 DEF Created, Ingress
      <3> QED
        BY <2>0, <2>1, <3>2, SentByHand
    <2>2. ASSUME Exists(ingress[n]), NEW m, Sent(n, m), Updated(n, m)
          PROVE  /\ ~ingress[n].issuer /\ ingress[n].app = ingress'[n].app
                 /\ host \in ToSet(ingress[n].tls)
      <3>1. /\ ingress'[n].app = m.app /\ ingress'[n].issuer = m.issuer
            /\ ingress'[n].tls = IF ingress[n].tls # <<>> /\ ~ingress[n].issuer THEN m.rules
                                 ELSE m.tls
        BY <1>0, <2>2, UpdatedIs
      <3>2. ingress[n].tls # <<>> /\ ~ingress[n].issuer /\ host \in ToSet(m.rules)
        BY <2>0, <2>2, <3>1, SentByHand
      <3> QED
        BY <2>2, <3>1, <3>2, OnlyEntry
    <2>3. CASE /\ AddTLS(p) /\ ingress[n] = handler[p].seen /\ Exists(ingress[n])
               /\ Retouched(n, AddTLSEntry(ingress[n].tls, handler[p].req.host))
      <3>1. handler[p].pc = "addtls" /\ Targets(p)
        BY <2>3 DEF AddTLS, At, AllTarget
      <3>2. /\ ingress'[n].app = ingress[n].app /\ ingress'[n].issuer = ingress[n].issuer
            /\ host \in ToSet(ingress[n].tls) \cup {handler[p].req.host}
            /\ ingress[n].app = handler[p].req.app
        BY <1>0, <2>3, <3>1, EntriesOf, RetouchedIs
      <3> QED
        BY <2>3, <3>2 DEF Key
    <2>4. CASE /\ RemoveTLS(p) /\ ingress[n] = handler[p].seen /\ Exists(ingress[n])
               /\ Retouched(n, DropTLSEntry(ingress[n].tls, handler[p].req.host))
      <3>1. handler[p].pc = "untls" /\ Targets(p)
        BY <2>4 DEF RemoveTLS, At, AllTarget
      <3> QED
        BY <1>0, <2>4, <3>1, EntriesOf, RetouchedIs
    <2>5. CASE Exists(ingress[n]) /\ Remarked(n)
      BY <1>0, <2>5, RemarkedIs
    <2> QED
      BY <1>3, <2>1, <2>2, <2>3, <2>4, <2>5 DEF Writing
  <1> QED
    BY <1>1, <1>2, <1>3, WriteKinds

\* What nobody disturbs after a step, nobody disturbed before it.
LEMMA UndisturbedBefore ==
    ASSUME TypeOK, [Next]_vars, NEW k, Undisturbed(k)'
    PROVE  Undisturbed(k)
  <1>1. CASE UNCHANGED handler
    BY <1>1 DEF Undisturbed, Alone, At
  <1>2. ASSUME NEW p \in Handlers, HandlerStep(p)
        PROVE  Undisturbed(k)
    BY <1>2, AloneMoved DEF Undisturbed
  <1> QED
    BY <1>1, <1>2, EnvironmentMovesNone DEF Next, vars

\* A Secret goes when a RemoveCertificate deletes it, ...
LEMMA SecretGoes ==
    ASSUME IInv, [Next]_vars, NEW k \in SecretKeys, secret[k] # 0, secret'[k] = 0
    PROVE  \E p \in Handlers : /\ HandlerStep(p) /\ DeleteSecret(p) /\ Key(p) = k
                               /\ UNCHANGED ingresses
  <1>0. TypeOK
    BY DEF IInv
  <1>1. ASSUME NEW l \in SecretKeys, WriteSecret(l)
        PROVE  secret'[k] # 0
    <2>1. secretVersion[l] + 1 # 0 /\ secret \in [SecretKeys -> Nat]
      BY <1>0 DEF TypeOK
    <2> QED
      BY <1>1, <2>1 DEF WriteSecret
  <1>2. ~UNCHANGED secret
    OBVIOUS
  <1>3. ASSUME NEW p \in Handlers, CreateSecret(p) \/ UpdateSecret(p)
        PROVE  FALSE
    <2>1. Key(p) \in SecretKeys
      BY <1>3, KeyType DEF IInv, CreateSecret, UpdateSecret, At, FoundPCs
    <2> QED
      BY <1>1, <1>2, <1>3, <2>1 DEF CreateSecret, UpdateSecret, Refused, secrets, cluster
  <1>4. ASSUME NEW n \in Names, IssueCertificate(n)
        PROVE  FALSE
    <2>1. PICK host \in ToSet(ingress[n].tls) :
             WriteSecret(<<ingress[n].app, host>>) \/ UNCHANGED secrets
      BY <1>4 DEF IssueCertificate
    <2>2. ingress[n] \in Ingress
      BY <1>0, <1>4, ViewsAt DEF IssueCertificate
    <2>3. ingress[n].app \in Apps /\ ingress[n].tls \in Seq(Hosts)
      BY <2>2 DEF Ingress, HostList
    <2>4. host \in Hosts
      BY <2>3 DEF ToSet
    <2>5. <<ingress[n].app, host>> \in SecretKeys
      BY <2>3, <2>4 DEF SecretKeys
    <2> QED
      BY <1>1, <1>2, <2>1, <2>5 DEF secrets
  <1>5. CASE Environment
    BY <1>2, <1>4, <1>5 DEF Environment, Collect, CollectCName, CollectMain, CollectCertificate,
       OwnerServiceDeleted, ToggleFreeze, secrets
  <1>6. ASSUME NEW p \in Handlers, HandlerStep(p)
        PROVE  DeleteSecret(p) /\ Key(p) = k /\ UNCHANGED ingresses
    <2>1. DeleteSecret(p)
      BY <1>2, <1>3, <1>6 DEF HandlerStep, Receive, Fail, Return, RemoveMain, EnsureStep,
         CertificateStep, EnsureGet, EnsureCreate, EnsureUpdate, CNameGet, CNameCreate, CNameUpdate,
         CNameDeleteCertificate, CNameRemove, EnsureDone, FindTarget, FindMain, GetSecret, AddTLS,
         RemoveTLS, Refused, cluster, secrets
    <2>2. secret' = [secret EXCEPT ![Key(p)] = 0] /\ UNCHANGED ingresses
      BY <1>2, <2>1 DEF DeleteSecret, Refused, cluster
    <2> QED
      BY <1>0, <2>1, <2>2 DEF TypeOK
  <1> QED
    BY <1>2, <1>5, <1>6 DEF Next, vars, cluster

\* ... and where nobody disturbs it, by one that is alone.
LEMMA SecretsStay ==
    ASSUME IInv, Sound, AllTarget, [Next]_vars, NEW k \in SecretKeys, Undisturbed(k)',
           secret[k] # 0, secret'[k] = 0
    PROVE  \E p \in Handlers : Alone(p) /\ At(p, "unsecret") /\ Key(p) = k /\ UNCHANGED ingress
  <1>1. PICK p \in Handlers :
            HandlerStep(p) /\ DeleteSecret(p) /\ Key(p) = k /\ UNCHANGED ingresses
    BY SecretGoes
  <1>2. At(p, "unsecret")
    BY <1>1 DEF DeleteSecret
  <1>3. handler[p].req \in Requests /\ handler[p].req.op = "RemoveCertificate"
    BY <1>2 DEF AllTarget, Targets, Sound, Asked, At
  <1>4. \E q \in Handlers : Alone(q)'
    BY <1>1, <1>3 DEF Undisturbed, Key
  <1>5. Alone(p)
    BY <1>1, <1>4, AloneMoved DEF IInv
  <1> QED
    BY <1>1, <1>2, <1>5 DEF ingresses

-----------------------------------------------------------------------------
(* What a certificate request sees to before it goes on.                   *)

LEMMA OffClears ==
    ASSUME NEW p \in Handlers, handler'[p].pc \notin CertPCs
    PROVE  Clears(p)'
  BY DEF Clears, CertPCs, FoundPCs

\* The entries of the ingress that a certificate is held for only ever come to more in
\* AddTLS, and a request that goes on keeps what it found.
LEMMA OnClears ==
    ASSUME NEW p \in Handlers, Clears(p), handler'[p].req = handler[p].req,
           handler'[p].pc = "main" => handler[p].pc = "main",
           handler'[p].pc = "unsecret" => handler[p].pc = "unsecret",
           handler'[p].pc \in FoundPCs =>
                handler[p].pc \in FoundPCs /\ handler'[p].name = handler[p].name,
           LET n == CertificateHolder(Key(p)) IN
           Exists(ingress'[n]) =>
                /\ Exists(ingress[n]) /\ ingress'[n].app = ingress[n].app
                /\ ingress'[n].tls = ingress[n].tls
    PROVE  Clears(p)'
  <1> DEFINE n == CertificateHolder(Key(p))
  <1>1. Key(p)' = Key(p) /\ CertificateHolder(Key(p))' = n
    BY DEF Key, CertificateHolder
  <1>2. PICK k, h, g, o, i : /\ k = Key(p) /\ h = handler[p] /\ g = handler'[p]
                             /\ o = ingress[n] /\ i = ingress'[n]
    OBVIOUS
  <1>3. /\ h.pc = "main" /\ h.req.host \in CNames => ~(Exists(o) /\ o.app = k[1])
        /\ h.pc \in FoundPCs /\ h.name # n => ~(Exists(o) /\ o.app = k[1])
        /\ h.pc = "unsecret" /\ Exists(o) /\ o.app = k[1] => k[2] \notin ToSet(o.tls)
    BY <1>2 DEF Clears
  <1>4. /\ g.pc = "main" /\ g.req.host \in CNames => ~(Exists(i) /\ i.app = k[1])
        /\ g.pc \in FoundPCs /\ g.name # n => ~(Exists(i) /\ i.app = k[1])
        /\ g.pc = "unsecret" /\ Exists(i) /\ i.app = k[1] => k[2] \notin ToSet(i.tls)
    BY <1>2, <1>3
  <1> QED
    BY <1>1, <1>2, <1>4 DEF Clears

LEMMA EnvironmentClears ==
    ASSUME IInv, NEW p \in Handlers, Clears(p), Environment
    PROVE  Clears(p)'
  <1> DEFINE n == CertificateHolder(Key(p))
  <1>1. UNCHANGED handler
    BY EnvironmentMovesNone
  <1>2. CASE handler[p].pc \notin CertPCs
    BY <1>1, <1>2, OffClears
  <1>3. CASE handler[p].pc \in CertPCs
    <2>1. n \in Names
      BY <1>3 DEF IInv, Staged, StageOK, CertRequest, CertificateHolder, Key, Names
    <2>2. Exists(ingress'[n]) => /\ Exists(ingress[n]) /\ ingress'[n].app = ingress[n].app
                                 /\ ingress'[n].tls = ingress[n].tls
      BY <2>1, EnvironmentRemarks, RemarkedIs DEF IInv
    <2> QED
      BY <1>1, <2>2, OnClears
  <1> QED
    BY <1>2, <1>3

\* A host that RemoveCertificate drops is gone.
LEMMA DropTLSEntryDrops ==
    ASSUME NEW tls \in HostList, NEW host \in Hosts, ~RemovalPanics(tls, host)
    PROVE  host \notin ToSet(DropTLSEntry(tls, host))
  <1>1. PICK L \in Nat : L = Len(tls) /\ tls \in Seq(Hosts)
    BY DEF HostList
  <1>2. ASSUME NEW j \in 1..L, tls[j] = host
        PROVE  j = L
    <2>1. j \in DOMAIN tls
      BY <1>1
    <2>2. ~(j < L)
      BY <1>1, <1>2, <2>1 DEF RemovalPanics
    <2> QED
      BY <2>2
  <1>3. CASE tls # <<>> /\ tls[L] = host
    <2>1. PICK s : s = SubSeq(tls, 1, L - 1)
      OBVIOUS
    <2>2. PICK M : M = L - 1 /\ M \in Nat
      BY <1>1, <1>3
    <2>3. s \in Seq(Hosts) /\ Len(s) = M /\ \A j \in 1..M : s[j] = tls[j]
      BY <1>1, <2>1, <2>2
    <2>4. ASSUME NEW j \in 1..M, s[j] = host
          PROVE  FALSE
      <3>1. tls[j] = host
        BY <2>3, <2>4
      <3>2. j \in 1..L /\ j # L
        BY <2>2
      <3> QED
        BY <1>2, <3>1, <3>2
    <2>5. DropTLSEntry(tls, host) = s
      BY <1>1, <1>3, <2>1 DEF DropTLSEntry
    <2>6. ToSet(s) = {s[j] : j \in 1..M}
      BY <2>3 DEF ToSet
    <2> QED
      BY <2>4, <2>5, <2>6
  <1>4. CASE ~(tls # <<>> /\ tls[L] = host)
    <2>1. ASSUME NEW j \in 1..L, tls[j] = host
          PROVE  FALSE
      <3>1. j = L
        BY <1>2, <2>1
      <3> QED
        BY <1>1, <1>4, <2>1, <3>1
    <2>2. DropTLSEntry(tls, host) = tls
      BY <1>1, <1>4 DEF DropTLSEntry
    <2>3. ToSet(tls) = {tls[j] : j \in 1..L}
      BY <1>1 DEF ToSet
    <2> QED
      BY <2>1, <2>2, <2>3
  <1> QED
    BY <1>3, <1>4

LEMMA EndedClears ==
    ASSUME TypeOK, NEW p \in Handlers, NEW outcome \in Ends, End(p, outcome)
    PROVE  Clears(p)'
  <1>1. handler'[p].pc = outcome
    BY DEF TypeOK, End, Idle
  <1> QED
    BY <1>1, OffClears DEF Ends, CertPCs, FoundPCs

LEMMA TargetedClears ==
    ASSUME TypeOK, NEW p \in Handlers, NEW n, Targeted(p, n), UNCHANGED ingress,
           \/ n = CertificateHolder(Key(p))
           \/ LET i == ingress[CertificateHolder(Key(p))] IN
              ~(Exists(i) /\ i.app = handler[p].req.app)
    PROVE  Clears(p)'
  <1>0. handler \in [Handlers -> Handler] /\ handler[p] \in Handler
    BY DEF TypeOK
  <1>1. CASE End(p, "error") \/ End(p, "panic")
    BY <1>1, EndedClears DEF Ends
  <1>2. ASSUME NEW step \in {"mksecret", "untls"},
               handler' = [handler EXCEPT ![p] = [@ EXCEPT !.pc = step, !.name = n,
                                                          !.seen = ingress[n]]]
        PROVE  Clears(p)'
    <2>1. /\ handler'[p].pc = step /\ handler'[p].name = n
          /\ handler'[p].req = handler[p].req
      BY <1>0, <1>2 DEF Handler
    <2>2. Key(p)' = Key(p) /\ CertificateHolder(Key(p))' = CertificateHolder(Key(p))
      BY <2>1 DEF Key, CertificateHolder
    <2>3. Key(p)[1] = handler[p].req.app
      BY DEF Key
    <2> QED
      BY <1>2, <2>1, <2>2, <2>3 DEF Clears
  <1> QED
    BY <1>1, <1>2, TargetedIs

LEMMA FindClears ==
    ASSUME IInv, NEW p \in Handlers, Clears(p), FindTarget(p) \/ FindMain(p)
    PROVE  Clears(p)'
  <1> DEFINE h == handler[p]
             n == CertificateHolder(Key(p))
             mine == Exists(ingress[n]) /\ ingress[n].app = h.req.app
  <1>0. TypeOK /\ h \in Handler /\ handler \in [Handlers -> Handler] /\ UNCHANGED ingress
    BY DEF IInv, TypeOK, FindTarget, FindMain, cluster
  <1>1. Key(p)[1] = h.req.app /\ n = IF h.req.host \in CNames THEN h.req.host ELSE h.req.app
    BY DEF Key, CertificateHolder
  <1>2. CASE FindTarget(p)
    <2>1. CASE h.req.host \in CNames /\ Targeted(p, h.req.host)
      BY <1>0, <1>1, <2>1, TargetedClears
    <2>2. CASE /\ ~(/\ h.req.host \in CNames /\ Exists(ingress[h.req.host])
                    /\ ingress[h.req.host].app = h.req.app)
               /\ handler' = [handler EXCEPT ![p].pc = "main"]
      <3>1. handler'[p].pc = "main" /\ handler'[p].req = h.req
        BY <1>0, <2>2 DEF Handler
      <3>2. h.req.host \in CNames => ~mine
        BY <1>1, <2>2
      <3>3. Key(p)' = Key(p) /\ CertificateHolder(Key(p))' = n
        BY <3>1 DEF Key, CertificateHolder
      <3> QED
        BY <1>0, <1>1, <3>1, <3>2, <3>3 DEF Clears, FoundPCs
    <2> QED
      BY <1>2, <2>1, <2>2 DEF FindTarget
  <1>3. CASE FindMain(p)
    <2>1. CASE End(p, "error")
      BY <1>0, <2>1, EndedClears DEF Ends
    <2>2. CASE Targeted(p, h.req.app)
      <3>1. h.req.host \in CNames => ~mine
        BY <1>1, <1>3 DEF FindMain, At, Clears
      <3> QED
        BY <1>0, <1>1, <2>2, <3>1, TargetedClears
    <2> QED
      BY <1>3, <2>1, <2>2 DEF FindMain
  <1> QED
    BY <1>2, <1>3

LEMMA RemoveTLSClears ==
    ASSUME IInv, AllTarget, NEW p \in Handlers, Clears(p), RemoveTLS(p)
    PROVE  Clears(p)'
  <1> DEFINE h == handler[p]
             n == CertificateHolder(Key(p))
             mine == Exists(ingress[n]) /\ ingress[n].app = h.req.app
  <1>0. TypeOK /\ h \in Handler /\ handler \in [Handlers -> Handler]
    BY DEF IInv, TypeOK
  <1>1. h.pc \in FoundPCs /\ h.pc = "untls" /\ Targets(p)
    BY DEF RemoveTLS, At, FoundPCs, AllTarget
  <1>2. CASE Refused(p)
    BY <1>0, <1>2, EndedClears DEF Refused, Ends
  <1>3. CASE ~Refused(p)
    <2>1. /\ Accepts(ingress[h.name], h.seen.rv)
          /\ EditIngress(h.name, [h.seen EXCEPT !.tls = DropTLSEntry(@, h.req.host)])
          /\ handler' = [handler EXCEPT ![p].pc = "unsecret"]
      BY <1>3 DEF RemoveTLS
    <2>2. /\ handler'[p].pc = "unsecret" /\ handler'[p].name = h.name
          /\ handler'[p].req = h.req
      BY <1>0, <2>1 DEF Handler
    <2>3. Key(p)' = Key(p) /\ CertificateHolder(Key(p))' = n /\ Key(p)[1] = h.req.app
      BY <2>2 DEF Key, CertificateHolder
    <2>4. Exists(h.seen) /\ h.seen \in Ingress /\ h.name \in Names /\ h.req.host \in Hosts
      BY <1>1, KeyType, NilAssumption DEF IInv, Exists
    <2>5. ingress[h.name] = h.seen
      BY <2>1, <2>4, AcceptedIsSeen
    <2>6. CASE h.name # n
      <3>1. ~mine
        BY <1>1, <2>3, <2>6 DEF Clears
      <3>2. n \in Names
        BY <1>1 DEF IInv, Staged, StageOK, CertPCs, CertRequest, CertificateHolder, Key, Names
      <3>3. ingress'[n] = ingress[n]
        BY <1>0, <2>1, <2>4, <2>6, <3>2, EditStores
      <3> QED
        BY <2>2, <2>3, <2>6, <3>1, <3>3 DEF Clears
    <2>7. CASE h.name = n
      <3>1. ~RemovalPanics(h.seen.tls, h.req.host) /\ h.seen.tls \in HostList
        BY <1>1, <2>4 DEF Targets, Ingress
      <3>2. /\ Retouched(n, DropTLSEntry(h.seen.tls, h.req.host))
            /\ DropTLSEntry(h.seen.tls, h.req.host) \in HostList
        BY <1>0, <2>1, <2>4, <2>5, <2>7, <3>1, EditStores, DropTLSEntryType DEF Retouched
      <3>3. ingress'[n].tls = DropTLSEntry(h.seen.tls, h.req.host)
        BY <1>0, <2>4, <2>5, <2>7, <3>2, RetouchedIs
      <3>4. h.req.host \notin ToSet(ingress'[n].tls)
        BY <2>4, <3>1, <3>3, DropTLSEntryDrops
      <3>5. Key(p)[2] = h.req.host
        BY DEF Key
      <3> QED
        BY <2>2, <2>3, <2>7, <3>4, <3>5 DEF Clears
    <2> QED
      BY <2>6, <2>7
  <1> QED
    BY <1>2, <1>3

LEMMA HandlerClears ==
    ASSUME IInv, AllTarget, NEW p \in Handlers, Clears(p), HandlerStep(p)
    PROVE  Clears(p)'
  <1> DEFINE h == handler[p]
             g == handler'[p]
  <1>0. TypeOK /\ h \in Handler /\ handler \in [Handlers -> Handler]
    BY DEF IInv, TypeOK
  <1>1. ASSUME NEW outcome \in Ends, End(p, outcome)
        PROVE  Clears(p)'
    BY <1>0, <1>1, EndedClears
  <1>2. ASSUME NEW step, handler' = [handler EXCEPT ![p].pc = step], step \notin CertPCs
        PROVE  Clears(p)'
    <2>1. g.pc = step
      BY <1>0, <1>2 DEF Handler
    <2> QED
      BY <1>2, <2>1, OffClears
  <1>3. ASSUME NEW step \in AddPCs, NEW rv, h.pc \in AddPCs, UNCHANGED ingress,
               \/ handler' = [handler EXCEPT ![p].pc = step]
               \/ handler' = [handler EXCEPT ![p] = [@ EXCEPT !.pc = step, !.secretRV = rv]]
        PROVE  Clears(p)'
    <2>1. g.pc = step /\ g.req = h.req /\ g.name = h.name
      BY <1>0, <1>3 DEF Handler
    <2> QED
      BY <1>3, <2>1, OnClears DEF AddPCs, FoundPCs
  <1>4. CASE Receive(p)
    <2>1. PICK r \in Requests :
            handler' = [handler EXCEPT ![p] = [Idle EXCEPT !.pc = FirstStep(r.op), !.req = r]]
      BY <1>4 DEF Receive
    <2>2. g.pc \in {"get", "delete", "target"}
      BY <1>0, <2>1 DEF Idle, FirstStep
    <2> QED
      BY <2>2 DEF Clears, FoundPCs
  <1>5. CASE EnsureStep(p)
    BY <1>5, EnsureOff, OffClears
  <1>6. CASE RemoveMain(p)
    BY <1>2, <1>6 DEF RemoveMain, CertPCs, FoundPCs
  <1>7. CASE Fail(p) \/ Return(p)
    BY <1>1, <1>7 DEF Fail, Return, Ends
  <1>8. CASE FindTarget(p) \/ FindMain(p)
    BY <1>8, FindClears
  <1>9. CASE CreateSecret(p) \/ GetSecret(p) \/ UpdateSecret(p)
    <2>1. h.pc \in AddPCs /\ UNCHANGED ingress
      BY <1>9 DEF CreateSecret, GetSecret, UpdateSecret, Refused, At, AddPCs, ingresses, cluster
    <2>2. \/ End(p, "error")
          \/ \E step \in AddPCs, rv \in Nat :
                \/ handler' = [handler EXCEPT ![p].pc = step]
                \/ handler' = [handler EXCEPT ![p] = [@ EXCEPT !.pc = step, !.secretRV = rv]]
      <3>1. h.pc \in FoundPCs
        BY <2>1 DEF AddPCs, FoundPCs
      <3>2. secret[Key(p)] \in Nat
        BY <1>0, <3>1, KeyType DEF IInv, TypeOK
      <3> QED
        BY <1>9, <3>2 DEF CreateSecret, GetSecret, UpdateSecret, Refused, AddPCs
    <2> QED
      BY <1>1, <1>3, <2>1, <2>2 DEF Ends
  <1>10. CASE AddTLS(p) \/ DeleteSecret(p)
    BY <1>1, <1>2, <1>10 DEF AddTLS, DeleteSecret, Refused, Ends, CertPCs, FoundPCs
  <1>11. CASE RemoveTLS(p)
    BY <1>11, RemoveTLSClears
  <1> QED
    BY <1>4, <1>5, <1>6, <1>7, <1>8, <1>9, <1>10, <1>11 DEF HandlerStep, CertificateStep

\* A request comes to write its entry by writing the Secret.
LEMMA ReachesAddTLS ==
    ASSUME IInv, NEW p \in Handlers, HandlerStep(p), ~At(p, "addtls"), At(p, "addtls")'
    PROVE  secret'[Key(p)'] # 0
  <1> DEFINE h == handler[p]
             g == handler'[p]
  <1>0. /\ TypeOK /\ h \in Handler /\ handler \in [Handlers -> Handler]
        /\ g.pc = "addtls"
    BY DEF IInv, TypeOK, At
  <1>1. ASSUME NEW step, handler' = [handler EXCEPT ![p].pc = step], step # "addtls"
        PROVE  FALSE
    BY <1>0, <1>1 DEF Handler
  <1>2. ASSUME NEW outcome \in Ends, End(p, outcome)
        PROVE  FALSE
    BY <1>0, <1>2 DEF End, Idle, Ends
  <1>3. ASSUME NEW n, Targeted(p, n)
        PROVE  FALSE
    <2>1. ASSUME NEW step \in {"mksecret", "untls"},
                 handler' = [handler EXCEPT ![p] = [@ EXCEPT !.pc = step, !.name = n,
                                                            !.seen = ingress[n]]]
          PROVE  FALSE
      BY <1>0, <2>1 DEF Handler
    <2> QED
      BY <1>2, <1>3, <2>1, TargetedIs DEF Ends
  <1>4. CASE CreateSecret(p) \/ UpdateSecret(p)
    <2>1. h.pc \in FoundPCs
      BY <1>4 DEF CreateSecret, UpdateSecret, At, FoundPCs
    <2>2. Key(p) \in SecretKeys
      BY <2>1, KeyType DEF IInv
    <2>3. \/ handler' = [handler EXCEPT ![p].pc = "addtls"]
          \/ handler' = [handler EXCEPT ![p] = [@ EXCEPT !.pc = "addtls", !.secretRV = 0]]
      BY <1>1, <1>2, <1>4 DEF CreateSecret, UpdateSecret, Refused, Ends
    <2>4. WriteSecret(Key(p))
      BY <1>1, <1>2, <1>4 DEF CreateSecret, UpdateSecret, Refused, Ends
    <2>5. Key(p)' = Key(p)
      BY <1>0, <2>3 DEF Key, Handler
    <2>6. secret'[Key(p)] = secretVersion[Key(p)] + 1 /\ secretVersion[Key(p)] \in Nat
      BY <1>0, <2>2, <2>4 DEF WriteSecret, TypeOK
    <2> QED
      BY <2>5, <2>6
  <1>5. CASE Receive(p)
    <2>1. PICK r \in Requests :
            handler' = [handler EXCEPT ![p] = [Idle EXCEPT !.pc = FirstStep(r.op), !.req = r]]
      BY <1>5 DEF Receive
    <2> QED
      BY <1>0, <2>1 DEF Idle, FirstStep
  <1>6. CASE EnsureStep(p)
    BY <1>0, <1>6, EnsureOff DEF CertPCs, FoundPCs
  <1>7. CASE RemoveMain(p) \/ Fail(p) \/ Return(p)
    BY <1>1, <1>2, <1>7 DEF RemoveMain, Fail, Return, Ends
  <1>8. CASE FindTarget(p) \/ FindMain(p)
    BY <1>1, <1>2, <1>3, <1>8 DEF FindTarget, FindMain, Ends
  <1>9. CASE GetSecret(p)
    <2>1. CASE handler' = [handler EXCEPT ![p] =
                    [@ EXCEPT !.pc = "putsecret", !.secretRV = secret[Key(p)]]]
      BY <1>0, <2>1 DEF Handler
    <2> QED
      BY <1>2, <1>9, <2>1 DEF GetSecret, Ends
  <1>10. CASE AddTLS(p) \/ RemoveTLS(p) \/ DeleteSecret(p)
    BY <1>1, <1>2, <1>10 DEF AddTLS, RemoveTLS, DeleteSecret, Refused, Ends
  <1> QED
    BY <1>4, <1>5, <1>6, <1>7, <1>8, <1>9, <1>10 DEF HandlerStep, CertificateStep

LEMMA StaysSecured ==
    ASSUME IInv, Sound, AllTarget, AllSecured, [Next]_vars, NEW p \in Handlers
    PROVE  Secured(p)'
  <1> SUFFICES ASSUME NEW k, k = Key(p)', At(p, "addtls")', Undisturbed(k)'
               PROVE  secret'[k] # 0
    BY DEF Secured, Undisturbed
  <1>0. TypeOK
    BY DEF IInv
  <1>1. CASE At(p, "addtls")
    <2>1. Key(p)' = Key(p)
      <3>1. CASE handler'[p] = handler[p]
        BY <3>1 DEF Key
      <3>2. ASSUME NEW q \in Handlers, HandlerStep(q), handler'[p] # handler[p]
            PROVE  FALSE
        <4>1. HandlerStep(p)
          BY <1>0, <3>2, OneMoves
        <4>2. ~EnsureStep(p)
          BY <4>1, EnsureOff DEF At, CertPCs, FoundPCs
        <4>3. /\ ~Receive(p) /\ ~Return(p) /\ ~RemoveMain(p) /\ ~FindTarget(p) /\ ~FindMain(p)
              /\ ~CreateSecret(p) /\ ~GetSecret(p) /\ ~UpdateSecret(p) /\ ~RemoveTLS(p)
              /\ ~DeleteSecret(p)
          BY <1>1 DEF Receive, Return, RemoveMain, FindTarget, FindMain, CreateSecret, GetSecret,
             UpdateSecret, RemoveTLS, DeleteSecret, At, Ends
        <4>4. handler'[p].pc # "addtls"
          BY <1>0, <1>1, <4>1, <4>2, <4>3 DEF HandlerStep, CertificateStep, Fail, AddTLS, Refused,
             End, Idle, TypeOK, Handler
        <4> QED
          BY <4>4 DEF At
      <3> QED
        BY <3>1, <3>2, EnvironmentMovesNone DEF Next, vars
    <2>2. k \in SecretKeys /\ k = Key(p)
      BY <1>1, <2>1, KeyType DEF IInv, At, FoundPCs
    <2>3. secret[k] # 0
      BY <1>0, <1>1, <2>2, UndisturbedBefore DEF AllSecured, Secured
    <2>4. ASSUME secret'[k] = 0
          PROVE  FALSE
      <3>1. PICK q \in Handlers : Alone(q) /\ At(q, "unsecret")
        BY <2>2, <2>3, <2>4, SecretsStay
      <3> QED
        BY <1>1, <3>1 DEF Alone, At
    <2> QED
      BY <2>4
  <1>2. CASE ~At(p, "addtls")
    <2>1. CASE handler'[p] = handler[p]
      BY <1>2, <2>1 DEF At
    <2>2. ASSUME NEW q \in Handlers, HandlerStep(q), handler'[p] # handler[p]
          PROVE  secret'[k] # 0
      BY <1>0, <1>2, <2>2, OneMoves, ReachesAddTLS
    <2> QED
      BY <2>1, <2>2, EnvironmentMovesNone DEF Next, vars
  <1> QED
    BY <1>1, <1>2

LEMMA StaysAllSecured ==
    ASSUME IInv, Sound, AllTarget, AllSecured, [Next]_vars
    PROVE  AllSecured'
  <1>1. ASSUME NEW p \in Handlers, Alone(p)'
        PROVE  Clears(p)'
    <2>1. CASE UNCHANGED <<handler, ingress>>
      BY <1>1, <2>1 DEF AllSecured, Clears, Alone, At, Key, CertificateHolder, Exists
    <2>2. CASE Environment
      BY <1>1, <2>2, EnvironmentMovesNone, EnvironmentClears DEF AllSecured, Alone, At
    <2>3. ASSUME NEW q \in Handlers, HandlerStep(q)
          PROVE  Clears(p)'
      BY <1>1, <2>3, AloneMoved, HandlerClears DEF AllSecured, IInv
    <2> QED
      BY <2>1, <2>2, <2>3 DEF Next, vars, cluster
  <1> QED
    BY <1>1, StaysSecured DEF AllSecured

LEMMA StaysBacked ==
    ASSUME IInv, Sound, AllTarget, AskedFor, AllSecured, TLSHasSecret, [Next]_vars
    PROVE  TLSHasSecret'
  <1>0. TypeOK
    BY DEF IInv
  <1> SUFFICES ASSUME NEW n \in Names, Exists(ingress'[n]), ~ingress'[n].issuer, ByHand(n),
                      NEW host \in ToSet(ingress'[n].tls),
                      NEW k, k = <<ingress'[n].app, host>>, Undisturbed(k)'
               PROVE  secret'[k] # 0
    BY DEF TLSHasSecret, Undisturbed, ByHand, EnsuresOf
  <1>1. Undisturbed(k)
    BY <1>0, UndisturbedBefore
  <1>2. ASSUME NEW p \in Handlers, AddTLS(p), Key(p) = k
        PROVE  secret'[k] # 0
    <2>1. secret[k] # 0
      BY <1>1, <1>2 DEF AddTLS, AllSecured, Secured
    <2> QED
      BY <1>2, <2>1 DEF AddTLS, Refused, secrets, cluster
  <1>3. CASE /\ Exists(ingress[n]) /\ ~ingress[n].issuer /\ ingress[n].app = ingress'[n].app
             /\ host \in ToSet(ingress[n].tls)
    <2>1. secret[k] # 0
      BY <1>1, <1>3 DEF TLSHasSecret
    <2>2. PICK i \in Ingress : i = ingress[n]
      BY <1>0, <1>3, ViewsAt
    <2>3. i.app \in Apps /\ host \in Hosts
      BY <1>3, <2>2 DEF Ingress, HostList, ToSet
    <2>4. k \in SecretKeys
      BY <1>3, <2>2, <2>3 DEF SecretKeys
    <2>5. host \in HostsOf(n) /\ (n \in Apps => i.app = n)
      BY <1>3, <2>2 DEF Sound, AllProper, Proper
    <2>6. CertificateHolder(k) = n
      BY <1>3, <2>2, <2>5, NamesAssumption DEF CertificateHolder, HostsOf, Names
    <2>7. ASSUME secret'[k] = 0
          PROVE  FALSE
      <3>1. PICK p \in Handlers : Alone(p) /\ At(p, "unsecret") /\ Key(p) = k
        BY <2>1, <2>4, <2>7, SecretsStay
      <3>2. k[1] = ingress[n].app /\ k[2] = host
        BY <1>3
      <3> QED
        BY <1>3, <2>6, <3>1, <3>2 DEF AllSecured, Clears, At
    <2> QED
      BY <2>7
  <1> QED
    BY <1>2, <1>3, EntryOrigin

LEMMA SecretsInit == Init => AskedFor /\ AllSecured /\ TLSHasSecret
  <1> SUFFICES ASSUME Init
               PROVE  AskedFor /\ AllSecured /\ TLSHasSecret
    OBVIOUS
  <1>1. \A n \in Names : ~Exists(ingress[n])
    BY DEF Init, Exists
  <1>2. \A p \in Handlers : handler[p].pc = "idle"
    BY DEF Init, Idle
  <1> QED
    BY <1>1, <1>2 DEF AskedFor, AllSecured, Secured, Clears, At, FoundPCs, TLSHasSecret

\* A TLS entry of an ingress whose entries are all added by hand names a Secret that is
\* there, at every moment and wherever requests stop; also with other requests under way,
\* unless one is a RemoveCertificate for that host (AddCertificate writes the Secret before
\* the entry, RemoveCertificate drops the entry before the Secret).
THEOREM EntriesHaveSecrets == Spec => []TLSHasSecret
  <1> DEFINE Inv == AskedFor /\ AllSecured /\ TLSHasSecret
             Known == IInv /\ Sound /\ AllTarget
  <1>1. Known /\ Inv /\ [Next]_vars => Inv'
    BY StaysAskedFor, StaysAllSecured, StaysBacked
  <1>2. Spec => []Known
    BY SerialInvariantHolds, TargetsHold, PTL DEF IInvSerial
  <1> HIDE DEF Known
  <1>3. Inv => TLSHasSecret
    OBVIOUS
  <1> QED
    BY <1>1, <1>2, <1>3, SecretsInit, PTL DEF Spec

-----------------------------------------------------------------------------
(* The Certificates of CNames.                                             *)

\* Only apps that ask for a CName get a Certificate for it.
CertificatesAsked ==
    \A a \in Apps, c \in CNames :
        certificate[<<a, c>>] # 0 => \E r \in EnsuresOf(c) : r.app = a

LEMMA StaysCertificatesAsked ==
    ASSUME IInv, Sound, AskedFor, CertificatesAsked, [Next]_vars
    PROVE  CertificatesAsked'
  <1> SUFFICES ASSUME NEW a \in Apps, NEW c \in CNames, certificate'[<<a, c>>] # 0
               PROVE  \E r \in EnsuresOf(c) : r.app = a
    BY DEF CertificatesAsked, EnsuresOf
  <1>1. CASE certificate'[<<a, c>>] = certificate[<<a, c>>]
    BY <1>1 DEF CertificatesAsked
  <1>2. CASE certificate'[<<a, c>>] # certificate[<<a, c>>]
    <2>1. Exists(ingress[c]) /\ ingress[c].app = a
      BY <1>2, CertificateChanges DEF IInv
    <2>2. c \in Names
      BY DEF Names
    <2> QED
      BY <2>1, <2>2 DEF AskedFor, AskedIngress
  <1> QED
    BY <1>1, <1>2

\* After a successful Ensure that left a CName without TLS, the app has no Certificate for
\* the ingress of that CName, even when an earlier Ensure took the TLS away and failed
\* before it deleted the Certificate (ensureCertmanagerCertificateDeleted); and another app
\* has one only if it asks for the CName too, and so had it taken over.
THEOREM NoCertificateStrays == Spec => []NoStrayCertificate
  <1> DEFINE Known == IInvSerial /\ AskedFor
  <1>1. Known /\ CertificatesAsked => NoStrayCertificate
    <2> SUFFICES ASSUME Known, CertificatesAsked,
                        NEW p \in Handlers, Applied(p), MainStands(p),
                        NEW c \in handler[p].req.cnames \ Freezable,
                        Exists(ingress[c]), ingress[c].tls = <<>>,
                        NEW a \in Apps, certificate[<<a, c>>] = ingress[c].uid
                 PROVE  a # handler[p].req.app /\ \E r \in EnsuresOf(c) : r.app = a
      BY DEF NoStrayCertificate
    <2>1. a # handler[p].req.app
      BY AppliedStage DEF Attaches, Fulfilled
    <2>2. c \in CNames /\ c \in Names
      <3>1. handler[p].req.cnames \subseteq CNames
        BY AppliedStage, RequestsAssumption
        DEF RequestType, EnsureRequest, RemoveRequest, CertRequest
      <3> QED
        BY <3>1 DEF Names
    <2>3. 0 < ingress[c].uid
      BY <2>2 DEF IInvSerial, Sound, AllProper, Proper
    <2> QED
      BY <2>1, <2>2, <2>3 DEF CertificatesAsked
  <1>2. Known /\ CertificatesAsked /\ [Next]_vars => CertificatesAsked'
    BY StaysCertificatesAsked DEF IInvSerial
  <1>3. Init => CertificatesAsked
    BY DEF Init, CertificatesAsked, SecretKeys, Hosts
  <1>4. Spec => []Known
    <2>1. Spec => []AskedFor
      <3> DEFINE Base == IInv /\ Sound /\ AllTarget
      <3>1. Spec => []Base
        BY SerialInvariantHolds, TargetsHold, PTL DEF IInvSerial
      <3>2. Base /\ AskedFor /\ [Next]_vars => AskedFor'
        BY StaysAskedFor
      <3>3. Init => AskedFor
        BY SecretsInit
      <3> HIDE DEF Base
      <3> QED
        BY <3>1, <3>2, <3>3, PTL DEF Spec
    <2> QED
      BY <2>1, SerialInvariantHolds, PTL
  <1> HIDE DEF Known
  <1> QED
    BY <1>1, <1>2, <1>3, <1>4, PTL DEF Spec

-----------------------------------------------------------------------------
(* Removal of an entry that is not the last one.                           *)

\* No Ensure asks for two hosts of an app.
OneHostEach == \A r \in Requests : r.op = "Ensure" => \A h, g \in r.hosts : h = g

\* An ingress serves TLS for hosts it has rules for only, and has one rule at most.
Single(i) ==
    /\ ToSet(i.tls) \subseteq ToSet(i.rules)
    /\ \A h, g \in ToSet(i.rules) : h = g

AllSingle == \A n \in Names : Exists(ingress[n]) => Single(ingress[n])

LEMMA SentSingle ==
    ASSUME OneHostEach, NEW n \in Names, NEW m, Sent(n, m)
    PROVE  Single(m)
  <1>1. PICK r \in EnsuresOf(n) :
            IF n = r.app THEN \E rules \in RuleOrders(r.hosts) : m = MainIngress(r, rules)
            ELSE \E parent \in Nat : m = CNameIngress(r, n, parent)
    BY DEF Sent
  <1>2. /\ r \in EnsureRequest /\ (n # r.app => n \in CNames)
        /\ \A h, g \in r.hosts : h = g
    BY RequestsAssumption
       DEF OneHostEach, EnsuresOf, RequestType, RemoveRequest, CertRequest, EnsureRequest
  <1>3. ToSet(<<>>) = {}
    BY DEF ToSet
  <1>4. CASE n = r.app
    <2>1. PICK rules \in RuleOrders(r.hosts) : m = MainIngress(r, rules)
      BY <1>1, <1>4
    <2>2. r.hosts \in SUBSET Hosts /\ IsFiniteSet(r.hosts)
      BY <1>2, NamesAssumption, FS_Subset DEF EnsureRequest
    <2>3. ToSet(rules) \subseteq r.hosts
      BY <2>2, FS_CardinalityType DEF RuleOrders, SetToSeqs, ToSet
    <2>4. m.rules = rules /\ (m.tls = rules \/ m.tls = <<>>)
      BY <2>1 DEF MainIngress, FillIngressTLS
    <2> QED
      BY <1>2, <1>3, <2>3, <2>4 DEF Single
  <1>5. CASE n # r.app
    <2>1. PICK parent \in Nat : m = CNameIngress(r, n, parent)
      BY <1>1, <1>5
    <2>2. m.rules = <<n>> /\ (m.tls = <<n>> \/ m.tls = <<>>)
      BY <2>1 DEF CNameIngress, FillIngressTLS
    <2>3. ToSet(<<n>>) = {n}
      BY DEF ToSet
    <2> QED
      BY <1>3, <2>2, <2>3 DEF Single
  <1> QED
    BY <1>4, <1>5

LEMMA SameSingle ==
    ASSUME NEW o, NEW i, Single(o), i.rules = o.rules,
           ToSet(i.tls) \subseteq ToSet(o.tls) \cup ToSet(o.rules)
    PROVE  Single(i)
  BY DEF Single

LEMMA StaysSingle ==
    ASSUME OneHostEach, IInv, Sound, AllTarget, AllSingle, [Next]_vars
    PROVE  AllSingle'
  <1>0. TypeOK
    BY DEF IInv
  <1> SUFFICES ASSUME NEW n \in Names, Exists(ingress'[n])
               PROVE  Single(ingress'[n])
    BY DEF AllSingle, Single
  <1>1. CASE ingress'[n] = ingress[n]
    BY <1>1 DEF AllSingle
  <1>2. CASE Exists(ingress[n]) /\ Remarked(n)
    BY <1>0, <1>2, RemarkedIs, SameSingle DEF AllSingle
  <1>3. ASSUME NEW p \in Handlers, Writing(p, n)
        PROVE  Single(ingress'[n])
    <2>1. ASSUME ~Exists(ingress[n]), NEW m, Sent(n, m), ingress'[n] = Created(m, version[n] + 1)
          PROVE  Single(ingress'[n])
      <3>1. m \in Ingress /\ version[n] + 1 \in Nat
        BY <1>0, <2>1, SentIs DEF TypeOK
      <3>2. ingress'[n].rules = m.rules /\ ingress'[n].tls = m.tls
        BY <2>1, <3>1, CreatedIs
      <3> QED
        BY <2>1, <3>2, SentSingle, SameSingle
    <2>2. ASSUME Exists(ingress[n]), NEW m, Sent(n, m), Updated(n, m)
          PROVE  Single(ingress'[n])
      <3>1. ingress'[n].rules = m.rules /\ ingress'[n].tls \in {m.rules, m.tls}
        BY <1>0, <2>2, UpdatedIs
      <3> QED
        BY <2>2, <3>1, SentSingle, SameSingle
    <2>3. CASE /\ AddTLS(p) /\ ingress[n] = handler[p].seen /\ Exists(ingress[n])
               /\ Retouched(n, AddTLSEntry(ingress[n].tls, handler[p].req.host))
      <3>1. handler[p].pc = "addtls" /\ Targets(p)
        BY <2>3 DEF AddTLS, At, AllTarget
      <3> QED
        BY <1>0, <2>3, <3>1, EntriesOf, RetouchedIs, SameSingle DEF AllSingle
    <2>4. CASE /\ RemoveTLS(p) /\ ingress[n] = handler[p].seen /\ Exists(ingress[n])
               /\ Retouched(n, DropTLSEntry(ingress[n].tls, handler[p].req.host))
      <3>1. handler[p].pc = "untls" /\ Targets(p)
        BY <2>4 DEF RemoveTLS, At, AllTarget
      <3> QED
        BY <1>0, <2>4, <3>1, EntriesOf, RetouchedIs, SameSingle DEF AllSingle
    <2> QED
      BY <1>2, <1>3, <2>1, <2>2, <2>3, <2>4 DEF Writing
  <1> QED
    BY <1>1, <1>2, <1>3, WriteKinds

\* With one rule there is one entry at most, and it is the last one.
LEMMA SingleEntry ==
    ASSUME NEW i \in Ingress, Single(i), NEW host
    PROVE  ~RemovalPanics(i.tls, host)
  <1>1. PICK L \in Nat, tls \in HostList : tls = i.tls /\ L = Len(tls) /\ tls \in Seq(Hosts)
    BY DEF Ingress, HostList
  <1>2. DOMAIN tls = 1..L
    BY <1>1
  <1>3. \A j, k \in DOMAIN tls : j = k
    <2>1. \A j, k \in DOMAIN tls : tls[j] = tls[k]
      BY <1>1 DEF Single, ToSet
    <2> QED
      BY <2>1 DEF HostList, IsInjective
  <1>4. SUFFICES ASSUME NEW k \in 1..L, k < L
                 PROVE  FALSE
    BY <1>1, <1>2 DEF RemovalPanics
  <1>5. k \in 1..L /\ L \in 1..L /\ k # L
    BY <1>4
  <1>6. k \in DOMAIN tls /\ L \in DOMAIN tls
    BY <1>2, <1>5
  <1> QED
    BY <1>3, <1>5, <1>6

\* A request panics where it finds an ingress with an entry for its host before the last.
LEMMA ReachesPanic ==
    ASSUME IInv, AllSingle, NEW p \in Handlers, HandlerStep(p), ~At(p, "panic")
    PROVE  ~At(p, "panic")'
  <1> DEFINE h == handler[p]
             g == handler'[p]
  <1> SUFFICES ASSUME g.pc = "panic"
               PROVE  FALSE
    BY DEF At
  <1>0. TypeOK /\ h \in Handler /\ handler \in [Handlers -> Handler]
    BY DEF IInv, TypeOK
  <1>1. ASSUME NEW step, handler' = [handler EXCEPT ![p].pc = step], step # "panic"
        PROVE  FALSE
    BY <1>0, <1>1 DEF Handler
  <1>2. ASSUME NEW outcome, outcome # "panic", End(p, outcome)
        PROVE  FALSE
    BY <1>0, <1>2 DEF End, Idle
  <1>3. ASSUME NEW step \in {"mksecret", "untls"}, NEW n, NEW o,
               handler' = [handler EXCEPT ![p] = [@ EXCEPT !.pc = step, !.name = n, !.seen = o]]
        PROVE  FALSE
    BY <1>0, <1>3 DEF Handler
  <1>4. ASSUME NEW n \in Names, Exists(ingress[n]), Targeted(p, n)
        PROVE  FALSE
    <2>1. ~RemovalPanics(ingress[n].tls, h.req.host)
      BY <1>0, <1>4, ViewsAt, SingleEntry DEF AllSingle
    <2> QED
      BY <1>2, <1>3, <1>4, <2>1 DEF Targeted
  <1>5. CASE FindTarget(p) \/ FindMain(p)
    <2>1. h.req.app \in Names
      BY <1>5 DEF IInv, Staged, StageOK, CertPCs, CertRequest, FindTarget, FindMain, At, Names
    <2> QED
      BY <1>1, <1>2, <1>4, <1>5, <2>1 DEF FindTarget, FindMain, Names
  <1>6. CASE Receive(p)
    <2>1. PICK r \in Requests :
            handler' = [handler EXCEPT ![p] = [Idle EXCEPT !.pc = FirstStep(r.op), !.req = r]]
      BY <1>6 DEF Receive
    <2> QED
      BY <1>0, <2>1 DEF Idle, FirstStep
  <1>7. CASE GetSecret(p) \/ UpdateSecret(p)
    <2>1. ASSUME NEW step \in {"putsecret", "addtls"}, NEW rv,
                 handler' = [handler EXCEPT ![p] = [@ EXCEPT !.pc = step, !.secretRV = rv]]
          PROVE  FALSE
      BY <1>0, <2>1 DEF Handler
    <2> QED
      BY <1>2, <1>7, <2>1 DEF GetSecret, UpdateSecret, Refused
  <1>8. CASE EnsureGet(p) \/ CNameGet(p)
    <2>1. ASSUME NEW step \in {"put", "cput"}, NEW n, NEW o,
                 handler' = [handler EXCEPT ![p] = [@ EXCEPT !.pc = step, !.name = n, !.seen = o]]
          PROVE  FALSE
      BY <1>0, <2>1 DEF Handler
    <2>2. ASSUME NEW c, handler' = [handler EXCEPT ![p].todo = @ \ {c}]
          PROVE  g.pc = h.pc
      BY <1>0, <2>2 DEF Handler
    <2> QED
      BY <1>1, <1>8, <2>1, <2>2 DEF EnsureGet, CNameGet, At
  <1>9. CASE CNameRemove(p)
    BY <1>0, <1>9 DEF CNameRemove, At, Handler
  <1>10. CASE EnsureCreate(p) \/ EnsureUpdate(p)
    BY <1>0, <1>2, <1>10 DEF EnsureCreate, EnsureUpdate, GoToCNames, Idle, Refused
  <1>11. CASE CNameCreate(p) \/ CNameUpdate(p) \/ CNameDeleteCertificate(p)
    <2>1. ~NextCName(p)
      BY <1>0 DEF NextCName, Handler
    <2> QED
      BY <1>1, <1>2, <1>11, <2>1
         DEF CNameCreate, CNameUpdate, CNameDeleteCertificate, AfterCNamePut, Refused
  <1>12. CASE EnsureDone(p) \/ Fail(p) \/ Return(p) \/ RemoveMain(p)
    BY <1>1, <1>2, <1>12 DEF EnsureDone, Fail, Return, RemoveMain
  <1>13. CASE CreateSecret(p) \/ AddTLS(p) \/ RemoveTLS(p) \/ DeleteSecret(p)
    BY <1>1, <1>2, <1>13 DEF CreateSecret, AddTLS, RemoveTLS, DeleteSecret, Refused
  <1> QED
    BY <1>5, <1>6, <1>7, <1>8, <1>9, <1>10, <1>11, <1>12, <1>13
       DEF HandlerStep, EnsureStep, CertificateStep

\* Where no Ensure asks for two hosts, RemoveCertificate does not crash: its loop runs past
\* the end of the entries only when there is one after the entry it removes, and no Ensure,
\* whatever came before it, leaves more entries than rules (ingress.go RemoveCertificate,
\* mergeIngressAndUpdate).
THEOREM OneHostNeverPanics ==
    ASSUME OneHostEach
    PROVE  Spec => []NeverPanics
  <1>1. Init => AllSingle /\ NeverPanics
    BY DEF Init, AllSingle, NeverPanics, Exists, At, Idle
  <1>2. IInvSerial /\ AllTarget /\ AllSingle /\ NeverPanics /\ [Next]_vars
            => AllSingle' /\ NeverPanics'
    <2> SUFFICES ASSUME IInv, Sound, AllTarget, AllSingle, NeverPanics, [Next]_vars
                 PROVE  AllSingle' /\ NeverPanics'
      BY DEF IInvSerial
    <2>1. AllSingle'
      BY StaysSingle
    <2>2. ASSUME NEW p \in Handlers
          PROVE  ~At(p, "panic")'
      <3>1. CASE handler'[p] = handler[p]
        BY <3>1 DEF NeverPanics, At
      <3>2. ASSUME NEW q \in Handlers, HandlerStep(q)
            PROVE  ~At(p, "panic")'
        BY <3>1, <3>2, OneMoves, ReachesPanic DEF NeverPanics, IInv
      <3> QED
        BY <3>1, <3>2, EnvironmentMovesNone DEF Next, vars
    <2> QED
      BY <2>1, <2>2 DEF NeverPanics
  <1> QED
    BY <1>1, <1>2, SerialInvariantHolds, TargetsHold, PTL DEF Spec
=============================================================================
