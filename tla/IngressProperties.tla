-------------------------- MODULE IngressProperties --------------------------
(***************************************************************************)
(* What the ingress backend promises, stated over IngressService.          *)
(***************************************************************************)
EXTENDS IngressService

Busy(p) == handler[p].pc \in Steps

\* Every request so far was answered by handler p, one after the other.
Alone(p) == \A q \in Handlers \ {p} : At(q, "idle")

\* Request p was an Ensure and returned success, and no request was under way with it
\* or with one before it: also none of another app, which may have the CName.
Applied(p) == At(p, "ok") /\ handler[p].req.op = "Ensure" /\ Alone(p)

\* The main ingress that request p ensured is still the one stored, and is not
\* being deleted.  (A frozen main ingress ends Ensure before it has a parent.)
MainStands(p) ==
    LET i == ingress[handler[p].req.app] IN
    Exists(i) /\ i.uid = handler[p].parent /\ ~i.terminating

-----------------------------------------------------------------------------
(* Optimistic concurrency between requests.                                *)

\* An ingress that still has the version a handler read is the ingress that
\* handler read: an Update that the server accepts is computed from the stored
\* state (ingress.go Ensure, AddCertificate and RemoveCertificate: Get, then
\* Update with the version of that Get).
SeenIsCurrent ==
    \A p \in Handlers :
        LET h == handler[p] IN
        Exists(h.seen) /\ Exists(ingress[h.name]) /\ ingress[h.name].rv = h.seen.rv
            => ingress[h.name] = h.seen

\* A TLS entry that nobody manages (added by AddCertificate) leaves an ingress
\* that keeps its host only by a RemoveCertificate for that host: no Ensure,
\* however it interleaves with AddCertificate, rewrites the ingress without it.
\* (mergeIngressAndUpdate keeps TLS and sends the version it read.)
CertificatePinnedStep ==
    \A n \in Names :
        LET old == ingress[n]
            new == ingress'[n]
        IN  (Exists(old) /\ Exists(new)) =>
            \A host \in ToSet(old.tls) :
                \/ IsManagedByCertManager(old)
                \/ host \in ToSet(new.tls)
                \/ host \notin ToSet(new.rules)
                \/ \E p \in Handlers :
                    /\ At(p, "untls") /\ handler'[p].pc = "unsecret"
                    /\ handler[p].name = n /\ handler[p].req.host = host

CertificatePinned == [][CertificatePinnedStep]_vars

\* No Ensure rewrites a frozen ingress, even one that is frozen after Ensure
\* read it; all it may do is delete the ingress of a CName that is no longer
\* wanted ("Ingress is frozen, skipping", ingress.go:134 and :368).
FrozenKeptStep ==
    \A n \in Names, p \in Handlers :
        Exists(ingress[n]) /\ ingress[n].frozen /\ EnsureStep(p) =>
            \/ ingress'[n] = ingress[n]
            \/ ingress'[n] = Nil /\ n \in handler[p].drop

FrozenKept == [][FrozenKeptStep]_vars

-----------------------------------------------------------------------------
(* What a request that succeeded leaves behind.                            *)

\* After a successful Ensure, every CName it asked for has its ingress, owned
\* by the main ingress that is there, so that it is neither missing nor about
\* to be garbage collected; also when the main ingress was recreated, when an
\* earlier Ensure stopped half-way, and when another app had the CName.  (One
\* that was frozen is skipped, and may have been collected since.)
CNamesApplied ==
    \A p \in Handlers :
        Applied(p) /\ MainStands(p) =>
            \A c \in handler[p].req.cnames \ Freezable :
                /\ Exists(ingress[c])
                /\ ingress[c].app = handler[p].req.app
                /\ ingress[c].owner = handler[p].parent

\* After a successful Ensure no CName ingress hangs from the main ingress of the
\* app beyond the ones it asked for (the loop over existingCNames that removes
\* the others, ingress.go:249-264).
OnlyItsCNames ==
    \A p \in Handlers :
        Applied(p) /\ MainStands(p) =>
            \A c \in CNames \ handler[p].req.cnames :
                ~(/\ Exists(ingress[c])
                  /\ ingress[c].app = handler[p].req.app
                  /\ ingress[c].owner = handler[p].parent)

\* That holds as long as no call failed and no write was refused, whatever the
\* requests: then none has stopped half-way.
NoOtherCNames == faults = 0 => OnlyItsCNames

\* The Ensures that write the ingress n, the main one of its app or that of a CName.
EnsuresOf(n) == {r \in Requests : r.op = "Ensure" /\ n \in r.cnames \cup {r.app}}

\* After a successful Ensure that leaves a CName without TLS, cert-manager no
\* longer holds a Certificate for that ingress under the name of the app: it
\* would renew it for ever (ensureCertmanagerCertificateDeleted); also when an
\* earlier Ensure changed the ingress and then failed before the deletion.  A
\* Certificate of another app for it comes from a takeover, of a CName which that
\* app asks for as well: it is under that app's name, and nobody deletes it.
NoStrayCertificate ==
    \A p \in Handlers :
        Applied(p) /\ MainStands(p) =>
            \A c \in handler[p].req.cnames \ Freezable :
                Exists(ingress[c]) /\ ingress[c].tls = <<>> =>
                    \A a \in Apps : certificate[<<a, c>>] = ingress[c].uid =>
                        a # handler[p].req.app /\ \E r \in EnsuresOf(c) : r.app = a

\* The TLS entries of n, where no issuer manages them, all come from AddCertificate: no
\* Ensure puts entries of its own for tls-acme, and none brings a host or an app to entries
\* that are there (mergeIngressAndUpdate fills in one for each host of the new rules, and
\* names its Secret after the new app).
ByHand(n) ==
    \A r, s \in EnsuresOf(n) :
        IF n \in CNames THEN r.app = s.app /\ (r.acmeCName => r.httpOnly)
        ELSE ~r.acme /\ \A h \in r.hosts, g \in s.hosts : h = g

\* Nobody may delete the Secret k from under a request: requests come one after the other,
\* or no RemoveCertificate is for k.
Undisturbed(k) ==
    \/ \E p \in Handlers : Alone(p)
    \/ \A r \in Requests : r.op = "RemoveCertificate" => <<r.app, r.host>> # k

\* A TLS entry added by hand names a Secret that is there, at every moment and
\* wherever a request stops: AddCertificate writes the Secret before the
\* entry, RemoveCertificate drops the entry before the Secret.
TLSHasSecret ==
    \A n \in Names :
        Exists(ingress[n]) /\ ~ingress[n].issuer /\ ByHand(n) =>
            \A host \in ToSet(ingress[n].tls) :
                LET k == <<ingress[n].app, host>> IN Undisturbed(k) => secret[k] # 0

-----------------------------------------------------------------------------
(* Garbage collection.                                                     *)

CNameOwned(c) == Exists(ingress[c]) => ingress[c].owner # 0 /\ OwnerThere(ingress[c])
MainStays(a) == Exists(ingress[a]) => ~ingress[a].terminating

\* Whatever requests fail half-way, race or follow each other, the cluster
\* settles with no main ingress under deletion and no CName ingress without
\* the main ingress that owns it: Remove deletes only the main ingress and
\* relies on the owner references for the rest.
EventuallyCollected ==
    <>[]((\A c \in CNames : CNameOwned(c)) /\ (\A a \in Apps : MainStays(a)))

-----------------------------------------------------------------------------
(* Requests as operations on an ingress.                                   *)

Content(i) == [app |-> i.app, route |-> i.route, rules |-> i.rules,
               cnames |-> i.cnames, issuer |-> i.issuer, acme |-> i.acme]

View(i) ==
    IF ~Exists(i) THEN Nil
    ELSE [shows |-> Content(i), tls |-> i.tls, frozen |-> i.frozen, marked |-> i.terminating]

\* What an Ensure may show on the ingress n: the rules of the app and of its prefixes, or
\* those of a CName.
Wanted == [n \in Names |->
    UNION {IF n = r.app
           THEN {Content(MainIngress(r, rules)) : rules \in RuleOrders(r.hosts)}
           ELSE {Content(CNameIngress(r, n, 0))} : r \in EnsuresOf(n)}]

Views == [n \in Names |-> View(ingress[n])]

\* Nil is no record of this kind.
ASSUME ViewAssumption ==
    Nil \notin [shows : [app : Apps, route : Routes, rules : HostList,
                         cnames : SUBSET CNames, issuer : BOOLEAN, acme : BOOLEAN],
                tls : HostList, frozen : BOOLEAN, marked : BOOLEAN]

Abstract == INSTANCE AtomicIngress WITH object <- Views

\* Every request takes effect atomically on each ingress it writes (AtomicIngress): built
\* from an ingress read some calls earlier, an Ensure, an AddCertificate or a
\* RemoveCertificate neither undoes nor mixes with what another one wrote in between.
Atomic == Abstract!Spec

-----------------------------------------------------------------------------
(* Promises the code does not keep, see the README.                        *)

\* The ingress of an app whose last request is a successful Ensure stays.
EnsuredStays ==
    \A p \in Handlers : Applied(p) => Exists(ingress[handler[p].req.app])

\* RemoveCertificate does not crash.
NeverPanics == \A p \in Handlers : ~At(p, "panic")
=============================================================================
