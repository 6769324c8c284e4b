# kubernetes-router in TLA+

This project specifies, checks and proves properties of
[tsuru/kubernetes-router](../src/README.md): the daemon tsuru calls to publish an
app on a Kubernetes cluster.  The models are written from the Go code under
`src/`; every definition that stands for code is listed in `PROJECT.json` ("map")
with the lines it stands for.

Run a check with `tlc -config MCIngressSerial.cfg MCIngress`, a proof with
`tlapm IngressProofs.tla`.

## 1. The system

An HTTP request arrives at `api/api.go`, which finds a *router* (a backend
service) through `backend/` and calls one of its methods.  The method reads
objects from the Kubernetes API server, computes new ones and writes them, one
call after the other.  **No lock orders two requests**, nothing is queued and
nothing is persisted by the router itself: all state that survives a request is
in the cluster, and in the fields of the service structs - the shared gateway of
the gateway-api backend and the lazily created clients of every backend.  An error ends the
request at once (`api/handler.go`), what was done stays, and it is tsuru that
repeats the request.  Between any two calls the other requests, the cluster's
controllers (garbage collector, cert-manager, cloud and gateway controllers) and
its operators may write the same objects.

| component | state | operations | interacts with |
|---|---|---|---|
| Ingress backend, `kubernetes/ingress.go` | a main Ingress for each app, one Ingress for each CName, TLS Secrets, cert-manager Certificates | `Ensure`, `Remove`, `AddCertificate`, `RemoveCertificate`; reads `GetAddresses`, `GetStatus`, `GetCertificate` | garbage collector (owner references, foreground deletion), cert-manager, operators (freeze annotation) |
| Gateway API backend, `kubernetes/gatewayapi.go` | an HTTPRoute for each prefix and CName, a ListenerSet for each CName under HTTPS; fields `GatewayName`, `GatewayNamespace`, `DomainSuffix` of the service | `Ensure`, `Remove`; reads | gateway controller (status), operators |
| Load balancer backend, `kubernetes/loadbalancer.go` | one Service of type LoadBalancer for each app | `Ensure`, `Remove`; reads | web Service of the app, NodePort allocation, the cloud's controller (finalizer, status), operators (freeze label) |
| Istio backend, `kubernetes/istiogateway.go` | a Gateway and a VirtualService for each app and router instance, with an annotation of the CNames | `Ensure`, `Remove` | operators (hosts and routes of their own in the VirtualService) |
| Base service, `kubernetes/service.go` | `RestConfig` and the clients, created when first needed, without synchronisation | `getConfig`, `getClient` and its like; reads of the App and of Services, names | all backends |
| Backend selection, `backend/` | the service structs: one for each mode, or one for each request; the clusters file | `Router` | API |
| HTTP API, `api/` | the goroutines of a request: handler, the two halves of a status, one for each address checked | one handler for each request; `status`, `checkPath` | backends |
| Options, `router/service.go` | none | `UnmarshalJSON`, `OptsFromAnnotations`, `ToAnnotations` | API, backends |
| Command and daemon, `cmd/` | the process: up, shutting down, over | the loop over `-controller-modes`, `StartDaemon` | API, backend selection |
| Observability, mock, manifests | none that changes | traces, metrics | |

What is hard in this code, and what makes each backend correct:

* **Get, compute, Update without a lock.**  Everything rests on the
  `resourceVersion` that goes back with the Update.  No Ensure may lose a
  certificate, rewrite what an operator froze, or undo another request's write.
* **Many calls, no transaction.**  A request that stops half-way leaves some
  objects written; the next one has to finish or clean up.  After a *successful*
  Ensure exactly what it asked for must be there, after a successful Remove
  nothing.
* **Deletion takes time.**  `Remove` of the ingress backend only marks the main
  Ingress; the garbage collector does the rest, and requests may come meanwhile.
* **State in the service struct.**  The gateway backend keeps the gateway of the
  last request in fields that concurrent requests share.
* **Values the server fills in.**  NodePorts must survive an update of the ports.
* **Goroutines inside a request.**  A status is an errgroup of two, one of which
  starts a goroutine for each address, with a WaitGroup, a buffered channel and a
  context that the other half may cancel.  A panic in the handler's own
  goroutine is answered; in any other it ends the process and every request in it.
* **Clients made in a race.**  The first requests of a process all find
  `RestConfig` and `Client` nil, store theirs field by field, and use what the
  others have stored half-way: a configuration without its `Timeout`, an
  interface whose pointer is still nil.
* **Order that nobody chose.**  Options are decoded while ranging over a Go map;
  defaults and names are looked for in one pass over the clusters file; one mode
  of the flag writes another flag that later modes read.

The hazards are listed one by one, at their lines, in `PROJECT.json`
("hazards"), with the properties that speak of them.

## 2. The modules

| module | what it is |
|---|---|
| `KubeAPI` | external: what one object of the API server does on Create, Update (optimistic concurrency, immutable metadata, dropped finalizers) and Delete (foreground marking) |
| `IngressService` | the ingress backend |
| `AtomicIngress` | the abstract specification of the ingress backend |
| `IngressProperties` | its properties, and what is visible of an Ingress to `AtomicIngress` |
| `MCIngress`, `MCIngress*.cfg` | its instances for TLC |
| `IngressProofs` | the theorems about `IngressService` under concurrent requests |
| `IngressSerialProofs` | those about sequences of requests; that the backend implements `AtomicIngress`; TLS entries and their Secrets |
| `GatewayAPI`, `GatewayProperties`, `MCGateway`, `MCGateway*.cfg` | the same for the gateway-api backend |
| `Exposing` | the data of the load balancer backend and `portsForService` as pure definitions |
| `LoadBalancer`, `LoadBalancerProperties`, `MCLoadBalancer`, `MCLoadBalancer.cfg` | the load balancer backend |
| `AtomicService` | the abstract specification of the load balancer backend |
| `LoadBalancerProofs` | its theorems: it implements `AtomicService` |
| `IstioGateway`, `IstioProperties`, `MCIstio`, `MCIstio.cfg` | the Istio backend |
| `AtomicVirtualService` | the abstract specification of the Istio backend |
| `IstioProofs` | its theorems: it implements `AtomicVirtualService`, among others |
| `GatewayProofs` | the theorems about `GatewayAPI` under concurrent requests |
| `GatewaySerialProofs` | those about sequences of requests |
| `Opts` | the decoding of options as operators |
| `BackendSelection` | the choice of a router from mode, cluster headers and clusters file as operators |
| `RequestIntake`, `IntakeProperties`, `MCRequestIntake`, `MCRequestIntake.cfg` | start of the daemon, decoding and choice of the router, step by step, composed of the two |
| `IntakeProofs` | its theorems |
| `SharedClient` | configuration and client of a base service, field access by field access |
| `RouterAPI`, `RouterAPIProperties`, `MCRouterAPI`, `MCRouterAPI.cfg` | requests, their goroutines and the process, composed with `SharedClient` |
| `RouterAPIProofs` | its theorems |

### How a model corresponds to the code

A request is a *handler* `handler[p]`: its position `pc`, its request and the
locals that outlive a call (`seen`, the object the last Get returned; the sets of
CNames still to do; the uid of the parent).  **Every call to the API server is one
action**, named for the method and the call: `EnsureGet`, `EnsureUpdate`,
`CNameGet`, ..., `RemoveDelete`.  The code between two calls belongs to the action
of the call before it or after it, whichever its results go into.  `Receive`
starts a handler with any request of `Requests`; `Fail` is any call returning an
error, or the process dying.  An optimistic-concurrency refusal is not `Fail`: it
follows from the versions.  (In `IngressService` it counts as a fault all the same:
the request stops half-way as if a call had failed.)

*IngressService.*  `ingress[n]` holds the main Ingress of an app under the app's
name and that of a CName under the CName, because `ingressCName` has no app in
it: two apps that use one CName meet on one object.  `Ensure` is `EnsureGet`,
then `EnsureCreate` or `EnsureUpdate`, then for each CName `CNameGet`,
`CNameCreate`/`CNameUpdate`, `CNameDeleteCertificate`, then for each CName to
drop `CNameRemove`, then `EnsureDone`.  `AddCertificate` is `FindTarget`,
`FindMain`, `CreateSecret` (or `GetSecret`, `UpdateSecret`), `AddTLS`;
`RemoveCertificate` is the same search, `RemoveTLS`, `DeleteSecret`.  The index
error of its loop is the end state "panic".  The payload of the rules is one value
`route`; of the TLS entries only the hosts and their order are kept, since the
loop depends on the order.  cert-manager, the garbage collector, a deleted owner
Service and operators are the actions of `Environment`.

*AtomicIngress.*  Ingresses that change by whole requests only: `Publish` and
`Rewrite` by an Ensure, `Pin` and `Unpin` by the two certificate requests, `Mark` by a
Remove, besides `Vanish` and `ToggleFreeze`.  The refinement maps `ingress[n]` to what
is visible of it (`View` in `IngressProperties`): the content, which is always that of
one Ensure (`Wanted`), the hosts with TLS in their order, the freeze and the mark; uid,
version, owner, handlers, Secrets and Certificates are forgotten.  A certificate
request reads the Ingress, writes a Secret, and writes the Ingress calls later; `Pin`
and `Unpin` do it at once, on what is there then, only where no issuer manages it and
the host is shown.

*GatewayAPI.*  `route[<<app, slot>>]` holds the HTTPRoute of a prefix or of a
CName, `listener[<<app, cname>>]` the ListenerSet, `conf` the fields of the
service structs.  `Shared` chooses between the two ways the daemon runs: one
service for all requests (`-controller-modes`, `cmd/router/main.go`) or one for
each request (`backend/multi-cluster.go`).  Ensure stores its gateway into the
fields without synchronisation: the store is two steps (`SetGateway`/`GatewaySet`,
`SetSuffix`/`SuffixSet`), and whoever reads in between may get `Torn`, which stands
for anything a racing read of a Go string may return.  Every request exposes the
default prefix and leaves `Domain` and `DomainPrefix` unset; the order of the
prefixes (a Go map) is left open.  A ListenerSet is built from the fields before the
Get (`ListenerGet`, which keeps its parent in the handler), a route after it.  The
history variable `thawed` has the routes that operators released from their freeze
since the last request came in; no guard reads it.

*LoadBalancer.*  One app, since two apps share nothing.  `service` is the
LoadBalancer Service, `web` the app's own Service.  `Manifest` is what Ensure
sends, `SentPorts` the ports of `portsForService`, with the NodePort of whatever
port had the same number; `ServiceHasChanges` is the comparison that decides
whether to send it.  `int32(additionalPort)` is two's complement on `Width`
values; numbers are scaled down (`MaxPort` = 99 for 65535, `Width` = 256 for 2^32)
so that an overflow and an invalid port are both in reach.  `Store` is the API
server allocating NodePorts.

*AtomicService.*  A Service that changes by whole requests only: `Create`,
`Update`, `Mark`, `Vanish`, `ToggleFreeze`.  The refinement maps `service` to what
is visible of it (`View` in `LoadBalancerProperties`), without the
resourceVersion and the recorded request; `handler`, `web` and the bounds are
forgotten.

*IstioGateway.*  `vs[n]` is the VirtualService of a name, `gateway` the names of the
Gateways that are there.  An id is an app or a router instance of it; `AppName`
and `ResourceName` are the two names the code derives from it.  `Ensure` is
`CreateGateway`, `GetVS`, `PutVS`; `Remove` is `RemoveGet`, `DetachVS`,
`DeleteGateway`.  Lists are sets (the code sorts them and drops duplicates).
`Published` is `updateVirtualService` and the loops over the CNames; the end
state "exists" is the 409 that Ensure answers after all its work when the Gateway was
there before.  A router instance's Gateway is created under the name of the
*app*, while its VirtualService and its Remove use the name of the *instance*:
the model does the same, and `NoDangling` speaks of apps without an instance
(`Plain`).

*AtomicVirtualService.*  VirtualServices that change by whole requests only: `Publish` by
an Ensure, `Detach` by a Remove, `AddHost` and `Vanish` by operators.  Where the code
walks through two differences of CNames and edits hosts and annotation one by one,
`Publish` replaces the CNames by those asked for, in one set expression.  The view of
a VirtualService is all of it but the version; the Gateways, which each request
writes separately, are not part of it.

*RequestIntake.*  `StartMode` is one round of main's loop over the modes (`started`
counts them) and `Listen` the end of the start; then requests are taken one after
the other, since nothing here is shared.  `ReceiveEnsure` decodes the body,
`MergeHeader` is one round of the loop over the headers and `Merged` its end,
`AssignOption` one round of the loop over the merged map, for any option left, and
`Decoded` its end.  `Select` is `Backend.Router` of the local or the multi-cluster
backend; where that needs the clusters file, `LookUpCluster`, `Consider` (one round of
the loop over the clusters) and `SelectSettled` are `getKubeConfigFromSettings`.  A
text is one of a few: true, false, one that does
not parse; a router is the kind of its service, its ingress class and its cluster.

*SharedClient.*  `restConfig[s]` and `client[s]` are the two fields of the service
`s`, `call[g]` the position of the goroutine `g` in `getClient`.  Reading a field,
storing the pointer of a configuration, setting its `Timeout`, and each of the two
words of an interface are steps of their own.  A configuration is a number;
those with a `Timeout` are `timed`.

*RouterAPI.*  `handler[p]` is a request of tsuru, `probe[<<p, i>>]` the goroutine of
`checkPath` for the address `i`.  Of what a router does only the shared part
matters here: creating its client and one call to the API server, which may
answer, refuse, be cut short by the `Timeout` or the context, or stay silent.
`StatusReturns` and `AddressesReturn` are the returns inside the errgroup (the
first error cancels), `Spawn`, `ProbeEnds`, `ProbeSends`, `ProbeDone` and
`Collected` are `checkPath`.  `Crash` is a panic outside the handler's goroutine,
`Signal` and `Exit` are `StartDaemon`, which returns as soon as the listener is
closed, and `Restart` is the kubelet.  To the backends such an end is `Fail`:
their models and this one meet in "a request stops between two calls".

A definition marked "mutation" stands before the one it is a slip of.  It is used
nowhere; replacing the real one by it makes a property fail ("mutants" in
`PROJECT.json`), which shows that the property depends on that piece of code.

### Reads that are left out

`GetAddresses`, `GetStatus`, `GetCertificate`, `SupportedOptions` and
`Healthcheck` change nothing; `RouterAPI` has them as calls that return, fail or
hang.  `getApp`, `getAppNamespace` and `getBackendTargets`
matter to the backends only by failing, which `Fail` covers.

## 3. What the runs show

| run | instance | properties |
|---|---|---|
| `ingress_serial` | an app and a second one that takes a CName over, two CNames, four requests one after the other, two failing calls, one operator action | `TypeOK`; after a successful Ensure every CName is there and owned (`CNamesApplied`), none beyond those wanted as long as no call failed and no write was refused (`NoOtherCNames`), no Certificate is left behind, but for a former app's after a takeover (`NoStrayCertificate`); a TLS entry added by hand always has its Secret (`TLSHasSecret`) |
| `ingress_race` | two apps that share a CName, two handlers, three requests, two faults (failing calls or refused writes), one write by an operator or one deleted Service, fair garbage collector | `CertificatePinned`: no Ensure drops an uploaded certificate; `FrozenKept`: no Ensure rewrites a frozen Ingress, even one frozen after it was read; `EventuallyCollected`: the cluster settles without a half-deleted main Ingress or an orphaned CName; `Atomic`: the backend implements `AtomicIngress` |
| `gateway_serial` | one app, two prefixes, two CNames, two gateways, on a shared service: three requests one after the other with two failing calls or restarts and two writes by others between any two calls; two requests at a time with one failing call or one write by others | `TypeOK`; what a successful Ensure leaves (`PrefixesApplied`, `CNamesAttached`, `ListenerThere`, `NoOtherCNames`) and a successful Remove (`RemovedIsGone`); `FrozenSpecKept`, `NoLostUpdate`, also of two requests at a time, and by the proofs of any number |
| `load_balancer` | two handlers, three requests out of six, four web Services, four NodePorts, one failing call, one write by others | `TypeOK`; `Exposed`: a successful Ensure leaves the Service there, but for one that Remove has marked, and what is there is what it was asked for; `Settled`: repeating it changes nothing; `Atomic`: the backend implements `AtomicService` |
| `istio` | an app and a router instance of it, two CNames, two handlers, four requests out of six, one failing call, one write by an operator | `TypeOK`; `AnnotationServed`: the annotated CNames are hosts; `KeepsOthers`: no request undoes what others wrote; `Atomic`: the backend implements `AtomicVirtualService`; one request after the other: what a successful Ensure leaves (`EnsureApplied`), no reference to a missing Gateway (`NoDangling`) |
| `intake` | seven lists of modes, every clusters file of up to two out of six entries, every cluster header; every body over two flags and a text option with every pair of headers | `TypeOK`; `OptionsTaken`: the options are those of the body, then of the first header, in whatever order the map is gone through, where the headers are read; `LoneBadFlagRefused`; `RightCluster`: the first cluster of the name, or the last default, with its own credentials; `ModeServed`: every enabled mode is served by a router of its kind, ingress-nginx with the class nginx and ingress with that of `-ingress-class` unless an ingress-nginx stands before it |
| `api` | a status (three shapes, two addresses) beside another request on the shared service, one that cannot make a configuration or a client, one client that goes away or signal, panics and restarts | `TypeOK`; `OneCheckEach`: one check of each address, no goroutine left behind; `ChecksNotCut`: an answer without error holds no check that the other half cut short; `FieldsSettle`: what a race leaves in the shared fields is complete; `AnsweredOrHung`: every request is answered, unless it waits with a client made of a configuration without a `Timeout` |

Five further runs each check one promise the code does not keep, and TLC finds
the counterexample (details and quotations under "findings" in `PROJECT.json`):

| run | promise | what happens |
|---|---|---|
| `ingress_leak` | `OnlyItsCNames` | Ensure stores the new CNames annotation first and deletes the old CNames' Ingresses last, from the difference to the *old* annotation.  If it fails in between, the retry sees the new annotation and never deletes them. |
| `ingress_terminating` | `EnsuredStays` | Ensure on a main Ingress that Remove has marked succeeds, and the Ingress is gone a moment later. |
| `ingress_panic` | `NeverPanics` | RemoveCertificate shortens the slice it ranges over: index out of range unless the entry is the last one. |
| `gateway_leak` | `OnlyItsCNames` | the Update of the CNames annotation is refused because the gateway's controller wrote the status meanwhile; the error is dropped, and that CName's route is never removed. |
| `gateway_shared` | `NamespaceDefaults` | a concurrent request changes the shared fields between store and read: a route lands on the gateway of another app's namespace. |

Other disagreements between the code and what is said of it are in the models and in
the hazards, without a run of their own; the properties name them as exceptions:

* *A marked Service.*  `LBService.Ensure` on a Service that Remove has marked updates
  what is about to vanish and reports success (`loadbalancer.go:200`), though it
  "creates or updates the LoadBalancer service" (`loadbalancer.go:167`): the case of
  `ingress_terminating` again.  `Exposed` excepts it (`FoundMarked`).
* *The class of ingress.*  `-ingress-class` is the "Default class annotation for ingress
  objects" (`src/README.md:26`, `main.go:54`), but the mode ingress gets the class nginx
  when ingress-nginx stands before it in `-controller-modes` (`main.go:108`).
  `ModeServed` demands the flag's class where none does.
* *Headers without "opts".*  Only `UnmarshalJSON` reads the `X-Router-Opt` headers, and it
  is not called where the body has no "opts": the headers are dropped in silence.  With
  `"opts": null` and a header the handler panics (`router/service.go:176`).
  `OptionsTaken` and `LoneBadFlagRefused` speak of the requests whose headers are read
  (`HeadersRead`).
* *A port past the range.*  A number that is no port may wrap to one in the `int32`
  (`loadbalancer.go:365`) and is then exposed as that; which one, `Exposed` leaves open.
* *A former app's Certificate.*  An app that takes a CName over without TLS deletes the
  Certificate of its own name only (`ingress.go:419`); that of the other app stays.

### Bounds, and why they are enough

`MaxRequests`, `MaxFaults` and `MaxEvents` bound the requests, failing calls and
writes by others of one behaviour; versions and uids are bounded by them.  Three
requests are what the properties need: one to establish a state, one to disturb
it (or to stop half-way), one to be judged.  With two handlers at a time every pair
of calls of two requests meets in every order, and the third request follows
or joins.  A handler whose call fails is over, so the runs of one handler, where
two calls may fail, also reach two abandoned requests in a row before the one
that is judged (with four requests also on top of an established state, in
`ingress_serial`); the runs of two handlers have at most one
(`ingress_race` two, of which one may be a refused write).
The hosts, CNames, gateways and ports are two of each where one replaces another
(a CName dropped and one kept, a TLS entry before and after the removed one) and
one where they only have to be there.  In `MCLoadBalancer` handlers and NodePorts
are interchangeable and declared symmetric, which is sound as all its properties
are safety and name none of them; four NodePorts are enough for three ports and a
new one.

In `gateway_serial` the bounds depend on the second handler, by the constraint
`FewWithSecond` of `MCGateway`: as long as it is idle the sequence on the first one has
three requests, two faults and two writes by others; once it is used there are two
requests in all, with one fault or one write by others.  The properties of sequences are
judged in the first part, those of concurrent requests in both: an Update built from
a stale read takes two requests, or one and a write by others.

The instances have between 5 thousand and three million states.  In `api`,
`MaxCalls` limits the calls of routers in progress to two, which is what a race for
a field needs, and two addresses make a channel that can be half full.  In
`intake` the setups are split in two mixes: every way to choose a router with
requests that have no options, and every way to give options with one router,
since neither reads the state of the other; two clusters are enough for a named one
before and after a default.

The runs with one handler are for properties that no code promises under
concurrency.  `TLSHasSecret` states its own conditions.  `Undisturbed(k)`: requests come
one after the other, or no RemoveCertificate is for that host; otherwise one deletes
the Secret that a concurrent AddCertificate has just written again.  `ByHand(n)`: no
Ensure of the Ingress uses tls-acme, brings a second host, or is of another app;
otherwise entries are filled in whose Secret nobody has written (the hazards at
`ingress.go:276` and `:608`).  In `ingress_serial` all of them hold, so that nothing is
left out there.
`MetFrozen(k)` in `GatewayProperties` excepts the routes that are frozen, or were released
while the request ran, from having the spec asked for: the request may have come
across them while they were frozen.  A status write excepts nothing, nor does a freeze
that was released before the request came in.
Where an instance has more handlers, or a theorem any number of them, "one after the
other" is a condition of the property: `Alone(p)`, all requests were answered by
the handler `p`, in the ingress, Gateway and load balancer properties, `Serial` in
those of Istio.  `Undisturbed` of the gateway and `faults = 0` are the conditions the findings show to be
needed besides.  `CNamesApplied` and `NoStrayCertificate` leave out the CNames in
`Freezable`: an Ensure skips the ingress of a CName that is frozen, and answers with
success; in `ingress_serial` no CName is frozen, so nothing is left out there.

The cfgs say `CHECK_DEADLOCK FALSE`: once the requests are used up and the last
handler has returned, the system waits for a request that the bound does not let
in.

### Fairness

`FairSpec` of `IngressService` has `WF_vars(Collect)`: the garbage collector is a
controller of the cluster that keeps running and retries.  Nothing is assumed of
the handlers there: a request may hang or never be repeated, and
`EventuallyCollected` must hold all the same.

`FairSpec` of `RouterAPI` has `WF_vars(RequestStep(p))` for each request: Go runs
every goroutine that can go on, timers fire, contexts cancel.  The steps of one
request are finitely many and none disables those of another of its goroutines for
good, so fairness to the request is fairness to each.  Neither the API server nor
an address has to answer (`RouterReturns` is not fair), a probe ends by its own
timeout, a call by the `Timeout` of its client.  A client without one is the
exception `AnsweredOrHung` names (`Hangs`): `getConfig` has stored the configuration
and not yet completed it when another goroutine builds a client of it, and no
later request replaces that client.

## 4. What is proved

TLAPS proves the following for **any** apps, CNames, hosts, prefixes, gateways,
requests, web Services, ports, NodePorts, addresses, modes, headers, clusters files,
handlers and bounds, from the named assumptions in the modules (sorts are disjoint,
`Nil` is none of the values and no view of an Ingress, bounds are naturals, a text that
parses is either true or false, the numbers of ports are less than half of an `int32`'s
values, a web Service without ports has no first port, the
prefixes a request asks the ingress backend for have hosts of its own app); no
assumption is about behaviour.

*`IngressProofs`* - `TypeCorrect` (no Ingress lists a host twice, among others),
`SeenStaysCurrent`, `CertificatesPinned` and `FrozenStaysPut`, the two action
properties of `ingress_race`.

The inductive invariant is `IInv == TypeOK /\ Staged /\ Versioned`.  The property
alone is not inductive: that an accepted Update keeps the TLS entries depends on
the object read *earlier*.  `Versioned` says that an Ingress that still has the
version a handler read is the Ingress it read, because every write gives a version
above all versions seen (`VersionsBound`, again by induction).  `Staged` says what
the position of a handler implies: that it read an object, that the object was not
frozen, which request it works on.  Then an accepted Update is computed from what
is stored, so what `MergeIngress` keeps of the old Ingress is kept of the stored
one, and a frozen Ingress has a version no Ensure past its freeze check holds.
There is a lemma for each operator (what it returns), one for each action (it
preserves types; it stores a new version; what it remembers is current), and
`Next` is put together from them.

*`IngressSerialProofs`* - `EnsuredCNamesThere`, `NoCertificateStrays` and
`EnsuredCNamesOnly`, for sequences of any number of requests of any number of apps,
which stop anywhere.  `Sound` holds under concurrency too: what is stored under a name
is fit for it (`Proper`: its own hosts, its own app, no uid and no owner beyond the
versions given out), the locals of a handler fit its position (`Steady`), and no
Certificate is of a uid not yet given out (`CertificatesBound`).  `InTurn` says that for
the handler that is `Alone` the `Stage` holds, in two parts.  `Attaches`: while the
main ingress a request wrote stands, the CNames it is through with are `Fulfilled`,
since the garbage collector takes only what hangs from a main ingress that is gone or
marked, and cert-manager makes Certificates only for TLS entries.  `CertificatesAsked`
adds that only apps that ask for a CName get a Certificate for it.  `Tracks`, until
something fails: what hangs from a main ingress is in its annotation, or among what the
request under way wants or has to drop.  A main ingress that is new starts with nothing,
as no owner reference has its uid yet (`Proper` again).

The same module proves `Implements == Spec => Atomic`, for requests that interleave in
any way.  `Writing` is the shape every write of a handler has: of a new manifest
(`Sent`) onto nothing, or of one merged with, or edited from, what the handler has
read, which `SeenIsCurrent` makes what is stored.  `AllTarget` says of a certificate
request between its checks and its write what the checks saw: an Ingress of its app
that nobody manages, which shows the host.  For each way to write there is a lemma
that it is the abstract step of that name on the views, and what is not a write of a
handler is `Mark`, `Vanish`, `ToggleFreeze` or a stutter.

`EntriesHaveSecrets == Spec => []TLSHasSecret` is for concurrent requests as well.  The
property says nothing of a handler that is about to write an entry, nor of one about
to delete a Secret, so it is not inductive.  `AskedFor` has what every Ingress was
asked for, by an Ensure of those that `ByHand` speaks of; hence an entry that is new
comes from an entry before of the same app and host, or from the write of an
AddCertificate (`EntryOrigin`).  `Secured` says that a handler about to make that
write has the Secret there; `Clears` that one about to delete a Secret has no entry
left that needs it.  A Secret only goes with that deletion (`SecretGoes`), and by
`Undisturbed` no other handler then counts on it.

`OneHostNeverPanics` delimits the finding of `ingress_panic`: where no Ensure asks for two
hosts (`OneHostEach`) every Ingress has one rule and one entry at most, also in between
(`Single`), the entry removed is the last one, and the loop ends in time, in whatever
order requests come.  The run, with two hosts, shows that the assumption is needed.

*`LoadBalancerProofs`* - `TypeCorrect`, `SeenStaysCurrent` and `Implements ==
Spec => Atomic`.  Again `SeenIsCurrent` carries it: `EnsureIsCurrent` reduces an
accepted Create or Update to one computed from the `service` that is there,
`EnsureRefines` maps that to `Create` or `Update` of `AtomicService`, the other
actions to `Mark`, `Vanish`, `ToggleFreeze` or a stutter (`StepRefines`).  Keeping
the NodePorts comes from `portsForService` alone: a number used once before and
exposed after is sent with the NodePort it had.
`EnsuredIsExposed` and `EnsuredIsSettled` are about a sequence of requests on one
handler: what it is about to send is the outcome of `portsForService` for the
Service that is there (`SeenIsCurrent` again), and after its Update nothing but the
others' writes may follow, which change neither ports nor selector.  `WantedAsAsked`
shows that the ports `portsForService` computes are those the request names, also
through the `int32`, and `Standing` that the Service stands unless the Get found it
marked: only Remove marks one, and only a marked one vanishes.  The second
follows from the first by a lemma on the comparison alone: a Service that exposes
what is wanted is sent with the ports it has.

*`IstioProofs`* - `TypeCorrect`, `AnnotationStaysServed`, `OthersKept` and `Implements ==
Spec => Atomic`.  `IInv`
has the versions as before (`VersionsBound`, `SeenIsCurrent`, which make an accepted
write one of the stored object, `AcceptedIsCurrent`) and `AllServed`: the annotated
CNames are hosts of every VirtualService stored *and* of every one a handler has
read, since what is written is made of what was read.  `HostsOfServes` and
`HostsOfKeeps` say what the loops over the CNames do to the hosts; `StoreStep` and
`SeenStep` say what any action does to the store and to the handlers, and
`Preserved` derives the invariant from them once for all actions.
`EnsuredIsApplied` and `NothingDangles` are about sequences of requests, of any
length.  While a single handler has ever worked (`Alone`), its position says what it
has done (`InTurn`): which Gateway it has made, what it has read and sent
(`Achieved`).  Two facts hold between requests too and make the next one succeed:
no VirtualService has a CName as a host that the annotation does not list
(`NoneUnlisted`), and one that refers to its Gateway finds it there (`GatewayThere`).
`Implements` needs three facts: an accepted write is of what is there
(`AcceptedIsCurrent`), it shows what was sent even when it changes nothing
(`WriteShows`), and the edits host by host come to one replacement of the CNames, since
the annotated ones were all hosts (`HostsOfIs`, from `AllServed`).

*`GatewayProofs`* - `TypeCorrect`, `FrozenSpecIsKept` and `NoUpdateIsLost`, for any
number of handlers and for both ways of running.  `IInv` has, besides the types,
`Staged` (what the position of a handler implies of what it has read),
`Configured` (what the shared fields may hold, `Torn` included, while others are
storing), `VersionsBound` and `SeenIsCurrent`, which is as above, but for each object
of the many.  `Preserved`, `StepOf`, `EndOf` and `GotoOf` reduce an action to three
questions: what it stores, what it remembers, where it goes; `RouteRead`, `SlotDone`
and their like answer them for the shapes of step that recur.

*`GatewaySerialProofs`* - `EnsuredPrefixes`, `EnsuredCNamesAttached`, `ListenersThere`,
`EnsuredCNamesOnly` and `RemovedLeavesNothing`, for sequences of any number of
requests.  None of them is inductive: what a successful Ensure leaves was done in
a dozen loops, each of which may stop.  `InTurn` says that for a handler that is
`Alone` the `Stage` holds, which reads off its position what is already done: the fields
chosen (`ConfChosen`), the prefixes exposed or swept so far and those of the loop still to
come (`Exposes`), the CNames attached so far (`Attaches`), what a Remove has deleted and
what its lists still hold (`Removes`).  `Tracks` is the heart of `EnsuredCNamesOnly`
and holds of undisturbed sequences only: every CName route is in the annotation
of the default route, or the request under way is still going to store it there or to
delete the route.  `FrozenCounted` (only operators freeze, or release) rules frozen
routes out of undisturbed sequences; `EventWrites` shows that a write by others keeps
`MetFrozen`, and so what the request has achieved.  The proof has a lemma for each action and each part of
`Stage`.

*`RouterAPIProofs`* - `TypeCorrect`, `OneCheckOfEach`, `ChecksAreNotCut` and
`FieldsAlwaysSettle`.  `IInv == TypeOK /\ HandlersOK /\ CallsOK /\ FieldsSettle`.
`HandlersOK` says of each request, in terms of its own record, probes and calls only:
`Placed` (a call in progress belongs to a request that waits for it), `Counted` (the
WaitGroup counts the live goroutines, the channel has a check of each one that has
sent), `Cut` (a check cut short has a reason: a client that has gone or a
recorded first error) and `Answered`.  A count of zero then means that no goroutine is
left, so the channel holds one check of each address; and an answer without error
excludes both reasons to cut one.  For the shared fields, `FieldsSettle` is inductive
together with `CallsOK` (what is about to be stored is a client unless something
failed): whoever leaves a field unfinished is still there to finish it.  `SettleKept`
states what a step of one call may do to the fields, `EndedCall` and `OwnStep` what a
step of one request has to show; every action is an instance of one of them.

*`IntakeProofs`* - `TypeCorrect`, `ModesAreServed`, `ClusterIsRight`,
`OptionsAreTaken` and `LoneBadFlagIsRefused`, for lists of modes, headers and clusters
of any length, any number of options and any order of the map.  Each loop has a part of
`IInv` that says what its result *so far* is, as a formula over the entries it has gone
through: `RoutersRight` (a mode has the router of its last place among the `started`
ones, with the class of the flag there), `ObjectRight` (`MapSays`: an option of the map
is that of the body, else of the first header of the rounds done), `OptsRight`
(`OptsSay`: the options no longer in `todo` are assigned, and an error stands when of the
flags gone through some are texts and none of them parses), `ChoiceRight` (`ChoiceSays`: the loop has met the
name, or stands at the last default).  One round extends the formula by one entry
(`MergeOne`, `AssignOne`, `ConsiderOne`), and at the end of the list it is the property:
`MapIsSaid`, `ServedOptions`, `ChosenIsRight`, `ServedLocally`.  `OptsAssumption` (flags
and text options are different names) and `BodyAssumption` (the three special bodies
differ) are the assumptions behind.

### Only model-checked

* `EventuallyCollected` and `AnsweredOrHung`: liveness under fairness is out of the
  prover's reach.

## 5. What is not modelled, and why

* Observability, the mock router and deployment manifests: no behaviour of their
  own.
* Authentication, the assertions that a router supports TLS or status, answers made
  of constants (support, options, info), the parsing of map flags: one condition and
  one answer each, nothing to interleave.
* `Shutdown` waiting for idle connections: `main` has returned by then.
* Wording of annotations and labels, vhost formatting, hashed resource names: the
  names are taken as different for different objects, except for the CName
  Ingresses, whose name really lacks the app.
* The other clients of a base service (`getTsuruClient`, `getExtensionsClient`,
  `getSigsClient`, `getCertManagerClient`): the same code on a field of their own and
  the same `RestConfig`; `SharedClient` stands for each.  Two complete clients are
  taken as equal.

## 6. Plan

Order of the work, most important behaviour first:

1. *Done.*  Ingress backend: model, properties of single and of concurrent
   requests, proofs of type correctness and of the two properties of concurrent requests.
2. *Done.*  Gateway API backend: model and properties, for both ways of running.
3. *Done.*  Load balancer backend: model, abstract specification, refinement
   checked and proved.
4. *Done.*  Istio backend: model, properties, proofs of type correctness and of the
   properties of concurrent requests, the abstract specification among them.
5. *Done.*  `SharedClient` and `RouterAPI`: the status check goroutine by goroutine, the
   clients made in a race, panics, signals and restarts; liveness; proofs of type
   correctness and of the three safety properties.
6. *Done.*  `Opts`, `BackendSelection` and `RequestIntake`: decoding, the modes, the
   choice of a cluster; proofs of all its properties.
7. *Done.*  Proofs for the gateway backend: types, `FrozenSpecKept`, `NoLostUpdate`,
   and what a sequence of requests leaves behind; the same for the load balancer
   and Istio backends.
8. Open: a run that reaches the TLS entries filled in without a Secret, by a second host
   or a CName taken over, should a document ever promise otherwise.
9. *Done.*  Proofs of `CNamesApplied`, `NoOtherCNames`, `NoStrayCertificate` and
   `TLSHasSecret` of the ingress backend; its abstract specification, checked and proved.
10. Runs are kept few: a new question about a modelled backend joins the run whose
   instance reaches it.
