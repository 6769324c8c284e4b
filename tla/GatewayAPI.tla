----------------------------- MODULE GatewayAPI -----------------------------
(***************************************************************************)
(* The gateway-api backend (src/kubernetes/gatewayapi.go): Ensure and      *)
(* Remove of GatewayAPIService.  As in IngressService every request is a   *)
(* handler of its own and each call to the Kubernetes API one atomic step; *)
(* any call may fail, the process may restart, and nothing is undone.      *)
(*                                                                         *)
(* The fields GatewayName, GatewayNamespace and DomainSuffix of the        *)
(* service belong to the memory of the process: with -controller-modes     *)
(* (Shared) one service answers every request, with a cluster named in the *)
(* headers (multi-cluster.go) each request has a service of its own.       *)
(*                                                                         *)
(* Abstractions.  The HTTPRoutes of an app are stored by slot: a prefix    *)
(* or a CName, both names have the app in them.  Every request exposes the *)
(* default prefix, which holds the list of CNames, and leaves Domain and   *)
(* DomainPrefix unset, so the host of a prefix is decided by the domain    *)
(* suffix.  A CName has an issuer of its own or that of -acme-issuer, or   *)
(* none.                                                                   *)
(***************************************************************************)
EXTENDS Naturals, FiniteSets, KubeAPI

CONSTANTS
    Apps, Prefixes, CNames,
    Default,            \* the default prefix
    AppNamespace,       \* AppNamespace[a]: the namespace of app a
    Gateways, Namespaces, Suffixes,
    Flags,              \* the configuration given by the flags
    Shared,             \* one service for all requests?
    Torn,               \* what a read that races with a write may return
    Requests,           \* the requests that may arrive, see RequestType
    Freezable,          \* the slots of HTTPRoutes that operators may freeze
    Handlers,
    MaxRequests,        \* bound: requests received
    MaxFaults,          \* bound: API calls that fail
    MaxEvents           \* bound: writes by operators and by the gateway

Slots == Prefixes \cup CNames
RouteKeys == Apps \X Slots
ListenerKeys == Apps \X CNames

Config ==
    [gateway : Gateways \cup {Nil, Torn}, namespace : Namespaces \cup {Nil, Torn},
     suffix : Suffixes \cup {Nil, Torn}]

EnsureRequest ==
    [op : {"Ensure"}, app : Apps, prefixes : SUBSET Prefixes,
     gateway : Gateways \cup {Nil}, namespace : Namespaces \cup {Nil},
     suffix : Suffixes \cup {Nil},
     cnames : SUBSET CNames, issuers : SUBSET CNames, httpOnly : BOOLEAN]
RequestType == EnsureRequest \cup [op : {"Remove"}, app : Apps]

ASSUME NamesAssumption ==
    /\ Prefixes \cap CNames = {}
    /\ Default \in Prefixes
    /\ AppNamespace \in [Apps -> Namespaces]
    /\ Flags \in Config
    /\ Shared \in BOOLEAN
ASSUME RequestsAssumption ==
    /\ Requests \subseteq RequestType
    /\ \A r \in Requests : r.op = "Ensure" => Default \in r.prefixes
ASSUME BoundsAssumption ==
    MaxRequests \in Nat /\ MaxFaults \in Nat /\ MaxEvents \in Nat

VARIABLES
    route,              \* the HTTPRoutes, by app and slot
    routeVersion,       \* the last resourceVersion given out to one
    listener,           \* the ListenerSets, by app and CName
    listenerVersion,
    conf,               \* the fields of the services
    handler, received, faults, events,
    thawed              \* history: the routes that operators released from their freeze
                        \* since the last request came in; no guard reads it

routes == <<route, routeVersion>>
listeners == <<listener, listenerVersion>>
cluster == <<routes, listeners>>
bounds == <<received, faults, events, thawed>>
vars == <<cluster, conf, handler, bounds>>

\* What a route or a ListenerSet is attached to: a Gateway, which has a name, or
\* for the route of a CName its ListenerSet.
GatewayParent ==
    [onListener : {FALSE},
     gateway : Gateways \cup {Torn}, namespace : Namespaces \cup {Torn}]
OwnListener == [onListener |-> TRUE, gateway |-> Nil, namespace |-> Nil]
GatewayOf(c) == [onListener |-> FALSE, gateway |-> c.gateway, namespace |-> c.namespace]

\* cnames is the router.tsuru.io/cnames annotation.
Route ==
    [rv : Nat, frozen : BOOLEAN, parent : GatewayParent \cup {OwnListener},
     suffix : Suffixes \cup {Nil, Torn}, cnames : SUBSET CNames]
ListenerSet == [rv : Nat, parent : GatewayParent]

ASSUME NilAssumption ==
    /\ Nil \notin Gateways \cup Namespaces \cup {Torn}
    /\ Nil \notin GatewayParent \cup {OwnListener}
    /\ Nil \notin Route /\ Nil \notin ListenerSet
    /\ Nil \notin RequestType

Steps == {"setgateway", "gatewayset", "setsuffix", "suffixset",
          "routes", "routeput", "list", "sweep", "anycnames", "cnames",
          "cname", "listenerput", "croute", "crouteput", "cnamedrop",
          "orphans", "orphandrop", "annotate", "annotput",
          "remove", "removing", "removemain",
          "removecnames", "removingcnames", "removelisteners", "removinglisteners"}
Ends == {"idle", "ok", "error"}

Handler ==
    [pc : Steps \cup Ends, req : Requests \cup {Nil},
     at : Slots \cup {Nil},                         \* the slot being worked on
     seen : Route \cup ListenerSet \cup {Nil},      \* what the last Get returned
     parent : GatewayParent \cup {OwnListener, Nil}, \* parent of the CName routes, and
                                                    \* of a ListenerSet about to be written
     todo : SUBSET Slots,                           \* slots still to ensure
     doomed : SUBSET Slots]                         \* slots still to delete

StateOK ==
    /\ route \in [RouteKeys -> Route \cup {Nil}]
    /\ routeVersion \in [RouteKeys -> Nat]
    /\ listener \in [ListenerKeys -> ListenerSet \cup {Nil}]
    /\ listenerVersion \in [ListenerKeys -> Nat]
    /\ conf \in [Handlers -> Config]
    /\ handler \in [Handlers -> Handler]
    /\ received \in Nat /\ faults \in Nat /\ events \in Nat

TypeOK == StateOK /\ thawed \subseteq RouteKeys

-----------------------------------------------------------------------------
(* Calls to the API server: a Create of what is there and an Update of     *)
(* another version are refused; an Update that changes nothing keeps the   *)
(* version.  These objects have no finalizers: a Delete is immediate.      *)

Updated(o, m, v) == IF [m EXCEPT !.rv = o.rv] = o THEN o ELSE [m EXCEPT !.rv = v]
NextVersion(o, m, v) == IF Exists(o) /\ [m EXCEPT !.rv = o.rv] = o THEN v ELSE v + 1
Stored(o, m, v) == IF Exists(o) THEN Updated(o, m, v + 1) ELSE [m EXCEPT !.rv = v + 1]

\* The version an Update carries: that of the object read.
SentVersionUnset(seen) == 0                     \* mutation
SentVersion(seen) == seen.rv

Accepted(o, seen) ==
    \/ ~Exists(seen) /\ ~Exists(o)
    \/ Exists(seen) /\ Accepts(o, SentVersion(seen))

WriteRoute(k, m) ==
    /\ route' = [route EXCEPT ![k] = Stored(@, m, routeVersion[k])]
    /\ routeVersion' = [routeVersion EXCEPT ![k] = NextVersion(route[k], m, @)]
    /\ UNCHANGED listeners

WriteListener(k, m) ==
    /\ listener' = [listener EXCEPT ![k] = Stored(@, m, listenerVersion[k])]
    /\ listenerVersion' = [listenerVersion EXCEPT ![k] = NextVersion(listener[k], m, @)]
    /\ UNCHANGED routes

DeleteRoute(k) ==
    /\ route' = [route EXCEPT ![k] = Nil]
    /\ UNCHANGED <<routeVersion, listeners>>

DeleteListener(k) ==
    /\ listener' = [listener EXCEPT ![k] = Nil]
    /\ UNCHANGED <<listenerVersion, routes>>

-----------------------------------------------------------------------------
(* The pure functions of the service.                                      *)

IsFrozenIgnored(r) == FALSE                     \* mutation
IsFrozenHTTPRoute(r) == Exists(r) /\ r.frozen

\* The route of a prefix, from the fields of the service c; mergeAnnotations
\* keeps the annotations of the existing route.
PrefixRoute(c, existing) ==
    [rv |-> 0, frozen |-> FALSE, parent |-> GatewayOf(c), suffix |-> c.suffix,
     cnames |-> IF Exists(existing) THEN existing.cnames ELSE {}]

CNameRoute(parent) ==
    [rv |-> 0, frozen |-> FALSE, parent |-> parent, suffix |-> Nil, cnames |-> {}]

\* getExistingCNames: the annotation of the default route.
ExistingCNames(a) ==
    IF Exists(route[<<a, Default>>]) THEN route[<<a, Default>>].cnames ELSE {}

\* diffCNames, the part ensureCNames uses.
CNamesToAdd(existing, wanted) == wanted \ existing      \* mutation
CNamesToRemove(existing, wanted) == existing \ wanted

\* The CNames ensureCNames works on: over HTTPS the ones with an issuer.
EnsuredCNames(r) == IF r.httpOnly THEN r.cnames ELSE r.cnames \cap r.issuers

\* cleanupHTTPRoutes: the routes of prefixes no longer exposed ...
ObsoleteRoutesNone(a, wanted) == {}             \* mutation
ObsoleteRoutes(a, wanted) ==
    {s \in Prefixes \ wanted : Exists(route[<<a, s>>]) /\ ~IsFrozenHTTPRoute(route[<<a, s>>])}

\* ... and cleanupOrphanedListenerSets: without HTTPS none is wanted.
OrphanedUnissued(a, r) ==                       \* mutation
    {c \in CNames : Exists(listener[<<a, c>>]) /\ (r.httpOnly \/ c \in r.cnames)}
OrphanedListenerSets(a, r) ==
    {c \in CNames : Exists(listener[<<a, c>>]) /\ (r.httpOnly \/ c \notin r.cnames)}

\* What the label selectors of Remove match.
LabelledRoutes(a) == {s \in Prefixes : Exists(route[<<a, s>>])}
TrackedCNameRoutes(a) ==                        \* mutation
    {s \in ExistingCNames(a) : Exists(route[<<a, s>>])}
LabelledCNameRoutes(a) == {s \in CNames : Exists(route[<<a, s>>])}
LabelledListenerSets(a) == {c \in CNames : Exists(listener[<<a, c>>])}

-----------------------------------------------------------------------------
(* Steps of a handler.                                                     *)

Idle == [pc |-> "idle", req |-> Nil, at |-> Nil, seen |-> Nil, parent |-> Nil,
         todo |-> {}, doomed |-> {}]
Unset == [gateway |-> Nil, namespace |-> Nil, suffix |-> Nil]

At(p, step) == handler[p].pc = step
App(p) == handler[p].req.app
Key(p) == <<handler[p].req.app, handler[p].at>>
Goto(p, step) == handler' = [handler EXCEPT ![p].pc = step]
End(p, outcome) ==
    handler' = [handler EXCEPT ![p] = [Idle EXCEPT !.pc = outcome, !.req = handler[p].req]]
Local == UNCHANGED <<cluster, conf, bounds>>

\* The service that handler p works with.
Service(p) == IF Shared THEN CHOOSE q \in Handlers : TRUE ELSE p

InitialConf == [p \in Handlers |-> IF Shared THEN Flags ELSE Unset]

Init ==
    /\ route = [k \in RouteKeys |-> Nil]
    /\ routeVersion = [k \in RouteKeys |-> 0]
    /\ listener = [k \in ListenerKeys |-> Nil]
    /\ listenerVersion = [k \in ListenerKeys |-> 0]
    /\ conf = InitialConf
    /\ handler = [p \in Handlers |-> Idle]
    /\ received = 0 /\ faults = 0 /\ events = 0 /\ thawed = {}

Receive(p) ==
    /\ handler[p].pc \in Ends
    /\ received < MaxRequests
    /\ \E r \in Requests :
        handler' = [handler EXCEPT ![p] =
            [Idle EXCEPT !.pc = IF r.op = "Ensure" THEN "setgateway" ELSE "remove", !.req = r]]
    /\ conf' = IF Shared THEN conf ELSE [conf EXCEPT ![p] = Unset]
    /\ received' = received + 1 /\ thawed' = {}
    /\ UNCHANGED <<cluster, faults, events>>

\* The next step of handler p makes a call.  Ensure looks for former CNames only
\* when it is given none.
Calls(p) ==
    /\ handler[p].pc \in Steps \ {"gatewayset", "suffixset"}
    /\ At(p, "anycnames") => handler[p].req.cnames = {}

\* A call fails and the handler returns the error; those whose error is ignored
\* end Ensure with success (ReadCNames has the other ignored one).
Fail(p) ==
    /\ Calls(p) /\ ~At(p, "cnames")
    /\ faults < MaxFaults /\ faults' = faults + 1
    /\ End(p, IF handler[p].pc \in {"anycnames", "annotate", "annotput"} THEN "ok" ELSE "error")
    /\ UNCHANGED <<cluster, conf, received, events, thawed>>

\* The process crashes and starts again, with the fields the flags give.
Restart ==
    /\ faults < MaxFaults /\ faults' = faults + 1
    /\ handler' = [p \in Handlers |->
            IF handler[p].pc \in Steps
            THEN [Idle EXCEPT !.pc = "error", !.req = handler[p].req] ELSE handler[p]]
    /\ conf' = InitialConf
    /\ UNCHANGED <<cluster, received, events, thawed>>

-----------------------------------------------------------------------------
(* Ensure: the fields of the service.                                      *)

\* A field while new is being stored in it, and after.
Writing(old, new) == IF old = new THEN old ELSE Torn
Chosen(r, c) == IF r.gateway # Nil THEN r.gateway ELSE c.gateway
NeverMissing(g) == FALSE                        \* mutation
GatewayMissing(g) == g = Nil
ChosenNamespace(r) == IF r.namespace # Nil THEN r.namespace ELSE AppNamespace[r.app]
ChosenSuffix(r, c) == IF r.suffix # Nil THEN r.suffix ELSE c.suffix

\* The stores are not synchronised: the handlers that share the service may
\* read a field half-written.
SetGateway(p) ==
    LET r == handler[p].req
        c == conf[Service(p)]
    IN
    /\ At(p, "setgateway")
    /\ conf' = [conf EXCEPT ![Service(p)] =
            [c EXCEPT !.gateway = Writing(c.gateway, Chosen(r, c)),
                      !.namespace = Writing(c.namespace, ChosenNamespace(r))]]
    /\ Goto(p, "gatewayset")
    /\ UNCHANGED <<cluster, bounds>>

\* A request without a gateway gets the one the service has, if it has one.
GatewaySet(p) ==
    LET r == handler[p].req
        c == conf[Service(p)]
        g == Chosen(r, c)
    IN
    /\ At(p, "gatewayset")
    /\ conf' = [conf EXCEPT ![Service(p)] =
            [c EXCEPT !.gateway = g, !.namespace = ChosenNamespace(r)]]
    /\ IF GatewayMissing(g) THEN End(p, "error") ELSE Goto(p, "setsuffix")
    /\ UNCHANGED <<cluster, bounds>>

\* The Services of the prefixes are read between the two.
SetSuffix(p) ==
    /\ At(p, "setsuffix")
    /\ conf' = [conf EXCEPT ![Service(p)].suffix =
                    Writing(@, ChosenSuffix(handler[p].req, conf[Service(p)]))]
    /\ Goto(p, "suffixset")
    /\ UNCHANGED <<cluster, bounds>>

SuffixSet(p) ==
    LET r == handler[p].req IN
    /\ At(p, "suffixset")
    /\ conf' = [conf EXCEPT ![Service(p)].suffix = ChosenSuffix(r, conf[Service(p)])]
    /\ handler' = [handler EXCEPT ![p] = [@ EXCEPT !.pc = "routes", !.todo = r.prefixes]]
    /\ UNCHANGED <<cluster, bounds>>

-----------------------------------------------------------------------------
(* Ensure: the routes of the prefixes.                                     *)

\* On to the next slot of the loop at step.
NextSlot(p, step) ==
    LET h == handler[p] IN
    handler' = [handler EXCEPT ![p] =
        [h EXCEPT !.pc = step, !.todo = h.todo \ {h.at}, !.at = Nil, !.seen = Nil]]

\* Write the object built from what was read, or return the server's refusal.
Upsert(p, o, write, next) ==
    /\ \/ Accepted(o, handler[p].seen) /\ write /\ next
       \/ ~Accepted(o, handler[p].seen) /\ End(p, "error") /\ UNCHANGED cluster
    /\ UNCHANGED <<conf, bounds>>

RouteGet(p) ==
    /\ At(p, "routes")
    /\ \E s \in handler[p].todo :
        LET existing == route[<<App(p), s>>] IN
        \/ /\ IsFrozenHTTPRoute(existing)
           /\ handler' = [handler EXCEPT ![p].todo = @ \ {s}]
        \/ /\ ~IsFrozenHTTPRoute(existing)
           /\ handler' = [handler EXCEPT ![p] =
                [@ EXCEPT !.pc = "routeput", !.at = s, !.seen = existing]]
    /\ Local

\* The route is built from the fields of the service as they are by now.
RoutePut(p) ==
    /\ At(p, "routeput")
    /\ Upsert(p, route[Key(p)],
              WriteRoute(Key(p), PrefixRoute(conf[Service(p)], handler[p].seen)),
              NextSlot(p, "routes"))

\* A loop over slots to delete: they were listed before and go by name.
Doomed(p, step, s) ==
    /\ At(p, step) /\ s \in handler[p].doomed
    /\ handler' = [handler EXCEPT ![p].doomed = @ \ {s}]
    /\ UNCHANGED <<conf, bounds>>
DeleteRouteIn(p, step) == \E s \in Slots : Doomed(p, step, s) /\ DeleteRoute(<<App(p), s>>)
DeleteListenerIn(p, step) == \E c \in CNames : Doomed(p, step, c) /\ DeleteListener(<<App(p), c>>)

ListTo(p, step, next, found) ==
    /\ At(p, step)
    /\ handler' = [handler EXCEPT ![p] = [@ EXCEPT !.pc = next, !.doomed = found]]
    /\ Local

ListObsolete(p) == ListTo(p, "list", "sweep", ObsoleteRoutes(App(p), handler[p].req.prefixes))
DeleteObsolete(p) == DeleteRouteIn(p, "sweep")

-----------------------------------------------------------------------------
(* Ensure: the CNames.                                                     *)

\* Without CNames, now or before, there is nothing more to do.
AnyCNames(p) ==
    /\ At(p, "anycnames")
    /\ \/ /\ handler[p].req.cnames # {} \/ ExistingCNames(App(p)) # {}
          /\ Goto(p, "cnames")
       \/ /\ handler[p].req.cnames = {} /\ ExistingCNames(App(p)) = {}
          /\ End(p, "ok")
    /\ Local

\* The annotation is read again; a failed read counts as an empty one.
ReadCNames(p) ==
    LET r == handler[p].req
        begin(existing) == handler' = [handler EXCEPT ![p] =
            [@ EXCEPT !.pc = "cname", !.todo = EnsuredCNames(r),
                      !.doomed = CNamesToRemove(existing, r.cnames),
                      !.parent = IF r.httpOnly THEN GatewayOf(conf[Service(p)])
                                               ELSE OwnListener]]
    IN
    /\ At(p, "cnames")
    /\ \/ begin(ExistingCNames(r.app)) /\ UNCHANGED faults
       \/ faults < MaxFaults /\ faults' = faults + 1 /\ begin({})
    /\ UNCHANGED <<cluster, conf, received, events, thawed>>

\* ensureListenerSet, before the route that hangs from it: the set is built, from the
\* fields of the service, before the Get.
ListenerGet(p) ==
    /\ At(p, "cname") /\ ~handler[p].req.httpOnly
    /\ \E c \in handler[p].todo :
        handler' = [handler EXCEPT ![p] =
            [@ EXCEPT !.pc = "listenerput", !.at = c, !.seen = listener[<<App(p), c>>],
                      !.parent = GatewayOf(conf[Service(p)])]]
    /\ Local

ListenerPut(p) ==
    /\ At(p, "listenerput")
    /\ Upsert(p, listener[Key(p)],
              WriteListener(Key(p), [rv |-> 0, parent |-> handler[p].parent]),
              handler' = [handler EXCEPT ![p] =
                [@ EXCEPT !.pc = "croute", !.seen = Nil, !.parent = OwnListener]])

\* ensureCNameHTTPRoute
CNameRouteGet(p) ==
    /\ \E c \in CNames :
        /\ \/ At(p, "croute") /\ c = handler[p].at
           \/ At(p, "cname") /\ handler[p].req.httpOnly /\ c \in handler[p].todo
        /\ LET existing == route[<<App(p), c>>] IN
           \/ /\ IsFrozenHTTPRoute(existing)
              /\ handler' = [handler EXCEPT ![p] =
                    [@ EXCEPT !.pc = "cname", !.at = Nil, !.todo = handler[p].todo \ {c}]]
           \/ /\ ~IsFrozenHTTPRoute(existing)
              /\ handler' = [handler EXCEPT ![p] =
                    [@ EXCEPT !.pc = "crouteput", !.at = c, !.seen = existing]]
    /\ Local

CNameRoutePut(p) ==
    /\ At(p, "crouteput")
    /\ Upsert(p, route[Key(p)], WriteRoute(Key(p), CNameRoute(handler[p].parent)),
              NextSlot(p, "cname"))

\* removeCNameHTTPRoute, of the CNames the annotation knew.
DropCName(p) == DeleteRouteIn(p, "cnamedrop")

ListOrphans(p) == ListTo(p, "orphans", "orphandrop", OrphanedListenerSets(App(p), handler[p].req))
DropOrphan(p) == DeleteListenerIn(p, "orphandrop")

\* updateCNamesAnnotation: whatever comes of it, Ensure succeeds.
AnnotateGet(p) ==
    LET main == route[<<App(p), Default>>] IN
    /\ At(p, "annotate")
    /\ \/ ~Exists(main) /\ End(p, "ok")
       \/ /\ Exists(main)
          /\ handler' = [handler EXCEPT ![p] =
                [@ EXCEPT !.pc = "annotput", !.at = Default, !.seen = main]]
    /\ Local

Annotated(seen, wanted) == [seen EXCEPT !.cnames = wanted]

AnnotatePut(p) ==
    LET h == handler[p] IN
    /\ At(p, "annotput")
    /\ \/ /\ Accepted(route[Key(p)], h.seen)
          /\ WriteRoute(Key(p), Annotated(h.seen, h.req.cnames))
       \/ ~Accepted(route[Key(p)], h.seen) /\ UNCHANGED cluster
    /\ End(p, "ok")
    /\ UNCHANGED <<conf, bounds>>

-----------------------------------------------------------------------------
(* Remove.                                                                 *)

ListRoutes(p) == ListTo(p, "remove", "removing", LabelledRoutes(App(p)))
RemoveRoute(p) == DeleteRouteIn(p, "removing")

\* The default route once more, by its name.
RemoveMain(p) ==
    /\ At(p, "removemain")
    /\ DeleteRoute(<<App(p), Default>>)
    /\ Goto(p, "removecnames")
    /\ UNCHANGED <<conf, bounds>>

ListCNameRoutes(p) ==
    ListTo(p, "removecnames", "removingcnames", LabelledCNameRoutes(App(p)))
RemoveCNameRoute(p) == DeleteRouteIn(p, "removingcnames")
ListListenerSets(p) ==
    ListTo(p, "removelisteners", "removinglisteners", LabelledListenerSets(App(p)))
RemoveListenerSet(p) == DeleteListenerIn(p, "removinglisteners")

-----------------------------------------------------------------------------
AfterLoopSwapped ==                             \* mutation
    [routes |-> "list", sweep |-> "anycnames",
     cname |-> "orphans", orphandrop |-> "cnamedrop", cnamedrop |-> "annotate",
     removing |-> "removemain", removingcnames |-> "removelisteners",
     removinglisteners |-> "ok"]

\* What follows a loop that has nothing left to do.
AfterLoop ==
    [routes |-> "list", sweep |-> "anycnames",
     cname |-> "cnamedrop", cnamedrop |-> "orphans", orphandrop |-> "annotate",
     removing |-> "removemain", removingcnames |-> "removelisteners",
     removinglisteners |-> "ok"]

LoopDone(p) ==
    LET h == handler[p] IN
    /\ h.pc \in DOMAIN AfterLoop
    /\ IF h.pc \in {"routes", "cname"} THEN h.todo = {} ELSE h.doomed = {}
    /\ IF AfterLoop[h.pc] = "ok" THEN End(p, "ok") ELSE Goto(p, AfterLoop[h.pc])
    /\ Local

-----------------------------------------------------------------------------
(* EXTERNAL: writes by others.                                             *)

Event == events < MaxEvents /\ events' = events + 1 /\ UNCHANGED <<received, faults>>

\* An operator sets or clears the freeze annotation.
ToggleFreeze(k) ==
    /\ k[2] \in Freezable /\ Exists(route[k]) /\ Event
    /\ WriteRoute(k, [route[k] EXCEPT !.frozen = ~@])
    /\ thawed' = IF route[k].frozen THEN thawed \cup {k} ELSE thawed
    /\ UNCHANGED <<conf, handler>>

\* The gateway's controller writes the status of a route.
WriteStatus(k) ==
    /\ Exists(route[k]) /\ Event
    /\ route' = [route EXCEPT ![k].rv = routeVersion[k] + 1]
    /\ routeVersion' = [routeVersion EXCEPT ![k] = @ + 1]
    /\ UNCHANGED <<listeners, conf, handler, thawed>>

-----------------------------------------------------------------------------
ConfigStep(p) == SetGateway(p) \/ GatewaySet(p) \/ SetSuffix(p) \/ SuffixSet(p)

EnsureStep(p) ==
    \/ RouteGet(p) \/ RoutePut(p) \/ ListObsolete(p) \/ DeleteObsolete(p)
    \/ AnyCNames(p) \/ ReadCNames(p) \/ ListenerGet(p) \/ ListenerPut(p)
    \/ CNameRouteGet(p) \/ CNameRoutePut(p) \/ DropCName(p)
    \/ ListOrphans(p) \/ DropOrphan(p) \/ AnnotateGet(p) \/ AnnotatePut(p)

RemoveStep(p) ==
    \/ ListRoutes(p) \/ RemoveRoute(p) \/ RemoveMain(p)
    \/ ListCNameRoutes(p) \/ RemoveCNameRoute(p)
    \/ ListListenerSets(p) \/ RemoveListenerSet(p)

Next ==
    \/ \E p \in Handlers :
        Receive(p) \/ Fail(p) \/ LoopDone(p) \/ ConfigStep(p) \/ EnsureStep(p) \/ RemoveStep(p)
    \/ Restart
    \/ \E k \in RouteKeys : ToggleFreeze(k) \/ WriteStatus(k)

Spec == Init /\ [][Next]_vars
=============================================================================
