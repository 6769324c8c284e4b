-------------------------- MODULE GatewayProperties --------------------------
(***************************************************************************)
(* What the gateway-api backend promises, stated over GatewayAPI.          *)
(***************************************************************************)
EXTENDS GatewayAPI

\* Every request so far was answered by handler p, one after the other.
Alone(p) == \A q \in Handlers \ {p} : At(q, "idle")

\* Request p succeeded, and no request was under way with it or with one before it.
Applied(p, op) == At(p, "ok") /\ handler[p].req.op = op /\ Alone(p)

\* What a request asks for, where it says anything.
Wanted(r, parent) ==
    /\ ~parent.onListener
    /\ parent.namespace = ChosenNamespace(r)
    /\ parent.gateway # Nil
    /\ r.gateway # Nil => parent.gateway = r.gateway

\* Requests came one after the other, no call failed and nobody else wrote to the
\* cluster.
Undisturbed ==
    /\ \A p \in Handlers : Alone(p) \/ At(p, "idle")
    /\ faults = 0 /\ events = 0

\* A request may have come across route k while it was frozen: it is, or an operator
\* has released it since the request came in.
MetFrozen(k) == route[k].frozen \/ k \in thawed

\* The route k of a prefix that r exposes, and that of one it does not.
PrefixMet(r, k) ==
    /\ Exists(route[k])
    /\ ~MetFrozen(k) =>
            /\ Wanted(r, route[k].parent)
            /\ r.suffix # Nil => route[k].suffix = r.suffix
PrefixSwept(k) == Exists(route[k]) => MetFrozen(k)

\* The route and the ListenerSet k of a CName that r attaches.
CNameMet(r, k) ==
    /\ Exists(route[k])
    /\ ~MetFrozen(k) =>
            IF r.httpOnly THEN Wanted(r, route[k].parent) ELSE route[k].parent = OwnListener
    /\ ~r.httpOnly => Exists(listener[k]) /\ Wanted(r, listener[k].parent)

-----------------------------------------------------------------------------
\* After a successful Ensure the app has exactly the routes of the prefixes it
\* exposes, on the gateway and with the domain suffix the request names, if it
\* does.  Also after requests that failed half-way, with other prefixes or for
\* another gateway, and after any writes by others, before the request and between
\* its calls.  A route that the request may have found frozen stays as it is.
PrefixesApplied ==
    \A p \in Handlers : Applied(p, "Ensure") =>
        LET r == handler[p].req IN
        /\ \A s \in r.prefixes : PrefixMet(r, <<r.app, s>>)
        /\ \A s \in Prefixes \ r.prefixes : PrefixSwept(<<r.app, s>>)

\* After a successful Ensure every CName it works on has its route: under HTTPS
\* on its own ListenerSet, which is there and hangs from the gateway asked
\* for, under HTTP only on that gateway; routes found frozen excepted.
CNamesAttached ==
    \A p \in Handlers : Applied(p, "Ensure") =>
        LET r == handler[p].req IN
        \A c \in EnsuredCNames(r) : CNameMet(r, <<r.app, c>>)

\* A CName's route never hangs from a ListenerSet that is not there, at any
\* step of a sequence of requests that nothing disturbs: the set is written
\* before the route, and deleted after it (ensureCNames, Remove).
ListenerThere ==
    Undisturbed =>
        \A k \in ListenerKeys :
            Exists(route[k]) /\ route[k].parent.onListener => Exists(listener[k])

\* After a successful Ensure the app has no route of a CName it did not ask for
\* (ensureCNames: "Remove CNames that are no longer desired").
OnlyItsCNames ==
    \A p \in Handlers : Applied(p, "Ensure") =>
        \A c \in CNames \ handler[p].req.cnames : ~Exists(route[<<App(p), c>>])

\* That holds as long as nothing disturbs the requests, whatever they are.
NoOtherCNames == Undisturbed => OnlyItsCNames

\* After a successful Remove nothing of the app is left, neither routes nor
\* ListenerSets, whatever failed before and whatever the annotation says.
RemovedIsGone ==
    \A p \in Handlers : Applied(p, "Remove") =>
        /\ \A s \in Slots : ~Exists(route[<<App(p), s>>])
        /\ \A c \in CNames : ~Exists(listener[<<App(p), c>>])

-----------------------------------------------------------------------------
\* The spec of a frozen route is never rewritten, even of one that is frozen
\* after Ensure read it ("HTTPRoute is frozen, skipping", and the same for
\* CNames); deleting it, and updating its annotation, are other matters.
FrozenSpecKeptStep ==
    \A k \in RouteKeys :
        Exists(route[k]) /\ route[k].frozen /\ Exists(route'[k]) =>
            route'[k].parent = route[k].parent /\ route'[k].suffix = route[k].suffix
FrozenSpecKept == [][FrozenSpecKeptStep]_vars

\* Requests for one app, also two at the same time, lose none of each other's
\* writes: storing the CNames in the annotation of the default route keeps the spec
\* and the freeze that are there, and rewriting the spec keeps the annotation that
\* is there, whoever wrote them since they were read.
NoLostUpdateStep ==
    \A k \in RouteKeys, p \in Handlers :
        Exists(route[k]) /\ Exists(route'[k]) =>
            /\ AnnotatePut(p) =>
                /\ route'[k].frozen = route[k].frozen
                /\ route'[k].parent = route[k].parent /\ route'[k].suffix = route[k].suffix
            /\ RoutePut(p) => route'[k].cnames = route[k].cnames
NoLostUpdate == [][NoLostUpdateStep]_vars

-----------------------------------------------------------------------------
(* A promise the code does not keep, see the README.                       *)

\* A request that names no namespace for its gateway gets routes on the gateway in
\* the namespace of its app (gatewayapi.go:105-109), torn reads and other
\* requests for that app left aside.
NamespaceDefaults ==
    \A p \in Handlers :
        LET r == handler[p].req IN
        /\ At(p, "ok") /\ r.op = "Ensure" /\ r.namespace = Nil
        /\ \A q \in Handlers \ {p} : handler[q].req # Nil => App(q) # App(p)
        =>
            \A s \in r.prefixes :
                route[<<r.app, s>>].parent.namespace \in {AppNamespace[r.app], Torn}
=============================================================================
