---------------------------- MODULE GatewayProofs ----------------------------
(***************************************************************************)
(* Proofs about GatewayAPI, for any apps, prefixes, CNames, requests,      *)
(* handlers and bounds, with one service for all requests or one for each. *)
(*                                                                         *)
(* The argument: every write gives a route a version no handler has seen,  *)
(* so a route that still has the version a handler read is the one it read *)
(* (SeenIsCurrent), and an Update that the server accepts changes what the *)
(* handler read: a route that is not frozen, an annotation that is there.  *)
(* That routes have a gateway rests on the fields of a service keeping one *)
(* once a request has set it (Configured), torn or not.                    *)
(***************************************************************************)
EXTENDS GatewayProperties, TLAPS

RemoveRequest == [op : {"Remove"}, app : Apps]

RemovePCs == {"remove", "removing", "removemain", "removecnames", "removingcnames",
              "removelisteners", "removinglisteners"}
EnsurePCs == {"setgateway", "gatewayset", "setsuffix", "suffixset",
              "routes", "routeput", "list", "sweep", "anycnames", "cnames",
              "cname", "listenerput", "croute", "crouteput", "cnamedrop",
              "orphans", "orphandrop", "annotate", "annotput"}
\* From the moment the gateway is found on.
ConfiguredPCs == EnsurePCs \ {"setgateway", "gatewayset"}
CNamePCs == {"cname", "listenerput", "croute", "crouteput"}
RoutePuts == {"routeput", "crouteput", "annotput"}

\* The handler holds a route that it has read, and the key of it.
Sees(h) == Exists(h.seen) /\ h.pc \in RoutePuts
KeyOf(h) == <<h.req.app, h.at>>

\* What the position of a handler says of the rest of it.
StageOK(h) ==
    /\ h.pc \in EnsurePCs => h.req \in EnsureRequest
    /\ h.pc \in RemovePCs => h.req \in RemoveRequest
    /\ Sees(h) => h.seen \in Route
    /\ h.pc \in {"routeput", "crouteput"} /\ Exists(h.seen) => ~IsFrozenHTTPRoute(h.seen)
    /\ h.pc = "routeput" => h.at \in Slots
    /\ h.pc \in {"listenerput", "croute", "crouteput"} => h.at \in CNames
    /\ h.pc = "annotput" => h.at = Default /\ Exists(h.seen)
    /\ h.pc \in CNamePCs => h.todo \subseteq CNames /\ h.parent # Nil
    /\ h.pc = "listenerput" => h.parent \in GatewayParent

Staged == \A p \in Handlers : StageOK(handler[p])

\* A service has a gateway as long as a handler uses it, once it had to have one.
Configured ==
    \A p \in Handlers : handler[p].pc \in ConfiguredPCs =>
        conf[Service(p)].gateway # Nil /\ conf[Service(p)].namespace # Nil

VersionsBound ==
    /\ \A k \in RouteKeys : Exists(route[k]) => 0 < route[k].rv /\ route[k].rv <= routeVersion[k]
    /\ \A p \in Handlers : Sees(handler[p]) =>
            /\ 0 < handler[p].seen.rv
            /\ handler[p].seen.rv <= routeVersion[KeyOf(handler[p])]

\* A route that has the version a handler read is the one it read.
SeenIsCurrent ==
    \A p \in Handlers :
        LET seen == handler[p].seen
            o == route[KeyOf(handler[p])]
        IN  Sees(handler[p]) /\ Exists(o) /\ o.rv = seen.rv => o = seen

IInv == StateOK /\ Staged /\ Configured /\ VersionsBound /\ SeenIsCurrent

-----------------------------------------------------------------------------
(* The values the operators return.                                        *)

LEMMA ServiceType ==
    ASSUME NEW p \in Handlers
    PROVE  Service(p) \in Handlers
  <1>1. \E q \in Handlers : TRUE
    OBVIOUS
  <1> QED
    BY <1>1 DEF Service

LEMMA RequestTypes ==
    ASSUME NEW r \in Requests
    PROVE  /\ r \in EnsureRequest \/ r \in RemoveRequest
           /\ r.op = "Ensure" => r \in EnsureRequest
           /\ r.op # "Ensure" => r \in RemoveRequest
  BY RequestsAssumption DEF RequestType, EnsureRequest, RemoveRequest

\* A service with a gateway and a namespace makes a parent.
LEMMA GatewayOfType ==
    ASSUME NEW c \in Config, c.gateway # Nil, c.namespace # Nil
    PROVE  GatewayOf(c) \in GatewayParent
  BY DEF Config, GatewayOf, GatewayParent

LEMMA ParentThere ==
    \A x \in GatewayParent \cup {OwnListener} : x # Nil
  BY NilAssumption

LEMMA PrefixRouteType ==
    ASSUME NEW c \in Config, c.gateway # Nil, c.namespace # Nil,
           NEW seen, Exists(seen) => seen \in Route
    PROVE  /\ PrefixRoute(c, seen) \in Route
           /\ Exists(seen) => PrefixRoute(c, seen).cnames = seen.cnames
  <1> DEFINE g == GatewayOf(c)
             cs == IF Exists(seen) THEN seen.cnames ELSE {}
  <1>1. g \in GatewayParent \cup {OwnListener}
    BY GatewayOfType
  <1>2. cs \in SUBSET CNames
    BY DEF Route
  <1>3. c.suffix \in Suffixes \cup {Nil, Torn}
    BY DEF Config
  <1>4. PrefixRoute(c, seen) =
            [rv |-> 0, frozen |-> FALSE, parent |-> g, suffix |-> c.suffix, cnames |-> cs]
    BY DEF PrefixRoute
  <1> HIDE DEF g, cs
  <1>5. PrefixRoute(c, seen) \in Route /\ PrefixRoute(c, seen).cnames = cs
    BY <1>1, <1>2, <1>3, <1>4 DEF Route
  <1> QED
    BY <1>5 DEF cs

LEMMA CNameRouteType ==
    ASSUME NEW parent \in GatewayParent \cup {OwnListener}
    PROVE  CNameRoute(parent) \in Route
  BY DEF CNameRoute, Route

LEMMA AnnotatedType ==
    ASSUME NEW seen \in Route, NEW wanted \in SUBSET CNames
    PROVE  /\ Annotated(seen, wanted) \in Route
           /\ Annotated(seen, wanted).frozen = seen.frozen
           /\ Annotated(seen, wanted).parent = seen.parent
           /\ Annotated(seen, wanted).suffix = seen.suffix
  BY DEF Annotated, Route

\* What a write stores: what was there, or the manifest with a new version.
LEMMA StoredRoute ==
    ASSUME NEW o \in Route \cup {Nil}, NEW m \in Route, NEW v \in Nat
    PROVE  \/ Exists(o) /\ Stored(o, m, v) = o /\ NextVersion(o, m, v) = v
           \/ /\ Stored(o, m, v) \in Route
              /\ Stored(o, m, v).rv = v + 1 /\ NextVersion(o, m, v) = v + 1
              /\ Stored(o, m, v).frozen = m.frozen /\ Stored(o, m, v).parent = m.parent
              /\ Stored(o, m, v).suffix = m.suffix /\ Stored(o, m, v).cnames = m.cnames
  <1> DEFINE w == [m EXCEPT !.rv = v + 1]
  <1>1. /\ w \in Route /\ w.rv = v + 1
        /\ w.frozen = m.frozen /\ w.parent = m.parent
        /\ w.suffix = m.suffix /\ w.cnames = m.cnames
    BY DEF Route
  <1>2. CASE Exists(o) /\ [m EXCEPT !.rv = o.rv] = o
    BY <1>2 DEF Stored, NextVersion, Updated
  <1>3. CASE ~(Exists(o) /\ [m EXCEPT !.rv = o.rv] = o)
    <2>1. Stored(o, m, v) = w /\ NextVersion(o, m, v) = v + 1
      BY <1>3 DEF Stored, NextVersion, Updated
    <2> HIDE DEF w
    <2> QED
      BY <1>1, <2>1
  <1> QED
    BY <1>2, <1>3

LEMMA StoredListener ==
    ASSUME NEW o \in ListenerSet \cup {Nil}, NEW m \in ListenerSet, NEW v \in Nat
    PROVE  Stored(o, m, v) \in ListenerSet /\ NextVersion(o, m, v) \in Nat
  <1>1. [m EXCEPT !.rv = v + 1] \in ListenerSet
    BY DEF ListenerSet
  <1>2. CASE Exists(o) /\ [m EXCEPT !.rv = o.rv] = o
    BY <1>2 DEF Stored, NextVersion, Updated, Exists
  <1>3. CASE ~(Exists(o) /\ [m EXCEPT !.rv = o.rv] = o)
    BY <1>1, <1>3 DEF Stored, NextVersion, Updated
  <1> QED
    BY <1>2, <1>3

-----------------------------------------------------------------------------
(* The invariant.                                                          *)

\* What a step does to the stored objects: a route that changes gets a version
\* no handler has seen.
StoreStep ==
    /\ route' \in [RouteKeys -> Route \cup {Nil}] /\ routeVersion' \in [RouteKeys -> Nat]
    /\ listener' \in [ListenerKeys -> ListenerSet \cup {Nil}]
    /\ listenerVersion' \in [ListenerKeys -> Nat]
    /\ \A k \in RouteKeys :
        \/ route'[k] = route[k] /\ routeVersion'[k] = routeVersion[k]
        \/ route'[k] = Nil /\ routeVersion'[k] = routeVersion[k]
        \/ /\ route'[k] \in Route
           /\ routeVersion'[k] = routeVersion[k] + 1 /\ route'[k].rv = routeVersion'[k]

\* What a step does to the route that a handler holds: nothing, or it was just
\* read.
SeenStep(q) ==
    Sees(handler'[q]) =>
        \/ handler'[q] = handler[q]
        \/ UNCHANGED routes /\ handler'[q].seen = route[KeyOf(handler'[q])]

LEMMA KeyOfType ==
    ASSUME NEW h, StageOK(h), Sees(h)
    PROVE  KeyOf(h) \in RouteKeys
  <1>1. h.req \in EnsureRequest
    BY DEF StageOK, Sees, RoutePuts, EnsurePCs
  <1>2. h.at \in Slots
    BY NamesAssumption DEF StageOK, Sees, RoutePuts, Slots
  <1> QED
    BY <1>1, <1>2 DEF KeyOf, RouteKeys, EnsureRequest

LEMMA Initially == Init => IInv
  <1> SUFFICES ASSUME Init PROVE IInv
    OBVIOUS
  <1>1. Idle \in Handler
    BY DEF Idle, Handler, Ends
  <1>2. \A p \in Handlers : handler[p] = Idle
    BY DEF Init
  <1>3. Unset \in Config
    BY DEF Unset, Config
  <1>4. StateOK
    BY <1>1, <1>3, NamesAssumption DEF Init, StateOK, InitialConf
  <1>5. StageOK(Idle)
    BY DEF StageOK, Idle, Sees, Exists, EnsurePCs, RemovePCs, RoutePuts, CNamePCs
  <1>6. Staged
    BY <1>2, <1>5 DEF Staged
  <1>7. Configured
    BY <1>2 DEF Configured, Idle, ConfiguredPCs, EnsurePCs
  <1>8. VersionsBound /\ SeenIsCurrent
    BY <1>2 DEF Init, VersionsBound, SeenIsCurrent, Sees, Idle, Exists
  <1> QED
    BY <1>4, <1>6, <1>7, <1>8 DEF IInv

LEMMA Preserved ==
    ASSUME IInv, StoreStep, \A q \in Handlers : SeenStep(q), Staged', Configured',
           handler' \in [Handlers -> Handler], conf' \in [Handlers -> Config],
           received' \in Nat, faults' \in Nat, events' \in Nat
    PROVE  IInv'
  <1>1. StateOK'
    BY DEF StateOK, StoreStep
  <1>2. ASSUME NEW k \in RouteKeys, Exists(route'[k])
        PROVE  0 < route'[k].rv /\ route'[k].rv <= routeVersion'[k]
    <2>1. routeVersion[k] \in Nat
      BY DEF IInv, StateOK
    <2>2. CASE route'[k] = route[k] /\ routeVersion'[k] = routeVersion[k]
      BY <1>2, <2>2 DEF IInv, VersionsBound
    <2>3. CASE /\ route'[k] \in Route
               /\ routeVersion'[k] = routeVersion[k] + 1 /\ route'[k].rv = routeVersion'[k]
      BY <2>1, <2>3
    <2> QED
      BY <1>2, <2>2, <2>3 DEF StoreStep, Exists
  <1>3. ASSUME NEW q \in Handlers, Sees(handler'[q])
        PROVE  /\ KeyOf(handler'[q]) \in RouteKeys
               /\ handler'[q].seen \in Route
               /\ handler'[q].seen.rv \in Nat
               /\ \/ Sees(handler[q]) /\ handler'[q] = handler[q]
                  \/ UNCHANGED routes /\ handler'[q].seen = route[KeyOf(handler'[q])]
    <2>1. StageOK(handler'[q])
      BY DEF Staged
    <2>2. handler'[q].seen \in Route
      BY <1>3, <2>1 DEF StageOK
    <2>3. handler'[q].seen.rv \in Nat
      BY <2>2 DEF Route
    <2>4. KeyOf(handler'[q]) \in RouteKeys
      BY <1>3, <2>1, KeyOfType
    <2> QED
      BY <1>3, <2>2, <2>3, <2>4 DEF SeenStep
  <1>4. ASSUME NEW q \in Handlers, Sees(handler'[q])
        PROVE  /\ 0 < handler'[q].seen.rv
               /\ handler'[q].seen.rv <= routeVersion'[KeyOf(handler'[q])]
    <2> DEFINE k == KeyOf(handler'[q])
    <2>1. k \in RouteKeys /\ routeVersion[k] \in Nat
      BY <1>3, <1>4 DEF IInv, StateOK
    <2>2. routeVersion'[k] \in Nat /\ routeVersion[k] <= routeVersion'[k]
      BY <2>1 DEF StoreStep
    <2>3. CASE Sees(handler[q]) /\ handler'[q] = handler[q]
      <3>1. 0 < handler'[q].seen.rv /\ handler'[q].seen.rv <= routeVersion[k]
        BY <2>3 DEF IInv, VersionsBound
      <3>2. handler'[q].seen.rv \in Nat
        BY <1>3, <1>4
      <3> QED
        BY <2>1, <2>2, <3>1, <3>2
    <2>4. CASE UNCHANGED routes /\ handler'[q].seen = route[k]
      <3>1. Exists(route[k])
        BY <1>4, <2>4 DEF Sees
      <3> QED
        BY <2>1, <2>4, <3>1 DEF IInv, VersionsBound, routes
    <2> QED
      BY <1>3, <1>4, <2>3, <2>4
  <1>5. VersionsBound'
    BY <1>2, <1>4 DEF VersionsBound
  <1>6. SeenIsCurrent'
    <2> SUFFICES ASSUME NEW q \in Handlers, Sees(handler'[q]),
                        Exists(route'[KeyOf(handler'[q])]),
                        route'[KeyOf(handler'[q])].rv = handler'[q].seen.rv
                 PROVE  route'[KeyOf(handler'[q])] = handler'[q].seen
      BY DEF SeenIsCurrent
    <2> DEFINE k == KeyOf(handler'[q])
    <2>1. k \in RouteKeys /\ routeVersion[k] \in Nat
      BY <1>3 DEF IInv, StateOK
    <2>2. CASE UNCHANGED routes /\ handler'[q].seen = route[k]
      BY <2>2 DEF routes
    <2>3. CASE Sees(handler[q]) /\ handler'[q] = handler[q]
      <3>1. handler'[q].seen.rv <= routeVersion[k] /\ handler'[q].seen.rv \in Nat
        BY <1>3, <2>3 DEF IInv, VersionsBound
      <3>2. route'[k].rv # routeVersion[k] + 1
        BY <2>1, <3>1
      <3>3. route'[k] = route[k]
        BY <2>1, <3>2 DEF StoreStep, Exists
      <3> QED
        BY <2>3, <3>3 DEF IInv, SeenIsCurrent
    <2> QED
      BY <1>3, <2>2, <2>3
  <1> QED
    BY <1>1, <1>5, <1>6 DEF IInv

-----------------------------------------------------------------------------
(* The parts of a step.                                                    *)

\* What most steps leave in place: a service that is configured is so for as long
\* as handlers use it.
Advances(q) == handler'[q].pc \in ConfiguredPCs => handler[q].pc \in ConfiguredPCs

LEMMA StaysConfigured ==
    ASSUME IInv, UNCHANGED conf, \A q \in Handlers : Advances(q)
    PROVE  Configured' /\ conf' \in [Handlers -> Config]
  BY DEF IInv, StateOK, Configured, Advances, Service

\* A step of one handler.
LEMMA OneHandler ==
    ASSUME IInv, NEW p \in Handlers, NEW h \in Handler, StageOK(h),
           handler' = [handler EXCEPT ![p] = h],
           Sees(h) => h = handler[p] \/ (UNCHANGED routes /\ h.seen = route[KeyOf(h)])
    PROVE  /\ handler' \in [Handlers -> Handler] /\ Staged'
           /\ \A q \in Handlers : SeenStep(q)
           /\ \A q \in Handlers : q # p => handler'[q] = handler[q]
           /\ handler'[p] = h
  <1>1. handler \in [Handlers -> Handler]
    BY DEF IInv, StateOK
  <1>2. \A q \in Handlers : handler'[q] = IF q = p THEN h ELSE handler[q]
    BY <1>1
  <1>3. handler' \in [Handlers -> Handler]
    BY <1>1
  <1>4. Staged'
    <2>1. \A q \in Handlers : StageOK(handler[q])
      BY DEF IInv, Staged
    <2>2. \A q \in Handlers : StageOK(handler'[q])
      BY <1>2, <2>1
    <2> QED
      BY <2>2 DEF Staged, StageOK
  <1>5. \A q \in Handlers : SeenStep(q)
    BY <1>2 DEF SeenStep
  <1> QED
    BY <1>2, <1>3, <1>4, <1>5

LEMMA SameCluster ==
    ASSUME IInv, UNCHANGED cluster
    PROVE  StoreStep
  BY DEF IInv, StateOK, StoreStep, cluster, routes, listeners

LEMMA WrittenRoute ==
    ASSUME IInv, NEW k \in RouteKeys, NEW m \in Route, WriteRoute(k, m)
    PROVE  StoreStep
  <1> DEFINE o == Stored(route[k], m, routeVersion[k])
             v == NextVersion(route[k], m, routeVersion[k])
  <1>1. /\ route \in [RouteKeys -> Route \cup {Nil}] /\ routeVersion \in [RouteKeys -> Nat]
        /\ listener \in [ListenerKeys -> ListenerSet \cup {Nil}]
        /\ listenerVersion \in [ListenerKeys -> Nat]
    BY DEF IInv, StateOK
  <1>2. /\ route' = [route EXCEPT ![k] = o] /\ routeVersion' = [routeVersion EXCEPT ![k] = v]
        /\ listener' = listener /\ listenerVersion' = listenerVersion
    BY DEF WriteRoute, listeners
  <1>3. \/ o = route[k] /\ v = routeVersion[k]
        \/ o \in Route /\ o.rv = routeVersion[k] + 1 /\ v = routeVersion[k] + 1
    <2>1. route[k] \in Route \cup {Nil} /\ routeVersion[k] \in Nat
      BY <1>1
    <2> QED
      BY <2>1, StoredRoute
  <1>4. o \in Route \cup {Nil} /\ v \in Nat
    BY <1>1, <1>3
  <1> HIDE DEF o, v
  <1> QED
    BY <1>1, <1>2, <1>3, <1>4 DEF StoreStep

LEMMA WrittenListener ==
    ASSUME IInv, NEW k \in ListenerKeys, NEW m \in ListenerSet, WriteListener(k, m)
    PROVE  StoreStep
  <1> DEFINE o == Stored(listener[k], m, listenerVersion[k])
             v == NextVersion(listener[k], m, listenerVersion[k])
  <1>1. /\ route \in [RouteKeys -> Route \cup {Nil}] /\ routeVersion \in [RouteKeys -> Nat]
        /\ listener \in [ListenerKeys -> ListenerSet \cup {Nil}]
        /\ listenerVersion \in [ListenerKeys -> Nat]
    BY DEF IInv, StateOK
  <1>2. /\ listener' = [listener EXCEPT ![k] = o]
        /\ listenerVersion' = [listenerVersion EXCEPT ![k] = v]
        /\ route' = route /\ routeVersion' = routeVersion
    BY DEF WriteListener, routes
  <1>3. o \in ListenerSet /\ v \in Nat
    <2>1. listener[k] \in ListenerSet \cup {Nil} /\ listenerVersion[k] \in Nat
      BY <1>1
    <2> QED
      BY <2>1, StoredListener
  <1> HIDE DEF o, v
  <1> QED
    BY <1>1, <1>2, <1>3 DEF StoreStep

LEMMA DeletedRoute ==
    ASSUME IInv, NEW k, DeleteRoute(k)
    PROVE  StoreStep
  BY DEF IInv, StateOK, DeleteRoute, StoreStep, listeners

LEMMA DeletedListener ==
    ASSUME IInv, NEW k, DeleteListener(k)
    PROVE  StoreStep
  BY DEF IInv, StateOK, DeleteListener, StoreStep, routes

\* A step of one handler that leaves the services alone.
LEMMA StepOf ==
    ASSUME IInv, StoreStep, UNCHANGED conf, NEW p \in Handlers,
           NEW h \in Handler, StageOK(h), handler' = [handler EXCEPT ![p] = h],
           Sees(h) => h = handler[p] \/ (UNCHANGED routes /\ h.seen = route[KeyOf(h)]),
           h.pc \in ConfiguredPCs => handler[p].pc \in ConfiguredPCs,
           received' \in Nat, faults' \in Nat, events' \in Nat
    PROVE  IInv'
  <1>1. /\ handler' \in [Handlers -> Handler] /\ Staged'
        /\ \A q \in Handlers : SeenStep(q)
        /\ \A q \in Handlers : q # p => handler'[q] = handler[q]
        /\ handler'[p] = h
    BY OneHandler
  <1>2. \A q \in Handlers : Advances(q)
    BY <1>1 DEF Advances
  <1>3. Configured' /\ conf' \in [Handlers -> Config]
    BY <1>2, StaysConfigured
  <1> QED
    BY <1>1, <1>3, Preserved

LEMMA BoundsType ==
    ASSUME IInv
    PROVE  /\ received \in Nat /\ faults \in Nat /\ events \in Nat
           /\ UNCHANGED bounds => received' \in Nat /\ faults' \in Nat /\ events' \in Nat
  BY DEF IInv, StateOK, bounds

\* A handler that returns holds nothing.
LEMMA EndedType ==
    ASSUME IInv, NEW p \in Handlers, NEW outcome \in Ends
    PROVE  LET h == [Idle EXCEPT !.pc = outcome, !.req = handler[p].req]
           IN  h \in Handler /\ StageOK(h) /\ ~Sees(h) /\ h.pc = outcome
  <1> DEFINE r == handler[p].req
             h == [Idle EXCEPT !.pc = outcome, !.req = r]
  <1>1. r \in Requests \cup {Nil}
    BY DEF IInv, StateOK, Handler
  <1> HIDE DEF r
  <1>2. h \in Handler
    BY <1>1 DEF Handler, Idle
  <1>3. h.pc = outcome /\ h.seen = Nil
    BY DEF Idle
  <1>4. StageOK(h) /\ ~Sees(h)
    BY <1>3 DEF StageOK, Sees, Ends, EnsurePCs, RemovePCs, RoutePuts, CNamePCs, Exists
  <1> QED
    BY <1>2, <1>3, <1>4 DEF r

LEMMA EndOf ==
    ASSUME IInv, StoreStep, UNCHANGED conf, NEW p \in Handlers, NEW outcome \in Ends,
           End(p, outcome), received' \in Nat, faults' \in Nat, events' \in Nat
    PROVE  IInv'
  <1> DEFINE h == [Idle EXCEPT !.pc = outcome, !.req = handler[p].req]
  <1>1. h \in Handler /\ StageOK(h) /\ ~Sees(h) /\ h.pc = outcome
    BY EndedType
  <1>2. handler' = [handler EXCEPT ![p] = h]
    BY DEF End
  <1>3. outcome \notin ConfiguredPCs
    BY DEF Ends, ConfiguredPCs, EnsurePCs
  <1> HIDE DEF h
  <1> QED
    BY <1>1, <1>2, <1>3, StepOf

\* A handler that only goes on to another step.
LEMMA MovedType ==
    ASSUME NEW h \in Handler, NEW step \in Steps
    PROVE  LET m == [h EXCEPT !.pc = step] IN
           /\ m \in Handler
           /\ m.pc = step /\ m.req = h.req /\ m.at = h.at /\ m.seen = h.seen
           /\ m.parent = h.parent /\ m.todo = h.todo /\ m.doomed = h.doomed
  BY DEF Handler

LEMMA GotoOf ==
    ASSUME IInv, StoreStep, UNCHANGED conf, NEW p \in Handlers,
           NEW step \in Steps \ (RoutePuts \cup CNamePCs), Goto(p, step),
           step \in EnsurePCs => handler[p].req \in EnsureRequest,
           step \in RemovePCs => handler[p].req \in RemoveRequest,
           step \in ConfiguredPCs => handler[p].pc \in ConfiguredPCs,
           received' \in Nat, faults' \in Nat, events' \in Nat
    PROVE  IInv'
  <1> DEFINE h == [handler[p] EXCEPT !.pc = step]
  <1>1. handler[p] \in Handler
    BY DEF IInv, StateOK
  <1>2. h \in Handler /\ h.pc = step /\ h.req = handler[p].req
    BY <1>1, MovedType
  <1>3. handler' = [handler EXCEPT ![p] = h]
    BY DEF Goto
  <1> HIDE DEF h
  <1>4. ~Sees(h)
    BY <1>2 DEF Sees
  <1>5. StageOK(h)
    BY <1>2, <1>4 DEF StageOK, CNamePCs, RoutePuts
  <1> QED
    BY <1>2, <1>3, <1>4, <1>5, StepOf

-----------------------------------------------------------------------------
(* The actions.                                                            *)

LEMMA ReceiveInv ==
    ASSUME IInv, NEW p \in Handlers, Receive(p)
    PROVE  IInv'
  <1>1. PICK r \in Requests : handler' = [handler EXCEPT ![p] =
            [Idle EXCEPT !.pc = IF r.op = "Ensure" THEN "setgateway" ELSE "remove", !.req = r]]
    BY DEF Receive
  <1> DEFINE step == IF r.op = "Ensure" THEN "setgateway" ELSE "remove"
             h == [Idle EXCEPT !.pc = step, !.req = r]
  <1>2. step \in {"setgateway", "remove"}
    OBVIOUS
  <1>3. /\ step \in EnsurePCs => r \in EnsureRequest
        /\ step \in RemovePCs => r \in RemoveRequest
    BY RequestTypes DEF EnsurePCs, RemovePCs
  <1>4. handler' = [handler EXCEPT ![p] = h]
    BY <1>1
  <1> HIDE DEF step
  <1>5. h \in Handler
    BY <1>2 DEF Handler, Idle, Steps
  <1>6. h.pc = step /\ h.req = r /\ h.seen = Nil
    BY DEF Idle
  <1> HIDE DEF h
  <1>7. StageOK(h) /\ ~Sees(h)
    BY <1>2, <1>3, <1>6 DEF StageOK, Sees, RoutePuts, CNamePCs, Exists
  <1>8. /\ handler' \in [Handlers -> Handler] /\ Staged'
        /\ \A q \in Handlers : SeenStep(q)
        /\ \A q \in Handlers : q # p => handler'[q] = handler[q]
        /\ handler'[p] = h
    BY <1>4, <1>5, <1>7, OneHandler
  <1>9. conf' \in [Handlers -> Config]
    <2>1. Unset \in Config
      BY DEF Unset, Config
    <2>2. conf \in [Handlers -> Config]
      BY DEF IInv, StateOK
    <2> QED
      BY <2>1, <2>2 DEF Receive
  <1>10. Configured'
    <2> SUFFICES ASSUME NEW q \in Handlers, handler'[q].pc \in ConfiguredPCs
                 PROVE  conf'[Service(q)].gateway # Nil /\ conf'[Service(q)].namespace # Nil
      BY DEF Configured, Service
    <2>1. q # p /\ handler'[q] = handler[q]
      BY <1>2, <1>6, <1>8 DEF ConfiguredPCs, EnsurePCs
    <2>2. conf[Service(q)].gateway # Nil /\ conf[Service(q)].namespace # Nil
      BY <2>1 DEF IInv, Configured
    <2>3. CASE Shared
      BY <2>2, <2>3 DEF Receive
    <2>4. CASE ~Shared
      <3>1. Service(q) = q /\ conf'[q] = conf[q]
        BY <2>1, <2>4 DEF Receive, Service, IInv, StateOK
      <3> QED
        BY <2>2, <3>1
    <2> QED
      BY <2>3, <2>4
  <1>11. StoreStep
    BY SameCluster DEF Receive
  <1>12. received' \in Nat /\ faults' \in Nat /\ events' \in Nat
    BY DEF IInv, StateOK, Receive
  <1> QED
    BY <1>8, <1>9, <1>10, <1>11, <1>12, Preserved

LEMMA FailInv ==
    ASSUME IInv, NEW p \in Handlers, Fail(p)
    PROVE  IInv'
  <1> DEFINE outcome == IF handler[p].pc \in {"anycnames", "annotate", "annotput"}
                        THEN "ok" ELSE "error"
  <1>1. outcome \in Ends /\ End(p, outcome)
    BY DEF Fail, Ends
  <1>2. StoreStep /\ UNCHANGED conf
    BY SameCluster DEF Fail
  <1>3. received' \in Nat /\ faults' \in Nat /\ events' \in Nat
    BY DEF IInv, StateOK, Fail
  <1> HIDE DEF outcome
  <1> QED
    BY <1>1, <1>2, <1>3, EndOf

LEMMA RestartInv ==
    ASSUME IInv, Restart
    PROVE  IInv'
  <1>1. \A q \in Handlers :
            /\ handler'[q] \in Handler /\ StageOK(handler'[q])
            /\ handler'[q].pc \notin ConfiguredPCs
            /\ Sees(handler'[q]) => handler'[q] = handler[q]
    <2> TAKE q \in Handlers
    <2>1. CASE handler[q].pc \in Steps
      <3> DEFINE h == [Idle EXCEPT !.pc = "error", !.req = handler[q].req]
      <3>1. h \in Handler /\ StageOK(h) /\ ~Sees(h) /\ h.pc = "error"
        BY EndedType DEF Ends
      <3>2. handler'[q] = h
        BY <2>1 DEF Restart
      <3> HIDE DEF h
      <3> QED
        BY <3>1, <3>2 DEF ConfiguredPCs, EnsurePCs
    <2>2. CASE handler[q].pc \notin Steps
      BY <2>2 DEF Restart, IInv, StateOK, Staged, ConfiguredPCs, EnsurePCs, Steps
    <2> QED
      BY <2>1, <2>2
  <1>2. handler' \in [Handlers -> Handler]
    <2>1. DOMAIN handler' = Handlers /\ handler' = [q \in Handlers |-> handler'[q]]
      BY DEF Restart
    <2> QED
      BY <1>1, <2>1
  <1>3. Staged' /\ (\A q \in Handlers : SeenStep(q)) /\ Configured'
    BY <1>1 DEF Staged, SeenStep, Configured
  <1>4. conf' \in [Handlers -> Config]
    <2>1. Unset \in Config /\ Flags \in Config
      BY NamesAssumption DEF Unset, Config
    <2> QED
      BY <2>1 DEF Restart, InitialConf
  <1>5. StoreStep
    BY SameCluster DEF Restart
  <1>6. received' \in Nat /\ faults' \in Nat /\ events' \in Nat
    <2>1. faults' = faults + 1 /\ received' = received /\ events' = events
      BY DEF Restart
    <2> QED
      BY <2>1, BoundsType
  <1> QED
    BY <1>2, <1>3, <1>4, <1>5, <1>6, Preserved

-----------------------------------------------------------------------------
(* Ensure: the fields of the service.                                      *)

\* A store into the fields of a service that has a gateway leaves it one.
LEMMA Reconfigured ==
    ASSUME IInv, NEW s \in Handlers, NEW c \in Config, conf' = [conf EXCEPT ![s] = c],
           conf[s].gateway # Nil => c.gateway # Nil,
           conf[s].namespace # Nil => c.namespace # Nil,
           \A q \in Handlers :
                Advances(q) \/ (Service(q) = s /\ c.gateway # Nil /\ c.namespace # Nil)
    PROVE  Configured' /\ conf' \in [Handlers -> Config]
  <1>1. conf \in [Handlers -> Config]
    BY DEF IInv, StateOK
  <1>2. conf' \in [Handlers -> Config]
    BY <1>1
  <1>3. \A q \in Handlers : conf'[q] = IF q = s THEN c ELSE conf[q]
    BY <1>1
  <1>4. ASSUME NEW q \in Handlers, handler'[q].pc \in ConfiguredPCs
        PROVE  conf'[Service(q)].gateway # Nil /\ conf'[Service(q)].namespace # Nil
    <2>1. Service(q) \in Handlers
      BY ServiceType
    <2>2. CASE Advances(q)
      <3>1. conf[Service(q)].gateway # Nil /\ conf[Service(q)].namespace # Nil
        BY <1>4, <2>2 DEF Advances, IInv, Configured
      <3> QED
        BY <1>3, <2>1, <3>1
    <2>3. CASE Service(q) = s /\ c.gateway # Nil /\ c.namespace # Nil
      BY <1>3, <2>1, <2>3
    <2> QED
      BY <2>2, <2>3
  <1> QED
    BY <1>2, <1>4 DEF Configured, Service

\* What a handler in Ensure knows of its request and its service.
LEMMA EnsuresType ==
    ASSUME IInv, NEW p \in Handlers, handler[p].pc \in EnsurePCs
    PROVE  /\ handler[p].req \in EnsureRequest
           /\ App(p) \in Apps
           /\ Service(p) \in Handlers /\ conf[Service(p)] \in Config
           /\ Chosen(handler[p].req, conf[Service(p)]) \in Gateways \cup {Nil, Torn}
           /\ ChosenNamespace(handler[p].req) \in Namespaces
           /\ ChosenSuffix(handler[p].req, conf[Service(p)]) \in Suffixes \cup {Nil, Torn}
  <1>1. handler[p].req \in EnsureRequest
    BY DEF IInv, Staged, StageOK
  <1>2. Service(p) \in Handlers /\ conf[Service(p)] \in Config
    BY ServiceType DEF IInv, StateOK
  <1>3. App(p) \in Apps
    BY <1>1 DEF App, EnsureRequest
  <1>4. ChosenNamespace(handler[p].req) \in Namespaces
    BY <1>1, NamesAssumption DEF ChosenNamespace, EnsureRequest
  <1> QED
    BY <1>1, <1>2, <1>3, <1>4 DEF Chosen, ChosenSuffix, EnsureRequest, Config

\* A handler that goes on while a service is written.
LEMMA MovesOf ==
    ASSUME IInv, NEW p \in Handlers, handler[p].pc \in EnsurePCs,
           NEW step \in EnsurePCs \ (RoutePuts \cup CNamePCs), Goto(p, step)
    PROVE  /\ handler' \in [Handlers -> Handler] /\ Staged'
           /\ \A q \in Handlers : SeenStep(q)
           /\ \A q \in Handlers : q # p => handler'[q] = handler[q]
           /\ handler'[p].pc = step
  <1> DEFINE h == [handler[p] EXCEPT !.pc = step]
  <1>1. handler[p] \in Handler /\ step \in Steps
    BY DEF IInv, StateOK, EnsurePCs, Steps
  <1>2. h \in Handler /\ h.pc = step /\ h.req = handler[p].req
    BY <1>1, MovedType
  <1>3. handler' = [handler EXCEPT ![p] = h]
    BY DEF Goto
  <1> HIDE DEF h
  <1>4. ~Sees(h)
    BY <1>2 DEF Sees
  <1>5. StageOK(h)
    BY <1>2, <1>4, EnsuresType DEF StageOK, CNamePCs, RoutePuts, RemovePCs, EnsurePCs
  <1> QED
    BY <1>2, <1>3, <1>4, <1>5, OneHandler

LEMMA SetGatewayInv ==
    ASSUME IInv, NEW p \in Handlers, SetGateway(p)
    PROVE  IInv'
  <1> DEFINE r == handler[p].req
             s == Service(p)
             g == Writing(conf[s].gateway, Chosen(r, conf[s]))
             n == Writing(conf[s].namespace, ChosenNamespace(r))
             c == [conf[s] EXCEPT !.gateway = g, !.namespace = n]
  <1>1. handler[p].pc \in EnsurePCs
    BY DEF SetGateway, At, EnsurePCs
  <1>2. s \in Handlers /\ conf[s] \in Config
    BY <1>1, EnsuresType
  <1>3. g \in Gateways \cup {Nil, Torn} /\ n \in Namespaces \cup {Nil, Torn}
    BY <1>2 DEF Writing, Config
  <1>4. conf[s].gateway # Nil => g # Nil
    BY NilAssumption DEF Writing
  <1>5. conf[s].namespace # Nil => n # Nil
    BY NilAssumption DEF Writing
  <1>6. conf' = [conf EXCEPT ![s] = c]
    BY DEF SetGateway
  <1>7. /\ handler' \in [Handlers -> Handler] /\ Staged'
        /\ \A q \in Handlers : SeenStep(q)
        /\ \A q \in Handlers : q # p => handler'[q] = handler[q]
        /\ handler'[p].pc = "gatewayset"
    <2>1. Goto(p, "gatewayset") /\ "gatewayset" \in EnsurePCs \ (RoutePuts \cup CNamePCs)
      BY DEF SetGateway, EnsurePCs, RoutePuts, CNamePCs
    <2> QED
      BY <1>1, <2>1, MovesOf
  <1>8. \A q \in Handlers : Advances(q)
    BY <1>7 DEF Advances, ConfiguredPCs
  <1> HIDE DEF g, n
  <1>9. c \in Config /\ c.gateway = g /\ c.namespace = n
    BY <1>2, <1>3 DEF Config
  <1> HIDE DEF c
  <1>10. Configured' /\ conf' \in [Handlers -> Config]
    BY <1>2, <1>4, <1>5, <1>6, <1>8, <1>9, Reconfigured
  <1>11. StoreStep /\ received' \in Nat /\ faults' \in Nat /\ events' \in Nat
    BY SameCluster, BoundsType DEF SetGateway
  <1> QED
    BY <1>7, <1>10, <1>11, Preserved

LEMMA GatewaySetInv ==
    ASSUME IInv, NEW p \in Handlers, GatewaySet(p)
    PROVE  IInv'
  <1> DEFINE r == handler[p].req
             s == Service(p)
             g == Chosen(r, conf[s])
             n == ChosenNamespace(r)
             c == [conf[s] EXCEPT !.gateway = g, !.namespace = n]
  <1>1. handler[p].pc \in EnsurePCs
    BY DEF GatewaySet, At, EnsurePCs
  <1>2. /\ s \in Handlers /\ conf[s] \in Config
        /\ g \in Gateways \cup {Nil, Torn} /\ n \in Namespaces
    BY <1>1, EnsuresType
  <1>3. (conf[s].gateway # Nil => g # Nil) /\ n # Nil
    BY <1>2, NilAssumption DEF Chosen
  <1>4. conf' = [conf EXCEPT ![s] = c]
    BY DEF GatewaySet
  <1>5. CASE g = Nil
    <2>1. End(p, "error") /\ "error" \in Ends
      BY <1>5 DEF GatewaySet, GatewayMissing, Ends
    <2> DEFINE h == [Idle EXCEPT !.pc = "error", !.req = r]
    <2>2. h \in Handler /\ StageOK(h) /\ ~Sees(h) /\ h.pc = "error"
      BY EndedType DEF Ends
    <2>3. handler' = [handler EXCEPT ![p] = h]
      BY <2>1 DEF End
    <2> HIDE DEF h
    <2>4. /\ handler' \in [Handlers -> Handler] /\ Staged'
          /\ \A q \in Handlers : SeenStep(q)
          /\ \A q \in Handlers : q # p => handler'[q] = handler[q]
          /\ handler'[p] = h
      BY <2>2, <2>3, OneHandler
    <2>5. \A q \in Handlers : Advances(q)
      BY <2>2, <2>4 DEF Advances, ConfiguredPCs, EnsurePCs
    <2> HIDE DEF g, n
    <2>6. c \in Config /\ c.gateway = g /\ c.namespace = n
      BY <1>2 DEF Config
    <2> HIDE DEF c
    <2>7. Configured' /\ conf' \in [Handlers -> Config]
      BY <1>2, <1>3, <1>4, <2>5, <2>6, Reconfigured
    <2>8. StoreStep /\ received' \in Nat /\ faults' \in Nat /\ events' \in Nat
      BY SameCluster, BoundsType DEF GatewaySet
    <2> QED
      BY <2>4, <2>7, <2>8, Preserved
  <1>6. CASE g # Nil
    <2>1. Goto(p, "setsuffix") /\ "setsuffix" \in EnsurePCs \ (RoutePuts \cup CNamePCs)
      BY <1>6 DEF GatewaySet, GatewayMissing, EnsurePCs, RoutePuts, CNamePCs
    <2>2. /\ handler' \in [Handlers -> Handler] /\ Staged'
          /\ \A q \in Handlers : SeenStep(q)
          /\ \A q \in Handlers : q # p => handler'[q] = handler[q]
      BY <1>1, <2>1, MovesOf
    <2> HIDE DEF g, n
    <2>3. c \in Config /\ c.gateway = g /\ c.namespace = n
      BY <1>2 DEF Config
    <2>4. \A q \in Handlers : Advances(q) \/ (Service(q) = s /\ c.gateway # Nil /\ c.namespace # Nil)
      BY <1>3, <1>6, <2>2, <2>3 DEF Advances
    <2> HIDE DEF c, s
    <2>5. Configured' /\ conf' \in [Handlers -> Config]
      BY <1>2, <1>3, <1>4, <1>6, <2>3, <2>4, Reconfigured
    <2>6. StoreStep /\ received' \in Nat /\ faults' \in Nat /\ events' \in Nat
      BY SameCluster, BoundsType DEF GatewaySet
    <2> QED
      BY <2>2, <2>5, <2>6, Preserved
  <1> QED
    BY <1>5, <1>6

\* Of the suffix nothing is asked.
LEMMA Suffixed ==
    ASSUME IInv, NEW s \in Handlers, NEW x \in Suffixes \cup {Nil, Torn},
           conf' = [conf EXCEPT ![s].suffix = x], \A q \in Handlers : Advances(q)
    PROVE  Configured' /\ conf' \in [Handlers -> Config]
  <1> DEFINE c == [conf[s] EXCEPT !.suffix = x]
  <1>1. conf[s] \in Config
    BY DEF IInv, StateOK
  <1>2. c \in Config /\ c.gateway = conf[s].gateway /\ c.namespace = conf[s].namespace
    BY <1>1 DEF Config
  <1>3. conf' = [conf EXCEPT ![s] = c]
    OBVIOUS
  <1> HIDE DEF c
  <1> QED
    BY <1>2, <1>3, Reconfigured

LEMMA SetSuffixInv ==
    ASSUME IInv, NEW p \in Handlers, SetSuffix(p)
    PROVE  IInv'
  <1> DEFINE s == Service(p)
             x == Writing(conf[s].suffix, ChosenSuffix(handler[p].req, conf[s]))
  <1>1. handler[p].pc \in EnsurePCs /\ handler[p].pc \in ConfiguredPCs
    BY DEF SetSuffix, At, EnsurePCs, ConfiguredPCs
  <1>2. s \in Handlers /\ conf[s] \in Config
    BY <1>1, EnsuresType
  <1>3. x \in Suffixes \cup {Nil, Torn}
    BY <1>2 DEF Writing, Config
  <1>4. conf' = [conf EXCEPT ![s].suffix = x]
    BY DEF SetSuffix
  <1>5. /\ handler' \in [Handlers -> Handler] /\ Staged'
        /\ \A q \in Handlers : SeenStep(q)
        /\ \A q \in Handlers : q # p => handler'[q] = handler[q]
    <2>1. Goto(p, "suffixset") /\ "suffixset" \in EnsurePCs \ (RoutePuts \cup CNamePCs)
      BY DEF SetSuffix, EnsurePCs, RoutePuts, CNamePCs
    <2> QED
      BY <1>1, <2>1, MovesOf
  <1>6. \A q \in Handlers : Advances(q)
    BY <1>1, <1>5 DEF Advances
  <1> HIDE DEF s, x
  <1>7. Configured' /\ conf' \in [Handlers -> Config]
    BY <1>2, <1>3, <1>4, <1>6, Suffixed
  <1>8. StoreStep /\ received' \in Nat /\ faults' \in Nat /\ events' \in Nat
    BY SameCluster, BoundsType DEF SetSuffix
  <1> QED
    BY <1>5, <1>7, <1>8, Preserved

LEMMA SuffixSetInv ==
    ASSUME IInv, NEW p \in Handlers, SuffixSet(p)
    PROVE  IInv'
  <1> DEFINE s == Service(p)
             r == handler[p].req
             x == ChosenSuffix(r, conf[s])
             todo == r.prefixes
             h == [handler[p] EXCEPT !.pc = "routes", !.todo = todo]
  <1>1. handler[p].pc \in EnsurePCs /\ handler[p].pc \in ConfiguredPCs
    BY DEF SuffixSet, At, EnsurePCs, ConfiguredPCs
  <1>2. /\ s \in Handlers /\ x \in Suffixes \cup {Nil, Torn}
        /\ r \in EnsureRequest /\ handler[p] \in Handler
    BY <1>1, EnsuresType DEF IInv, StateOK
  <1>3. todo \in SUBSET Slots
    BY <1>2 DEF EnsureRequest, Slots
  <1>4. conf' = [conf EXCEPT ![s].suffix = x] /\ handler' = [handler EXCEPT ![p] = h]
    BY DEF SuffixSet
  <1> HIDE DEF todo
  <1>5. h \in Handler /\ h.pc = "routes" /\ h.req = r
    BY <1>2, <1>3 DEF Handler, Steps
  <1> HIDE DEF h
  <1>6. StageOK(h) /\ ~Sees(h)
    BY <1>2, <1>5 DEF StageOK, Sees, RoutePuts, CNamePCs, RemovePCs
  <1>7. /\ handler' \in [Handlers -> Handler] /\ Staged'
        /\ \A q \in Handlers : SeenStep(q)
        /\ \A q \in Handlers : q # p => handler'[q] = handler[q]
    BY <1>4, <1>5, <1>6, OneHandler
  <1>8. \A q \in Handlers : Advances(q)
    BY <1>1, <1>7 DEF Advances
  <1> HIDE DEF s, x
  <1>9. Configured' /\ conf' \in [Handlers -> Config]
    BY <1>2, <1>4, <1>8, Suffixed
  <1>10. StoreStep /\ received' \in Nat /\ faults' \in Nat /\ events' \in Nat
    BY SameCluster, BoundsType DEF SuffixSet
  <1> QED
    BY <1>7, <1>9, <1>10, Preserved

-----------------------------------------------------------------------------
(* Loops over slots to delete, in Ensure and in Remove.                    *)

\* A handler that keeps its place.
LEMMA DoomedInv ==
    ASSUME IInv, StoreStep, NEW p \in Handlers,
           NEW step \in Steps \ (RoutePuts \cup CNamePCs), NEW s, Doomed(p, step, s)
    PROVE  IInv'
  <1> DEFINE d == handler[p].doomed \ {s}
             h == [handler[p] EXCEPT !.doomed = d]
  <1>1. handler[p] \in Handler /\ handler[p].pc = step /\ StageOK(handler[p])
    BY DEF Doomed, At, IInv, StateOK, Staged
  <1>2. d \in SUBSET Slots
    BY <1>1 DEF Handler
  <1>3. handler' = [handler EXCEPT ![p] = h]
    BY DEF Doomed
  <1> HIDE DEF d
  <1>4. /\ h \in Handler /\ h.pc = step /\ h.req = handler[p].req /\ h.seen = handler[p].seen
    BY <1>1, <1>2 DEF Handler
  <1> HIDE DEF h
  <1>5. ~Sees(h)
    BY <1>4 DEF Sees
  <1>6. StageOK(h)
    BY <1>1, <1>4, <1>5 DEF StageOK, RoutePuts, CNamePCs
  <1>7. UNCHANGED conf /\ received' \in Nat /\ faults' \in Nat /\ events' \in Nat
    BY BoundsType DEF Doomed
  <1> QED
    BY <1>1, <1>3, <1>4, <1>5, <1>6, <1>7, StepOf

LEMMA DeleteRouteInv ==
    ASSUME IInv, NEW p \in Handlers, NEW step \in Steps \ (RoutePuts \cup CNamePCs),
           DeleteRouteIn(p, step)
    PROVE  IInv'
  <1>1. PICK s \in Slots : Doomed(p, step, s) /\ DeleteRoute(<<App(p), s>>)
    BY DEF DeleteRouteIn
  <1> QED
    BY <1>1, DeletedRoute, DoomedInv

LEMMA DeleteListenerInv ==
    ASSUME IInv, NEW p \in Handlers, NEW step \in Steps \ (RoutePuts \cup CNamePCs),
           DeleteListenerIn(p, step)
    PROVE  IInv'
  <1>1. PICK c \in CNames : Doomed(p, step, c) /\ DeleteListener(<<App(p), c>>)
    BY DEF DeleteListenerIn
  <1> QED
    BY <1>1, DeletedListener, DoomedInv

LEMMA ListInv ==
    ASSUME IInv, NEW p \in Handlers, NEW step, NEW next \in Steps \ (RoutePuts \cup CNamePCs),
           NEW found \in SUBSET Slots, ListTo(p, step, next, found),
           next \in EnsurePCs => step \in ConfiguredPCs,
           next \in RemovePCs => step \in RemovePCs
    PROVE  IInv'
  <1> DEFINE h == [handler[p] EXCEPT !.pc = next, !.doomed = found]
  <1>1. handler[p] \in Handler /\ handler[p].pc = step /\ StageOK(handler[p])
    BY DEF ListTo, At, IInv, StateOK, Staged
  <1>2. handler' = [handler EXCEPT ![p] = h]
    BY DEF ListTo
  <1>3. h \in Handler /\ h.pc = next /\ h.req = handler[p].req
    BY <1>1 DEF Handler
  <1> HIDE DEF h
  <1>4. ~Sees(h)
    BY <1>3 DEF Sees
  <1>5. StageOK(h)
    BY <1>1, <1>3, <1>4 DEF StageOK, RoutePuts, CNamePCs, ConfiguredPCs
  <1>6. h.pc \in ConfiguredPCs => handler[p].pc \in ConfiguredPCs
    BY <1>1, <1>3 DEF ConfiguredPCs
  <1>7. StoreStep /\ UNCHANGED conf /\ received' \in Nat /\ faults' \in Nat /\ events' \in Nat
    BY SameCluster, BoundsType DEF ListTo, Local
  <1> QED
    BY <1>2, <1>3, <1>4, <1>5, <1>6, <1>7, StepOf

LEMMA SweepsInv ==
    ASSUME IInv, NEW p \in Handlers,
           \/ ListObsolete(p) \/ DeleteObsolete(p) \/ DropCName(p)
           \/ ListOrphans(p) \/ DropOrphan(p)
    PROVE  IInv'
  <1> USE DEF Steps, RoutePuts, CNamePCs, ConfiguredPCs, EnsurePCs, RemovePCs
  <1>1. CASE ListObsolete(p)
    <2>1. ObsoleteRoutes(App(p), handler[p].req.prefixes) \in SUBSET Slots
      BY DEF ObsoleteRoutes, Slots
    <2> QED
      BY <1>1, <2>1, ListInv DEF ListObsolete
  <1>2. CASE DeleteObsolete(p)
    BY <1>2, DeleteRouteInv DEF DeleteObsolete
  <1>3. CASE DropCName(p)
    BY <1>3, DeleteRouteInv DEF DropCName
  <1>4. CASE ListOrphans(p)
    <2>1. OrphanedListenerSets(App(p), handler[p].req) \in SUBSET Slots
      BY DEF OrphanedListenerSets, Slots
    <2> QED
      BY <1>4, <2>1, ListInv DEF ListOrphans
  <1>5. CASE DropOrphan(p)
    BY <1>5, DeleteListenerInv DEF DropOrphan
  <1> QED
    BY <1>1, <1>2, <1>3, <1>4, <1>5

LEMMA RemoveMainInv ==
    ASSUME IInv, NEW p \in Handlers, RemoveMain(p)
    PROVE  IInv'
  <1>1. handler[p].req \in RemoveRequest
    BY DEF RemoveMain, At, IInv, Staged, StageOK, RemovePCs
  <1>2. StoreStep
    BY DeletedRoute DEF RemoveMain
  <1>3. /\ Goto(p, "removecnames") /\ UNCHANGED conf
        /\ received' \in Nat /\ faults' \in Nat /\ events' \in Nat
    BY BoundsType DEF RemoveMain
  <1>4. /\ "removecnames" \in Steps \ (RoutePuts \cup CNamePCs)
        /\ "removecnames" \notin EnsurePCs /\ "removecnames" \notin ConfiguredPCs
    BY DEF Steps, RoutePuts, CNamePCs, EnsurePCs, ConfiguredPCs
  <1> QED
    BY <1>1, <1>2, <1>3, <1>4, GotoOf

LEMMA RemoveInv ==
    ASSUME IInv, NEW p \in Handlers, RemoveStep(p)
    PROVE  IInv'
  <1> USE DEF Steps, RoutePuts, CNamePCs, ConfiguredPCs, EnsurePCs, RemovePCs
  <1>1. CASE ListRoutes(p)
    <2>1. LabelledRoutes(App(p)) \in SUBSET Slots
      BY DEF LabelledRoutes, Slots
    <2> QED
      BY <1>1, <2>1, ListInv DEF ListRoutes
  <1>2. CASE RemoveRoute(p)
    BY <1>2, DeleteRouteInv DEF RemoveRoute
  <1>3. CASE RemoveMain(p)
    BY <1>3, RemoveMainInv
  <1>4. CASE ListCNameRoutes(p)
    <2>1. LabelledCNameRoutes(App(p)) \in SUBSET Slots
      BY DEF LabelledCNameRoutes, Slots
    <2> QED
      BY <1>4, <2>1, ListInv DEF ListCNameRoutes
  <1>5. CASE RemoveCNameRoute(p)
    BY <1>5, DeleteRouteInv DEF RemoveCNameRoute
  <1>6. CASE ListListenerSets(p)
    <2>1. LabelledListenerSets(App(p)) \in SUBSET Slots
      BY DEF LabelledListenerSets, Slots
    <2> QED
      BY <1>6, <2>1, ListInv DEF ListListenerSets
  <1>7. CASE RemoveListenerSet(p)
    BY <1>7, DeleteListenerInv DEF RemoveListenerSet
  <1> QED
    BY <1>1, <1>2, <1>3, <1>4, <1>5, <1>6, <1>7 DEF RemoveStep

\* The loops end: in Ensure one follows another, in Remove too.
LEMMA LoopDoneInv ==
    ASSUME IInv, NEW p \in Handlers, LoopDone(p)
    PROVE  IInv'
  <1> DEFINE pc == handler[p].pc
  <1>1. /\ pc \in {"routes", "sweep", "cname", "orphandrop", "cnamedrop",
                   "removing", "removingcnames", "removinglisteners"}
        /\ AfterLoop[pc] = "ok" => End(p, "ok")
        /\ AfterLoop[pc] # "ok" => Goto(p, AfterLoop[pc])
        /\ Local
    BY DEF LoopDone, AfterLoop
  <1>2. StoreStep /\ UNCHANGED conf /\ received' \in Nat /\ faults' \in Nat /\ events' \in Nat
    BY <1>1, SameCluster, BoundsType DEF Local
  <1>3. CASE AfterLoop[pc] = "ok"
    BY <1>1, <1>2, <1>3, EndOf DEF Ends
  <1>4. CASE AfterLoop[pc] # "ok"
    <2> DEFINE step == AfterLoop[pc]
    <2>1. pc \in {"routes", "sweep", "cname", "orphandrop", "cnamedrop",
                  "removing", "removingcnames"}
      BY <1>1, <1>4 DEF AfterLoop
    <2>2. /\ pc \in {"routes", "sweep", "cname", "orphandrop", "cnamedrop"} =>
                step \in {"list", "anycnames", "cnamedrop", "orphans", "annotate"}
          /\ pc \in {"removing", "removingcnames"} => step \in {"removemain", "removelisteners"}
      BY DEF AfterLoop
    <2>3. StageOK(handler[p])
      BY DEF IInv, Staged
    <2> HIDE DEF step
    <2>4. /\ step \in Steps \ (RoutePuts \cup CNamePCs)
          /\ step \in EnsurePCs => handler[p].req \in EnsureRequest
          /\ step \in RemovePCs => handler[p].req \in RemoveRequest
          /\ step \in ConfiguredPCs => pc \in ConfiguredPCs
      BY <2>1, <2>2, <2>3
         DEF StageOK, Steps, RoutePuts, CNamePCs, EnsurePCs, RemovePCs, ConfiguredPCs
    <2>5. Goto(p, step)
      BY <1>1, <1>4 DEF step
    <2> HIDE DEF pc
    <2> QED
      BY <1>2, <2>4, <2>5, GotoOf DEF pc
  <1> QED
    BY <1>3, <1>4

LEMMA AnyCNamesInv ==
    ASSUME IInv, NEW p \in Handlers, AnyCNames(p)
    PROVE  IInv'
  <1>1. StoreStep /\ UNCHANGED conf /\ received' \in Nat /\ faults' \in Nat /\ events' \in Nat
    BY SameCluster, BoundsType DEF AnyCNames, Local
  <1>2. handler[p].pc = "anycnames" /\ handler[p].req \in EnsureRequest
    BY DEF AnyCNames, At, IInv, Staged, StageOK, EnsurePCs
  <1>3. CASE Goto(p, "cnames")
    BY <1>1, <1>2, <1>3, GotoOf DEF Steps, RoutePuts, CNamePCs, EnsurePCs, RemovePCs, ConfiguredPCs
  <1>4. CASE End(p, "ok")
    BY <1>1, <1>4, EndOf DEF Ends
  <1> QED
    BY <1>3, <1>4 DEF AnyCNames

LEMMA ReadCNamesInv ==
    ASSUME IInv, NEW p \in Handlers, ReadCNames(p)
    PROVE  IInv'
  <1> DEFINE r == handler[p].req
             todo == EnsuredCNames(r)
             parent == IF r.httpOnly THEN GatewayOf(conf[Service(p)]) ELSE OwnListener
  <1>1. handler[p].pc \in EnsurePCs /\ handler[p].pc \in ConfiguredPCs
    BY DEF ReadCNames, At, EnsurePCs, ConfiguredPCs
  <1>2. /\ r \in EnsureRequest /\ r.app \in Apps /\ conf[Service(p)] \in Config
        /\ handler[p] \in Handler
    BY <1>1, EnsuresType DEF App, IInv, StateOK
  <1>3. todo \in SUBSET CNames
    BY <1>2 DEF EnsuredCNames, EnsureRequest
  <1>4. parent \in GatewayParent \cup {OwnListener} /\ parent # Nil
    <2>1. conf[Service(p)].gateway # Nil /\ conf[Service(p)].namespace # Nil
      BY <1>1 DEF IInv, Configured
    <2>2. GatewayOf(conf[Service(p)]) \in GatewayParent
      BY <1>2, <2>1, GatewayOfType
    <2>3. \A x \in GatewayParent \cup {OwnListener} : x # Nil
      BY ParentThere
    <2> QED
      BY <2>2, <2>3
  <1>5. PICK existing \in SUBSET CNames : handler' = [handler EXCEPT ![p] =
            [handler[p] EXCEPT !.pc = "cname", !.todo = todo,
                               !.doomed = CNamesToRemove(existing, r.cnames),
                               !.parent = parent]]
    <2>1. ExistingCNames(r.app) \in SUBSET CNames
      <3>1. route[<<r.app, Default>>] \in Route \cup {Nil}
        BY <1>2, NamesAssumption DEF IInv, StateOK, RouteKeys, Slots
      <3> QED
        BY <3>1 DEF ExistingCNames, Route, Exists
    <2> QED
      BY <2>1 DEF ReadCNames
  <1> DEFINE doomed == CNamesToRemove(existing, r.cnames)
             h == [handler[p] EXCEPT !.pc = "cname", !.todo = todo,
                                     !.doomed = doomed, !.parent = parent]
  <1>6. doomed \in SUBSET Slots
    BY DEF CNamesToRemove, Slots
  <1>7. handler' = [handler EXCEPT ![p] = h]
    BY <1>5
  <1>8. StoreStep /\ UNCHANGED conf /\ received' \in Nat /\ faults' \in Nat /\ events' \in Nat
    BY SameCluster, BoundsType DEF ReadCNames
  <1> HIDE DEF todo, parent, doomed
  <1>9. /\ h \in Handler /\ h.pc = "cname" /\ h.req = r
        /\ h.todo = todo /\ h.parent = parent
    BY <1>2, <1>3, <1>4, <1>6 DEF Handler, Steps, Slots
  <1> HIDE DEF h
  <1>10. ~Sees(h) /\ StageOK(h)
    BY <1>2, <1>3, <1>4, <1>9 DEF StageOK, Sees, RoutePuts, RemovePCs
  <1> QED
    BY <1>1, <1>7, <1>8, <1>9, <1>10, StepOf

-----------------------------------------------------------------------------
(* The routes: a Get, and the Create or Update that follows it.            *)

LEMMA ReadEdit ==
    ASSUME NEW x \in Handler, NEW step \in Steps, NEW s \in Slots, NEW o \in Route \cup {Nil}
    PROVE  [x EXCEPT !.pc = step, !.at = s, !.seen = o] \in Handler
  BY DEF Handler

\* A handler that has just read a route of its app.
LEMMA RouteRead ==
    ASSUME IInv, NEW p \in Handlers, handler[p].pc \in ConfiguredPCs,
           NEW step \in RoutePuts, NEW s \in Slots,
           handler' = [handler EXCEPT ![p] =
                [handler[p] EXCEPT !.pc = step, !.at = s, !.seen = route[<<App(p), s>>]]],
           step # "annotput" => ~IsFrozenHTTPRoute(route[<<App(p), s>>]),
           step = "annotput" => s = Default /\ Exists(route[<<App(p), s>>]),
           step = "crouteput" =>
                s \in CNames /\ handler[p].todo \subseteq CNames /\ handler[p].parent # Nil,
           Local
    PROVE  IInv'
  <1> DEFINE o == route[<<App(p), s>>]
             h == [handler[p] EXCEPT !.pc = step, !.at = s, !.seen = o]
  <1>1. handler[p].req \in EnsureRequest /\ App(p) \in Apps
    BY EnsuresType DEF ConfiguredPCs
  <1>2. o \in Route \cup {Nil} /\ handler[p] \in Handler
    BY <1>1 DEF IInv, StateOK, RouteKeys
  <1>3. handler' = [handler EXCEPT ![p] = h]
    OBVIOUS
  <1>4. UNCHANGED routes
    BY DEF Local, cluster
  <1> HIDE DEF o
  <1>5. /\ h \in Handler /\ h.pc = step /\ h.at = s /\ h.seen = o
        /\ h.req = handler[p].req /\ h.todo = handler[p].todo /\ h.parent = handler[p].parent
    <2>1. step \in Steps
      BY DEF Steps, RoutePuts
    <2>2. h \in Handler
      BY <1>2, <2>1, ReadEdit
    <2>3. /\ h.pc = step /\ h.at = s /\ h.seen = o
          /\ h.req = handler[p].req /\ h.todo = handler[p].todo /\ h.parent = handler[p].parent
      BY <1>2, SMTT(30) DEF Handler
    <2> QED
      BY <2>2, <2>3
  <1> HIDE DEF h
  <1>6. KeyOf(h) = <<App(p), s>>
    BY <1>5 DEF KeyOf, App
  <1>7. StageOK(h)
    BY <1>1, <1>2, <1>5 DEF StageOK, RoutePuts, CNamePCs, RemovePCs, Sees, Exists, o
  <1>8. StoreStep /\ UNCHANGED conf /\ received' \in Nat /\ faults' \in Nat /\ events' \in Nat
    BY SameCluster, BoundsType DEF Local
  <1> QED
    BY <1>3, <1>4, <1>5, <1>6, <1>7, <1>8, StepOf DEF o

\* A handler that is done with a slot, or passes it over.
LEMMA SlotDone ==
    ASSUME IInv, StoreStep, UNCHANGED conf, NEW p \in Handlers,
           handler[p].pc \in ConfiguredPCs,
           NEW step \in {"routes", "cname"}, NEW c, NEW at \in Slots \cup {Nil},
           NEW seen \in Route \cup ListenerSet \cup {Nil},
           handler' = [handler EXCEPT ![p] =
                [handler[p] EXCEPT !.pc = step, !.todo = handler[p].todo \ {c},
                                   !.at = at, !.seen = seen]],
           step = "cname" => handler[p].todo \subseteq CNames /\ handler[p].parent # Nil,
           received' \in Nat, faults' \in Nat, events' \in Nat
    PROVE  IInv'
  <1> DEFINE todo == handler[p].todo \ {c}
             h == [handler[p] EXCEPT !.pc = step, !.todo = todo, !.at = at, !.seen = seen]
  <1>1. handler[p].req \in EnsureRequest
    BY EnsuresType DEF ConfiguredPCs
  <1>2. handler[p] \in Handler
    BY DEF IInv, StateOK
  <1>3. todo \in SUBSET Slots /\ todo \subseteq handler[p].todo
    BY <1>2 DEF Handler
  <1>4. handler' = [handler EXCEPT ![p] = h]
    OBVIOUS
  <1> HIDE DEF todo
  <1>5. /\ h \in Handler /\ h.pc = step /\ h.req = handler[p].req
        /\ h.todo = todo /\ h.parent = handler[p].parent
    <2>1. step \in Steps
      BY DEF Steps
    <2> QED
      BY <1>2, <1>3, <2>1 DEF Handler
  <1> HIDE DEF h
  <1>6. ~Sees(h) /\ StageOK(h)
    BY <1>1, <1>3, <1>5 DEF StageOK, Sees, RoutePuts, RemovePCs, CNamePCs
  <1> QED
    BY <1>4, <1>5, <1>6, StepOf

\* The Create or Update of a route, refused or not.
LEMMA RouteUpserted ==
    ASSUME IInv, NEW p \in Handlers, handler[p].pc \in ConfiguredPCs, Key(p) \in RouteKeys,
           NEW m \in Route, NEW step \in {"routes", "cname"},
           step = "cname" => handler[p].todo \subseteq CNames /\ handler[p].parent # Nil,
           Upsert(p, route[Key(p)], WriteRoute(Key(p), m), NextSlot(p, step))
    PROVE  IInv'
  <1>1. UNCHANGED conf /\ received' \in Nat /\ faults' \in Nat /\ events' \in Nat
    BY BoundsType DEF Upsert
  <1>2. CASE WriteRoute(Key(p), m) /\ NextSlot(p, step)
    <2>1. StoreStep
      BY <1>2, WrittenRoute
    <2>2. handler' = [handler EXCEPT ![p] =
                [handler[p] EXCEPT !.pc = step, !.todo = handler[p].todo \ {handler[p].at},
                                   !.at = Nil, !.seen = Nil]]
      BY <1>2 DEF NextSlot
    <2> QED
      BY <1>1, <2>1, <2>2, SlotDone
  <1>3. CASE End(p, "error") /\ UNCHANGED cluster
    BY <1>1, <1>3, SameCluster, EndOf DEF Ends
  <1> QED
    BY <1>2, <1>3 DEF Upsert

\* What a handler that is about to write a route holds.
LEMMA PutType ==
    ASSUME IInv, NEW p \in Handlers, handler[p].pc \in RoutePuts
    PROVE  /\ handler[p].pc \in ConfiguredPCs /\ handler[p].req \in EnsureRequest
           /\ Key(p) \in RouteKeys
           /\ Exists(handler[p].seen) => Sees(handler[p]) /\ handler[p].seen \in Route
           /\ conf[Service(p)] \in Config
           /\ conf[Service(p)].gateway # Nil /\ conf[Service(p)].namespace # Nil
           /\ handler[p].pc = "crouteput" =>
                /\ handler[p].todo \subseteq CNames
                /\ handler[p].parent \in GatewayParent \cup {OwnListener}
  <1>1. handler[p].pc \in ConfiguredPCs /\ handler[p].pc \in EnsurePCs
    BY DEF RoutePuts, ConfiguredPCs, EnsurePCs
  <1>2. StageOK(handler[p]) /\ handler[p] \in Handler
    BY DEF IInv, Staged, StateOK
  <1>3. handler[p].req \in EnsureRequest /\ App(p) \in Apps /\ conf[Service(p)] \in Config
    BY <1>1, EnsuresType
  <1>4. handler[p].at \in Slots
    BY <1>2, NamesAssumption DEF StageOK, RoutePuts, Slots
  <1>5. Key(p) \in RouteKeys
    BY <1>3, <1>4 DEF Key, RouteKeys, App
  <1>6. Exists(handler[p].seen) => Sees(handler[p]) /\ handler[p].seen \in Route
    BY <1>2 DEF StageOK, Sees
  <1>7. conf[Service(p)].gateway # Nil /\ conf[Service(p)].namespace # Nil
    BY <1>1 DEF IInv, Configured
  <1>8. handler[p].pc = "crouteput" =>
                /\ handler[p].todo \subseteq CNames
                /\ handler[p].parent \in GatewayParent \cup {OwnListener}
    BY <1>2 DEF StageOK, CNamePCs, Handler
  <1> QED
    BY <1>1, <1>3, <1>5, <1>6, <1>7, <1>8

LEMMA RouteGetInv ==
    ASSUME IInv, NEW p \in Handlers, RouteGet(p)
    PROVE  IInv'
  <1>1. /\ handler[p].pc = "routes" /\ handler[p].pc \in ConfiguredPCs
        /\ handler[p] \in Handler /\ Local
    BY DEF RouteGet, At, ConfiguredPCs, EnsurePCs, IInv, StateOK
  <1>2. PICK s \in handler[p].todo :
            \/ handler' = [handler EXCEPT ![p].todo = @ \ {s}]
            \/ /\ ~IsFrozenHTTPRoute(route[<<App(p), s>>])
               /\ handler' = [handler EXCEPT ![p] =
                    [handler[p] EXCEPT !.pc = "routeput", !.at = s,
                                       !.seen = route[<<App(p), s>>]]]
    BY DEF RouteGet
  <1>3. s \in Slots
    BY <1>1 DEF Handler
  <1>4. CASE handler' = [handler EXCEPT ![p].todo = @ \ {s}]
    <2>1. handler' = [handler EXCEPT ![p] =
                [handler[p] EXCEPT !.pc = "routes", !.todo = handler[p].todo \ {s},
                                   !.at = handler[p].at, !.seen = handler[p].seen]]
      <3>1. [handler[p] EXCEPT !.todo = handler[p].todo \ {s}] =
            [handler[p] EXCEPT !.pc = "routes", !.todo = handler[p].todo \ {s},
                               !.at = handler[p].at, !.seen = handler[p].seen]
        BY <1>1 DEF Handler
      <3> QED
        BY <1>4, <3>1
    <2>2. /\ handler[p].at \in Slots \cup {Nil}
          /\ handler[p].seen \in Route \cup ListenerSet \cup {Nil}
      BY <1>1 DEF Handler
    <2>3. StoreStep /\ UNCHANGED conf /\ received' \in Nat /\ faults' \in Nat /\ events' \in Nat
      BY <1>1, SameCluster, BoundsType DEF Local
    <2> QED
      BY <1>1, <2>1, <2>2, <2>3, SlotDone
  <1>5. CASE /\ ~IsFrozenHTTPRoute(route[<<App(p), s>>])
             /\ handler' = [handler EXCEPT ![p] =
                    [handler[p] EXCEPT !.pc = "routeput", !.at = s,
                                       !.seen = route[<<App(p), s>>]]]
    BY <1>1, <1>3, <1>5, RouteRead DEF RoutePuts
  <1> QED
    BY <1>2, <1>4, <1>5

LEMMA RoutePutInv ==
    ASSUME IInv, NEW p \in Handlers, RoutePut(p)
    PROVE  IInv'
  <1> DEFINE m == PrefixRoute(conf[Service(p)], handler[p].seen)
  <1>1. handler[p].pc \in RoutePuts
    BY DEF RoutePut, At, RoutePuts
  <1>2. m \in Route
    BY <1>1, PutType, PrefixRouteType
  <1>3. Upsert(p, route[Key(p)], WriteRoute(Key(p), m), NextSlot(p, "routes"))
    BY DEF RoutePut
  <1> HIDE DEF m
  <1> QED
    BY <1>1, <1>2, <1>3, PutType, RouteUpserted

LEMMA CNameRoutePutInv ==
    ASSUME IInv, NEW p \in Handlers, CNameRoutePut(p)
    PROVE  IInv'
  <1> DEFINE m == CNameRoute(handler[p].parent)
  <1>1. handler[p].pc = "crouteput" /\ handler[p].pc \in RoutePuts
    BY DEF CNameRoutePut, At, RoutePuts
  <1>2. /\ handler[p].todo \subseteq CNames
        /\ handler[p].parent \in GatewayParent \cup {OwnListener}
        /\ handler[p].parent # Nil
    BY <1>1, PutType, ParentThere
  <1>3. m \in Route
    BY <1>2, CNameRouteType
  <1>4. Upsert(p, route[Key(p)], WriteRoute(Key(p), m), NextSlot(p, "cname"))
    BY DEF CNameRoutePut
  <1> HIDE DEF m
  <1> QED
    BY <1>1, <1>2, <1>3, <1>4, PutType, RouteUpserted

LEMMA CNameRouteGetInv ==
    ASSUME IInv, NEW p \in Handlers, CNameRouteGet(p)
    PROVE  IInv'
  <1>1. /\ handler[p].pc \in ConfiguredPCs /\ handler[p] \in Handler
        /\ handler[p].todo \subseteq CNames /\ handler[p].parent # Nil /\ Local
    BY DEF CNameRouteGet, At, ConfiguredPCs, EnsurePCs, IInv, StateOK, Staged, StageOK, CNamePCs
  <1>2. PICK c \in CNames :
            \/ handler' = [handler EXCEPT ![p] =
                    [handler[p] EXCEPT !.pc = "cname", !.at = Nil, !.todo = handler[p].todo \ {c}]]
            \/ /\ ~IsFrozenHTTPRoute(route[<<App(p), c>>])
               /\ handler' = [handler EXCEPT ![p] =
                    [handler[p] EXCEPT !.pc = "crouteput", !.at = c,
                                       !.seen = route[<<App(p), c>>]]]
    BY DEF CNameRouteGet
  <1>3. c \in Slots
    BY DEF Slots
  <1>4. CASE handler' = [handler EXCEPT ![p] =
                [handler[p] EXCEPT !.pc = "cname", !.at = Nil, !.todo = handler[p].todo \ {c}]]
    <2>1. handler' = [handler EXCEPT ![p] =
                [handler[p] EXCEPT !.pc = "cname", !.todo = handler[p].todo \ {c},
                                   !.at = Nil, !.seen = handler[p].seen]]
      <3>1. [handler[p] EXCEPT !.pc = "cname", !.at = Nil, !.todo = handler[p].todo \ {c}] =
            [handler[p] EXCEPT !.pc = "cname", !.todo = handler[p].todo \ {c},
                               !.at = Nil, !.seen = handler[p].seen]
        BY <1>1 DEF Handler
      <3> QED
        BY <1>4, <3>1
    <2>2. handler[p].seen \in Route \cup ListenerSet \cup {Nil}
      BY <1>1 DEF Handler
    <2>3. StoreStep /\ UNCHANGED conf /\ received' \in Nat /\ faults' \in Nat /\ events' \in Nat
      BY <1>1, SameCluster, BoundsType DEF Local
    <2> QED
      BY <1>1, <2>1, <2>2, <2>3, SlotDone
  <1>5. CASE /\ ~IsFrozenHTTPRoute(route[<<App(p), c>>])
             /\ handler' = [handler EXCEPT ![p] =
                    [handler[p] EXCEPT !.pc = "crouteput", !.at = c,
                                       !.seen = route[<<App(p), c>>]]]
    BY <1>1, <1>3, <1>5, RouteRead DEF RoutePuts
  <1> QED
    BY <1>2, <1>4, <1>5

-----------------------------------------------------------------------------
(* The ListenerSets and the annotation.                                    *)

LEMMA ListenerGetInv ==
    ASSUME IInv, NEW p \in Handlers, ListenerGet(p)
    PROVE  IInv'
  <1>1. /\ handler[p].pc = "cname" /\ handler[p] \in Handler
        /\ handler[p].req \in EnsureRequest /\ App(p) \in Apps
        /\ handler[p].todo \subseteq CNames
        /\ conf[Service(p)] \in Config
        /\ conf[Service(p)].gateway # Nil /\ conf[Service(p)].namespace # Nil
    BY EnsuresType DEF ListenerGet, At, EnsurePCs, IInv, StateOK, Staged, StageOK, CNamePCs,
                       Configured, ConfiguredPCs
  <1>2. PICK c \in handler[p].todo : handler' = [handler EXCEPT ![p] =
            [handler[p] EXCEPT !.pc = "listenerput", !.at = c, !.seen = listener[<<App(p), c>>],
                               !.parent = GatewayOf(conf[Service(p)])]]
    BY DEF ListenerGet
  <1> DEFINE o == listener[<<App(p), c>>]
             g == GatewayOf(conf[Service(p)])
             h == [handler[p] EXCEPT !.pc = "listenerput", !.at = c, !.seen = o, !.parent = g]
  <1>3. c \in CNames /\ c \in Slots
    BY <1>1 DEF Slots
  <1>4. o \in ListenerSet \cup {Nil}
    BY <1>1, <1>3 DEF IInv, StateOK, ListenerKeys
  <1>5. handler' = [handler EXCEPT ![p] = h] /\ g \in GatewayParent
    BY <1>1, <1>2, GatewayOfType
  <1> HIDE DEF o, g
  <1>6. /\ h \in Handler /\ h.pc = "listenerput" /\ h.at = c /\ h.req = handler[p].req
        /\ h.todo = handler[p].todo /\ h.parent = g
    BY <1>1, <1>3, <1>4, <1>5 DEF Handler, Steps
  <1> HIDE DEF h
  <1>7. ~Sees(h) /\ StageOK(h)
    BY <1>1, <1>3, <1>5, <1>6, NilAssumption DEF StageOK, Sees, RoutePuts, RemovePCs
  <1>8. handler[p].pc \in ConfiguredPCs
    BY <1>1 DEF ConfiguredPCs, EnsurePCs
  <1>9. StoreStep /\ UNCHANGED conf /\ received' \in Nat /\ faults' \in Nat /\ events' \in Nat
    BY SameCluster, BoundsType DEF ListenerGet, Local
  <1> QED
    BY <1>5, <1>6, <1>7, <1>8, <1>9, StepOf

LEMMA ListenerPutInv ==
    ASSUME IInv, NEW p \in Handlers, ListenerPut(p)
    PROVE  IInv'
  <1> DEFINE parent == handler[p].parent
             m == [rv |-> 0, parent |-> parent]
             h == [handler[p] EXCEPT !.pc = "croute", !.seen = Nil, !.parent = OwnListener]
  <1>1. handler[p].pc = "listenerput"
    BY DEF ListenerPut, At
  <1>2. /\ handler[p].pc \in EnsurePCs /\ handler[p].pc \in ConfiguredPCs
        /\ handler[p].pc \in CNamePCs
    BY <1>1 DEF EnsurePCs, ConfiguredPCs, CNamePCs
  <1>3. /\ handler[p] \in Handler /\ handler[p].req \in EnsureRequest /\ App(p) \in Apps
        /\ handler[p].at \in CNames /\ handler[p].todo \subseteq CNames
    BY <1>1, <1>2, EnsuresType DEF IInv, StateOK, Staged, StageOK
  <1>4. Key(p) \in ListenerKeys
    BY <1>3 DEF Key, ListenerKeys, App
  <1>5. parent \in GatewayParent
    BY <1>1 DEF IInv, Staged, StageOK
  <1>6. UNCHANGED conf /\ received' \in Nat /\ faults' \in Nat /\ events' \in Nat
    BY BoundsType DEF ListenerPut, Upsert
  <1>7. \/ WriteListener(Key(p), m) /\ handler' = [handler EXCEPT ![p] = h]
        \/ End(p, "error") /\ UNCHANGED cluster
    BY DEF ListenerPut, Upsert
  <1> HIDE DEF parent
  <1>8. m \in ListenerSet
    BY <1>5 DEF ListenerSet
  <1>9. /\ h \in Handler /\ h.pc = "croute" /\ h.at = handler[p].at /\ h.req = handler[p].req
        /\ h.todo = handler[p].todo /\ h.parent = OwnListener
    BY <1>3 DEF Handler, Steps
  <1> HIDE DEF h, m
  <1>10. ~Sees(h) /\ StageOK(h)
    BY <1>3, <1>9, NilAssumption DEF StageOK, Sees, RoutePuts, RemovePCs
  <1>11. CASE WriteListener(Key(p), m) /\ handler' = [handler EXCEPT ![p] = h]
    BY <1>2, <1>4, <1>6, <1>8, <1>9, <1>10, <1>11, WrittenListener, StepOf
  <1>12. CASE End(p, "error") /\ UNCHANGED cluster
    BY <1>6, <1>12, SameCluster, EndOf DEF Ends
  <1> QED
    BY <1>7, <1>11, <1>12

LEMMA AnnotateGetInv ==
    ASSUME IInv, NEW p \in Handlers, AnnotateGet(p)
    PROVE  IInv'
  <1>1. handler[p].pc \in ConfiguredPCs /\ Local
    BY DEF AnnotateGet, At, ConfiguredPCs, EnsurePCs
  <1>2. CASE End(p, "ok")
    <2>1. StoreStep /\ UNCHANGED conf /\ received' \in Nat /\ faults' \in Nat /\ events' \in Nat
      BY <1>1, SameCluster, BoundsType DEF Local
    <2> QED
      BY <1>2, <2>1, EndOf DEF Ends
  <1>3. CASE /\ Exists(route[<<App(p), Default>>])
             /\ handler' = [handler EXCEPT ![p] =
                    [handler[p] EXCEPT !.pc = "annotput", !.at = Default,
                                       !.seen = route[<<App(p), Default>>]]]
    <2>1. Default \in Slots
      BY NamesAssumption DEF Slots
    <2> QED
      BY <1>1, <1>3, <2>1, RouteRead DEF RoutePuts
  <1> QED
    BY <1>2, <1>3 DEF AnnotateGet

LEMMA AnnotatePutInv ==
    ASSUME IInv, NEW p \in Handlers, AnnotatePut(p)
    PROVE  IInv'
  <1> DEFINE m == Annotated(handler[p].seen, handler[p].req.cnames)
  <1>1. handler[p].pc = "annotput" /\ handler[p].pc \in RoutePuts
    BY DEF AnnotatePut, At, RoutePuts
  <1>2. Key(p) \in RouteKeys /\ handler[p].seen \in Route /\ handler[p].req \in EnsureRequest
    BY <1>1, PutType DEF IInv, Staged, StageOK
  <1>3. m \in Route
    <2>1. handler[p].req.cnames \in SUBSET CNames
      BY <1>2 DEF EnsureRequest
    <2> QED
      BY <1>2, <2>1, AnnotatedType
  <1>4. WriteRoute(Key(p), m) \/ UNCHANGED cluster
    BY DEF AnnotatePut
  <1> HIDE DEF m
  <1>5. StoreStep
    BY <1>2, <1>3, <1>4, WrittenRoute, SameCluster
  <1>6. /\ End(p, "ok") /\ UNCHANGED conf
        /\ received' \in Nat /\ faults' \in Nat /\ events' \in Nat
    BY BoundsType DEF AnnotatePut
  <1> QED
    BY <1>5, <1>6, EndOf DEF Ends

-----------------------------------------------------------------------------
(* Writes by others.                                                       *)

\* The handlers do not move.
LEMMA OthersInv ==
    ASSUME IInv, StoreStep, UNCHANGED <<conf, handler>>,
           received' \in Nat, faults' \in Nat, events' \in Nat
    PROVE  IInv'
  <1>1. handler' \in [Handlers -> Handler] /\ Staged'
    BY DEF IInv, StateOK, Staged, StageOK
  <1>2. \A q \in Handlers : SeenStep(q) /\ Advances(q)
    BY DEF SeenStep, Advances
  <1>3. Configured' /\ conf' \in [Handlers -> Config]
    BY <1>2, StaysConfigured
  <1> QED
    BY <1>1, <1>2, <1>3, Preserved

LEMMA EventType ==
    ASSUME IInv, Event
    PROVE  received' \in Nat /\ faults' \in Nat /\ events' \in Nat
  <1>1. received' = received /\ faults' = faults /\ events' = events + 1
    BY DEF Event
  <1> QED
    BY <1>1, BoundsType

LEMMA ToggleFreezeInv ==
    ASSUME IInv, NEW k \in RouteKeys, ToggleFreeze(k)
    PROVE  IInv'
  <1> DEFINE m == [route[k] EXCEPT !.frozen = ~route[k].frozen]
  <1>1. route[k] \in Route
    BY DEF ToggleFreeze, Exists, IInv, StateOK
  <1>2. m \in Route
    BY <1>1 DEF Route
  <1>3. WriteRoute(k, m) /\ UNCHANGED <<conf, handler>>
    BY DEF ToggleFreeze
  <1>4. received' \in Nat /\ faults' \in Nat /\ events' \in Nat
    BY EventType DEF ToggleFreeze
  <1> HIDE DEF m
  <1> QED
    BY <1>2, <1>3, <1>4, WrittenRoute, OthersInv

LEMMA WriteStatusInv ==
    ASSUME IInv, NEW k \in RouteKeys, WriteStatus(k)
    PROVE  IInv'
  <1> DEFINE v == routeVersion[k] + 1
             o == [route[k] EXCEPT !.rv = v]
  <1>1. /\ route \in [RouteKeys -> Route \cup {Nil}] /\ routeVersion \in [RouteKeys -> Nat]
        /\ route[k] \in Route
    BY DEF WriteStatus, Exists, IInv, StateOK
  <1>2. v \in Nat /\ o \in Route /\ o.rv = v
    BY <1>1 DEF Route
  <1>3. route' = [route EXCEPT ![k] = o] /\ routeVersion' = [routeVersion EXCEPT ![k] = v]
    BY DEF WriteStatus
  <1>4. /\ UNCHANGED <<conf, handler>> /\ listener' = listener
        /\ listenerVersion' = listenerVersion
    BY DEF WriteStatus, listeners
  <1> HIDE DEF o
  <1>5. StoreStep
    BY <1>1, <1>2, <1>3, <1>4 DEF StoreStep, IInv, StateOK
  <1>6. received' \in Nat /\ faults' \in Nat /\ events' \in Nat
    BY EventType DEF WriteStatus
  <1> QED
    BY <1>4, <1>5, <1>6, OthersInv

-----------------------------------------------------------------------------
LEMMA EnsureInv ==
    ASSUME IInv, NEW p \in Handlers, EnsureStep(p)
    PROVE  IInv'
  BY RouteGetInv, RoutePutInv, SweepsInv, AnyCNamesInv, ReadCNamesInv, ListenerGetInv,
     ListenerPutInv, CNameRouteGetInv, CNameRoutePutInv, AnnotateGetInv, AnnotatePutInv
     DEF EnsureStep

LEMMA Inductive == IInv /\ [Next]_vars => IInv'
  <1> SUFFICES ASSUME IInv, [Next]_vars PROVE IInv'
    OBVIOUS
  <1>1. CASE UNCHANGED vars
    <2>1. UNCHANGED <<conf, handler>> /\ UNCHANGED cluster /\ UNCHANGED bounds
      BY <1>1 DEF vars
    <2> QED
      BY <2>1, SameCluster, BoundsType, OthersInv
  <1>2. ASSUME NEW p \in Handlers,
               \/ Receive(p) \/ Fail(p) \/ LoopDone(p)
               \/ ConfigStep(p) \/ EnsureStep(p) \/ RemoveStep(p)
        PROVE  IInv'
    BY <1>2, ReceiveInv, FailInv, LoopDoneInv, SetGatewayInv, GatewaySetInv, SetSuffixInv,
       SuffixSetInv, EnsureInv, RemoveInv DEF ConfigStep
  <1>3. CASE Restart
    BY <1>3, RestartInv
  <1>4. CASE \E k \in RouteKeys : ToggleFreeze(k) \/ WriteStatus(k)
    BY <1>4, ToggleFreezeInv, WriteStatusInv
  <1> QED
    BY <1>1, <1>2, <1>3, <1>4 DEF Next

LEMMA Invariant == Spec => []IInv
  BY Initially, Inductive, PTL DEF Spec

\* Only a request that comes in and an operator change the history.
LEMMA ThawedType ==
    ASSUME thawed \subseteq RouteKeys, [Next]_vars
    PROVE  thawed' \subseteq RouteKeys
  <1>1. ASSUME NEW p \in Handlers,
               \/ Receive(p) \/ Fail(p) \/ LoopDone(p)
               \/ ConfigStep(p) \/ EnsureStep(p) \/ RemoveStep(p)
        PROVE  thawed' \in {thawed, {}}
    BY <1>1 DEF Receive, Fail, LoopDone, Local, bounds, ConfigStep, SetGateway, GatewaySet,
           SetSuffix, SuffixSet, EnsureStep, RouteGet, RoutePut, ListObsolete, DeleteObsolete,
           AnyCNames, ReadCNames, ListenerGet, ListenerPut, CNameRouteGet, CNameRoutePut, DropCName,
           ListOrphans, DropOrphan, AnnotateGet, AnnotatePut, RemoveStep, ListRoutes, RemoveRoute,
           RemoveMain, ListCNameRoutes, RemoveCNameRoute, ListListenerSets, RemoveListenerSet,
           Upsert, ListTo, DeleteRouteIn, DeleteListenerIn, Doomed
  <1>2. CASE Restart \/ UNCHANGED vars
    BY <1>2 DEF Restart, vars, bounds
  <1>3. ASSUME NEW k \in RouteKeys, ToggleFreeze(k) \/ WriteStatus(k)
        PROVE  thawed' \subseteq RouteKeys
    BY <1>3 DEF ToggleFreeze, WriteStatus
  <1> QED
    BY <1>1, <1>2, <1>3 DEF Next

\* Routes, ListenerSets, the fields of the services and what the handlers hold
\* keep their types: in particular no object is ever written for a gateway or
\* a namespace that is not set.
THEOREM TypeCorrect == Spec => []TypeOK
  <1>1. IInv => StateOK
    BY DEF IInv
  <1>2. Init => thawed \subseteq RouteKeys
    BY DEF Init
  <1>3. thawed \subseteq RouteKeys /\ [Next]_vars => (thawed \subseteq RouteKeys)'
    BY ThawedType
  <1> QED
    BY <1>1, <1>2, <1>3, Invariant, PTL DEF Spec, TypeOK

-----------------------------------------------------------------------------
(* What a step does to the routes.                                         *)

\* An Update that the server accepts was built from what is stored.
LEMMA AcceptedIsSeen ==
    ASSUME IInv, NEW p \in Handlers, handler[p].pc \in RoutePuts,
           Accepted(route[Key(p)], handler[p].seen), Exists(route[Key(p)])
    PROVE  route[Key(p)] = handler[p].seen /\ Exists(handler[p].seen)
  <1>1. Exists(handler[p].seen) /\ Accepts(route[Key(p)], handler[p].seen.rv)
    BY DEF Accepted, SentVersion
  <1>2. Sees(handler[p]) /\ 0 < handler[p].seen.rv /\ handler[p].seen.rv \in Nat
    <2>1. Sees(handler[p]) /\ handler[p].seen \in Route
      BY <1>1, PutType
    <2> QED
      BY <2>1 DEF Route, IInv, VersionsBound
  <1>3. route[Key(p)].rv = handler[p].seen.rv
    BY <1>1, <1>2 DEF Accepts
  <1> QED
    BY <1>1, <1>2, <1>3 DEF IInv, SeenIsCurrent, KeyOf, Key

\* An accepted write of a route: its key, what is stored there, and what comes
\* of the others.
LEMMA RouteAfterWrite ==
    ASSUME IInv, NEW k \in RouteKeys, NEW m \in Route, WriteRoute(k, m)
    PROVE  /\ \A j \in RouteKeys \ {k} : route'[j] = route[j]
           /\ \/ route'[k] = route[k]
              \/ /\ route'[k].frozen = m.frozen /\ route'[k].parent = m.parent
                 /\ route'[k].suffix = m.suffix /\ route'[k].cnames = m.cnames
  <1> DEFINE o == Stored(route[k], m, routeVersion[k])
  <1>1. /\ route \in [RouteKeys -> Route \cup {Nil}]
        /\ route[k] \in Route \cup {Nil} /\ routeVersion[k] \in Nat
    BY DEF IInv, StateOK
  <1>2. \/ o = route[k]
        \/ /\ o.frozen = m.frozen /\ o.parent = m.parent
           /\ o.suffix = m.suffix /\ o.cnames = m.cnames
    BY <1>1, StoredRoute
  <1>3. route' = [route EXCEPT ![k] = o]
    BY DEF WriteRoute
  <1> HIDE DEF o
  <1>4. route'[k] = o /\ \A j \in RouteKeys \ {k} : route'[j] = route[j]
    BY <1>1, <1>3
  <1> QED
    BY <1>2, <1>4

\* The steps that write no route: they leave each as it is or delete it.
Spares == \A k \in RouteKeys : route'[k] = route[k] \/ route'[k] = Nil

LEMMA DeleteSpares ==
    ASSUME IInv, NEW k, DeleteRoute(k)
    PROVE  Spares
  BY DEF IInv, StateOK, DeleteRoute, Spares

LEMMA UnchangedSpares ==
    ASSUME UNCHANGED cluster \/ UNCHANGED routes
    PROVE  Spares
  BY DEF cluster, routes, Spares

LEMMA DeleteInSpares ==
    ASSUME IInv, NEW p, NEW step, DeleteRouteIn(p, step) \/ DeleteListenerIn(p, step)
    PROVE  Spares
  <1>1. (\E k : DeleteRoute(k)) \/ UNCHANGED routes
    BY DEF DeleteRouteIn, DeleteListenerIn, DeleteListener
  <1> QED
    BY <1>1, DeleteSpares, UnchangedSpares

LEMMA EnsureSpares ==
    ASSUME IInv, NEW p \in Handlers, EnsureStep(p),
           ~RoutePut(p), ~CNameRoutePut(p), ~AnnotatePut(p)
    PROVE  Spares
  <1>1. CASE DeleteObsolete(p) \/ DropCName(p) \/ DropOrphan(p)
    BY <1>1, DeleteInSpares DEF DeleteObsolete, DropCName, DropOrphan
  <1>2. CASE ListenerPut(p)
    <2>1. UNCHANGED cluster \/ UNCHANGED routes
      BY <1>2 DEF ListenerPut, Upsert, WriteListener
    <2> QED
      BY <2>1, UnchangedSpares
  <1>3. CASE \/ RouteGet(p) \/ ListObsolete(p) \/ AnyCNames(p) \/ ReadCNames(p)
             \/ ListenerGet(p) \/ CNameRouteGet(p) \/ ListOrphans(p) \/ AnnotateGet(p)
    <2>1. UNCHANGED cluster
      BY <1>3 DEF RouteGet, ListObsolete, AnyCNames, ReadCNames, ListenerGet, CNameRouteGet,
                  ListOrphans, AnnotateGet, ListTo, Local
    <2> QED
      BY <2>1, UnchangedSpares
  <1> QED
    BY <1>1, <1>2, <1>3 DEF EnsureStep

LEMMA RemoveSpares ==
    ASSUME IInv, NEW p \in Handlers, RemoveStep(p)
    PROVE  Spares
  <1>1. CASE RemoveRoute(p) \/ RemoveCNameRoute(p) \/ RemoveListenerSet(p)
    BY <1>1, DeleteInSpares DEF RemoveRoute, RemoveCNameRoute, RemoveListenerSet
  <1>2. CASE RemoveMain(p)
    BY <1>2, DeleteSpares DEF RemoveMain
  <1>3. CASE ListRoutes(p) \/ ListCNameRoutes(p) \/ ListListenerSets(p)
    <2>1. UNCHANGED cluster
      BY <1>3 DEF ListRoutes, ListCNameRoutes, ListListenerSets, ListTo, Local
    <2> QED
      BY <2>1, UnchangedSpares
  <1> QED
    BY <1>1, <1>2, <1>3 DEF RemoveStep

LEMMA OtherSpares ==
    ASSUME IInv,
           \/ \E p \in Handlers : Receive(p) \/ Fail(p) \/ LoopDone(p) \/ ConfigStep(p)
           \/ Restart \/ UNCHANGED vars
    PROVE  Spares
  <1>1. UNCHANGED cluster
    BY DEF Receive, Fail, LoopDone, Local, ConfigStep, SetGateway, GatewaySet, SetSuffix,
           SuffixSet, Restart, vars
  <1> QED
    BY <1>1, UnchangedSpares

\* Rewriting the spec keeps the annotation, which the new route was given.
LEMMA RoutePutKeeps ==
    ASSUME IInv, NEW p \in Handlers, RoutePut(p), NEW k \in RouteKeys,
           Exists(route[k]), Exists(route'[k])
    PROVE  route'[k].cnames = route[k].cnames /\ (route[k].frozen => route'[k] = route[k])
  <1> DEFINE m == PrefixRoute(conf[Service(p)], handler[p].seen)
  <1>1. handler[p].pc = "routeput" /\ handler[p].pc \in RoutePuts
    BY DEF RoutePut, At, RoutePuts
  <1>2. m \in Route /\ Key(p) \in RouteKeys
    BY <1>1, PutType, PrefixRouteType
  <1>3. \/ Accepted(route[Key(p)], handler[p].seen) /\ WriteRoute(Key(p), m)
        \/ UNCHANGED cluster
    BY DEF RoutePut, Upsert
  <1>4. CASE UNCHANGED cluster
    BY <1>4 DEF cluster, routes
  <1>5. CASE Accepted(route[Key(p)], handler[p].seen) /\ WriteRoute(Key(p), m)
    <2>1. CASE k # Key(p)
      BY <1>2, <1>5, <2>1, RouteAfterWrite
    <2>2. CASE k = Key(p)
      <3>1. route[k] = handler[p].seen /\ Exists(handler[p].seen)
        BY <1>1, <1>5, <2>2, AcceptedIsSeen
      <3>2. m.cnames = route[k].cnames
        BY <1>1, <3>1, PutType, PrefixRouteType
      <3>3. ~route[k].frozen
        BY <1>1, <3>1 DEF IInv, Staged, StageOK, IsFrozenHTTPRoute
      <3> HIDE DEF m
      <3>4. route'[k] = route[k] \/ route'[k].cnames = m.cnames
        BY <1>2, <1>5, <2>2, RouteAfterWrite
      <3> QED
        BY <3>2, <3>3, <3>4
    <2> QED
      BY <2>1, <2>2
  <1> QED
    BY <1>3, <1>4, <1>5

LEMMA CNameRoutePutKeeps ==
    ASSUME IInv, NEW p \in Handlers, CNameRoutePut(p), NEW k \in RouteKeys,
           Exists(route[k]), route[k].frozen
    PROVE  route'[k] = route[k]
  <1> DEFINE m == CNameRoute(handler[p].parent)
  <1>1. handler[p].pc = "crouteput" /\ handler[p].pc \in RoutePuts
    BY DEF CNameRoutePut, At, RoutePuts
  <1>2. m \in Route /\ Key(p) \in RouteKeys
    BY <1>1, PutType, CNameRouteType
  <1>3. \/ Accepted(route[Key(p)], handler[p].seen) /\ WriteRoute(Key(p), m)
        \/ UNCHANGED cluster
    BY DEF CNameRoutePut, Upsert
  <1> HIDE DEF m
  <1>4. CASE UNCHANGED cluster
    BY <1>4 DEF cluster, routes
  <1>5. CASE Accepted(route[Key(p)], handler[p].seen) /\ WriteRoute(Key(p), m)
    <2>1. CASE k # Key(p)
      BY <1>2, <1>5, <2>1, RouteAfterWrite
    <2>2. CASE k = Key(p)
      <3>1. route[k] = handler[p].seen /\ Exists(handler[p].seen)
        BY <1>1, <1>5, <2>2, AcceptedIsSeen
      <3> QED
        BY <1>1, <3>1 DEF IInv, Staged, StageOK, IsFrozenHTTPRoute
    <2> QED
      BY <2>1, <2>2
  <1> QED
    BY <1>3, <1>4, <1>5

\* Storing the CNames in the annotation changes nothing else.
LEMMA AnnotatePutKeeps ==
    ASSUME IInv, NEW p \in Handlers, AnnotatePut(p), NEW k \in RouteKeys,
           Exists(route[k]), Exists(route'[k])
    PROVE  /\ route'[k].frozen = route[k].frozen
           /\ route'[k].parent = route[k].parent /\ route'[k].suffix = route[k].suffix
  <1> DEFINE m == Annotated(handler[p].seen, handler[p].req.cnames)
  <1>1. handler[p].pc = "annotput" /\ handler[p].pc \in RoutePuts
    BY DEF AnnotatePut, At, RoutePuts
  <1>2. Key(p) \in RouteKeys /\ handler[p].seen \in Route /\ handler[p].req \in EnsureRequest
    BY <1>1, PutType DEF IInv, Staged, StageOK
  <1>3. /\ m \in Route /\ m.frozen = handler[p].seen.frozen
        /\ m.parent = handler[p].seen.parent /\ m.suffix = handler[p].seen.suffix
    <2>1. handler[p].req.cnames \in SUBSET CNames
      BY <1>2 DEF EnsureRequest
    <2> QED
      BY <1>2, <2>1, AnnotatedType
  <1>4. \/ Accepted(route[Key(p)], handler[p].seen) /\ WriteRoute(Key(p), m)
        \/ UNCHANGED cluster
    BY DEF AnnotatePut
  <1> HIDE DEF m
  <1>5. CASE UNCHANGED cluster
    BY <1>5 DEF cluster, routes
  <1>6. CASE Accepted(route[Key(p)], handler[p].seen) /\ WriteRoute(Key(p), m)
    <2>1. CASE k # Key(p)
      BY <1>2, <1>3, <1>6, <2>1, RouteAfterWrite
    <2>2. CASE k = Key(p)
      <3>1. route[k] = handler[p].seen
        BY <1>1, <1>6, <2>2, AcceptedIsSeen
      <3> QED
        BY <1>2, <1>3, <1>6, <2>2, <3>1, RouteAfterWrite
    <2> QED
      BY <2>1, <2>2
  <1> QED
    BY <1>4, <1>5, <1>6

LEMMA ToggleFreezeKeeps ==
    ASSUME IInv, NEW j \in RouteKeys, ToggleFreeze(j), NEW k \in RouteKeys,
           Exists(route[k]), Exists(route'[k])
    PROVE  route'[k].parent = route[k].parent /\ route'[k].suffix = route[k].suffix
  <1> DEFINE m == [route[j] EXCEPT !.frozen = ~route[j].frozen]
  <1>1. route[j] \in Route
    BY DEF ToggleFreeze, Exists, IInv, StateOK
  <1>2. m \in Route /\ m.parent = route[j].parent /\ m.suffix = route[j].suffix
    BY <1>1 DEF Route
  <1>3. WriteRoute(j, m)
    BY DEF ToggleFreeze
  <1> HIDE DEF m
  <1> QED
    BY <1>2, <1>3, RouteAfterWrite

LEMMA WriteStatusKeeps ==
    ASSUME IInv, NEW j \in RouteKeys, WriteStatus(j), NEW k \in RouteKeys,
           Exists(route[k]), Exists(route'[k])
    PROVE  route'[k].parent = route[k].parent /\ route'[k].suffix = route[k].suffix
  <1> DEFINE v == routeVersion[j] + 1
             o == [route[j] EXCEPT !.rv = v]
  <1>1. route \in [RouteKeys -> Route \cup {Nil}] /\ route[j] \in Route
    BY DEF WriteStatus, Exists, IInv, StateOK
  <1>2. o.parent = route[j].parent /\ o.suffix = route[j].suffix
    BY <1>1 DEF Route
  <1>3. route' = [route EXCEPT ![j] = o]
    BY DEF WriteStatus
  <1> HIDE DEF o
  <1> QED
    BY <1>1, <1>2, <1>3

-----------------------------------------------------------------------------
\* The spec of a frozen route is never rewritten, by any request in any order,
\* whatever fails and whoever else writes.
THEOREM FrozenSpecIsKept == Spec => FrozenSpecKept
  <1>1. IInv /\ [Next]_vars => [FrozenSpecKeptStep]_vars
    <2> SUFFICES ASSUME IInv, [Next]_vars, NEW k \in RouteKeys,
                        Exists(route[k]), route[k].frozen, Exists(route'[k])
                 PROVE  route'[k].parent = route[k].parent /\ route'[k].suffix = route[k].suffix
      BY DEF FrozenSpecKeptStep
    <2>1. CASE Spares
      BY <2>1 DEF Spares, Exists
    <2>2. CASE \E p \in Handlers : RoutePut(p) \/ CNameRoutePut(p) \/ AnnotatePut(p)
      BY <2>2, RoutePutKeeps, CNameRoutePutKeeps, AnnotatePutKeeps
    <2>3. CASE \E j \in RouteKeys : ToggleFreeze(j) \/ WriteStatus(j)
      BY <2>3, ToggleFreezeKeeps, WriteStatusKeeps
    <2> QED
      BY <2>1, <2>2, <2>3, EnsureSpares, RemoveSpares, OtherSpares DEF Next
  <1> QED
    BY <1>1, Invariant, PTL DEF Spec, FrozenSpecKept

\* Requests for one app lose none of each other's writes to a route, nor those of
\* operators, however many there are and however they interleave.
THEOREM NoUpdateIsLost == Spec => NoLostUpdate
  <1>1. IInv => [NoLostUpdateStep]_vars
    BY RoutePutKeeps, AnnotatePutKeeps DEF NoLostUpdateStep
  <1> QED
    BY <1>1, Invariant, PTL DEF NoLostUpdate
=============================================================================
