------------------------- MODULE GatewaySerialProofs -------------------------
(***************************************************************************)
(* Proofs of what the requests of GatewayAPI achieve, one after the other: *)
(* for any apps, prefixes, CNames, requests and bounds, with calls that    *)
(* fail, restarts and writes by others between and within the requests     *)
(* where the property allows them.                                         *)
(*                                                                         *)
(* The argument: a handler that is Alone is the only one that ever worked, *)
(* so that its position says what it has done to the cluster (Stage):      *)
(*   - which fields of the service its request has chosen (ConfChosen),    *)
(*   - which prefixes are exposed, which swept (Exposes),                  *)
(*   - which CNames are attached (Attaches),                               *)
(*   - what a Remove has deleted, and what it has yet to (Removes).        *)
(* That all former CNames are removed needs the annotation of the default  *)
(* route to tell of them (Tracks).  It does between undisturbed requests;  *)
(* the request at work has to make up for what it has not stored yet.      *)
(***************************************************************************)
EXTENDS GatewayProofs

\* Only an operator freezes a route, or releases it.
FrozenCounted ==
    \A k \in RouteKeys :
        (Exists(route[k]) /\ route[k].frozen) \/ k \in thawed => events # 0

\* Ensure, from a position on.
SuffixedPCs == ConfiguredPCs \ {"setsuffix", "suffixset"}
ExposedPCs == SuffixedPCs \ {"routes", "routeput"}
SweptPCs == ExposedPCs \ {"list", "sweep"}
AttachedPCs == SweptPCs \ ({"anycnames", "cnames"} \cup CNamePCs)
DetachedPCs == AttachedPCs \ {"cnamedrop"}
\* Remove, from a position on.
MainGonePCs == RemovePCs \ {"remove", "removing"}
CNamesGonePCs == {"removelisteners", "removinglisteners"}

\* The positions pcs of an Ensure or a Remove, and its success.
Within(p, op, pcs) ==
    handler[p].pc \in pcs \/ (At(p, "ok") /\ handler[p].req.op = op)

\* The fields of the service, as the request chooses them.
ConfChosen(p) ==
    LET r == handler[p].req
        c == conf[Service(p)]
    IN  /\ handler[p].pc \in ConfiguredPCs => Wanted(r, GatewayOf(c))
        /\ handler[p].pc \in SuffixedPCs /\ r.suffix # Nil => c.suffix = r.suffix

\* The routes of the prefixes.
Exposes(p) ==
    LET h == handler[p]
        r == h.req
    IN  /\ h.pc \in {"routes", "routeput"} =>
            /\ h.todo \subseteq r.prefixes
            /\ \A s \in r.prefixes \ h.todo : PrefixMet(r, <<r.app, s>>)
        /\ At(p, "routeput") => h.at \in r.prefixes
        /\ Within(p, "Ensure", ExposedPCs) =>
            \A s \in r.prefixes : PrefixMet(r, <<r.app, s>>)
        /\ At(p, "sweep") =>
            /\ h.doomed \subseteq Prefixes \ r.prefixes
            /\ \A s \in Prefixes \ r.prefixes :
                s \in h.doomed \/ PrefixSwept(<<r.app, s>>)
        /\ Within(p, "Ensure", SweptPCs) =>
            \A s \in Prefixes \ r.prefixes : PrefixSwept(<<r.app, s>>)

\* The routes and ListenerSets of the CNames it works on.
Attaches(p) ==
    LET h == handler[p]
        r == h.req
    IN  /\ h.pc \in CNamePCs =>
            /\ h.todo \subseteq EnsuredCNames(r)
            /\ IF r.httpOnly \/ h.pc = "listenerput"
               THEN Wanted(r, h.parent) ELSE h.parent = OwnListener
            /\ \A c \in EnsuredCNames(r) \ h.todo : CNameMet(r, <<r.app, c>>)
        /\ h.pc \in CNamePCs \ {"cname"} => h.at \in EnsuredCNames(r)
        /\ h.pc \in {"listenerput", "croute"} => ~r.httpOnly
        /\ h.pc \in {"croute", "crouteput"} /\ ~r.httpOnly =>
            LET l == listener[<<r.app, h.at>>] IN Exists(l) /\ Wanted(r, l.parent)
        /\ h.pc \in CNamePCs \cup {"cnamedrop"} =>
            h.doomed \subseteq CNames \ r.cnames
        /\ At(p, "orphandrop") =>
            h.doomed \subseteq (IF r.httpOnly THEN CNames ELSE CNames \ r.cnames)
        /\ Within(p, "Ensure", AttachedPCs) =>
            \A c \in EnsuredCNames(r) : CNameMet(r, <<r.app, c>>)

\* What Remove has deleted, and what it has yet to delete.
Removes(p) ==
    LET h == handler[p]
        a == h.req.app
    IN  /\ At(p, "removing") => LabelledRoutes(a) \subseteq h.doomed
        /\ Within(p, "Remove", MainGonePCs) => LabelledRoutes(a) = {}
        /\ At(p, "removingcnames") => LabelledCNameRoutes(a) \subseteq h.doomed
        /\ Within(p, "Remove", CNamesGonePCs) => LabelledCNameRoutes(a) = {}
        /\ At(p, "removinglisteners") => LabelledListenerSets(a) \subseteq h.doomed
        /\ Within(p, "Remove", {}) => LabelledListenerSets(a) = {}

\* While the app's CNames are being written or removed, the annotation does not
\* tell of them.
UntrackedPCs == CNamePCs \cup AttachedPCs \cup (RemovePCs \ {"remove"})

\* What is sent is what is there, and the routes of CNames are all accounted for:
\* by the annotation, or by the request under way.
Tracks(p) ==
    LET h == handler[p]
        r == h.req
    IN  /\ h.pc \in RoutePuts => h.seen = route[KeyOf(h)]
        /\ At(p, "listenerput") => h.seen = listener[KeyOf(h)]
        /\ \A a \in Apps :
            \/ h.pc \in UntrackedPCs /\ a = r.app
            \/ LabelledCNameRoutes(a) \subseteq ExistingCNames(a)
        /\ h.pc \in CNamePCs \cup {"cnamedrop"} =>
            LabelledCNameRoutes(r.app) \subseteq r.cnames \cup h.doomed
        /\ Within(p, "Ensure", DetachedPCs) => LabelledCNameRoutes(r.app) \subseteq r.cnames

\* What the position of a handler says of the cluster, as long as it is alone.
Stage(p) ==
    /\ ConfChosen(p) /\ Exposes(p) /\ Attaches(p) /\ Removes(p)
    /\ Undisturbed => Tracks(p)

InTurn == \A p \in Handlers : Alone(p) => Stage(p)

\* A handler that is not idle has a request.
Asked == \A p \in Handlers : ~At(p, "idle") => handler[p].req \in Requests

IInvSerial == IInv /\ Asked /\ FrozenCounted /\ InTurn /\ ListenerThere

-----------------------------------------------------------------------------
(* What the calls leave in the cluster.                                    *)

\* What a write leaves has the fields of the manifest, also when it changed
\* nothing.
LEMMA StoredFields ==
    ASSUME NEW o \in Route \cup {Nil}, NEW m \in Route, NEW v \in Nat
    PROVE  LET s == Stored(o, m, v) IN
           /\ Exists(s) /\ s.frozen = m.frozen /\ s.parent = m.parent
           /\ s.suffix = m.suffix /\ s.cnames = m.cnames
  <1>1. CASE Exists(o) /\ [m EXCEPT !.rv = o.rv] = o
    <2> DEFINE w == [m EXCEPT !.rv = o.rv]
    <2>1. w.frozen = m.frozen /\ w.parent = m.parent /\ w.suffix = m.suffix /\ w.cnames = m.cnames
      BY DEF Route
    <2>2. w = o /\ Stored(o, m, v) = o
      BY <1>1 DEF Stored, Updated
    <2> HIDE DEF w
    <2> QED
      BY <1>1, <2>1, <2>2
  <1>2. CASE ~(Exists(o) /\ [m EXCEPT !.rv = o.rv] = o)
    <2> DEFINE w == [m EXCEPT !.rv = v + 1]
    <2>1. w.frozen = m.frozen /\ w.parent = m.parent /\ w.suffix = m.suffix /\ w.cnames = m.cnames
      BY DEF Route
    <2>2. w \in Route
      BY DEF Route
    <2>3. Stored(o, m, v) = w
      BY <1>2 DEF Stored, Updated
    <2> HIDE DEF w
    <2> QED
      BY <2>1, <2>2, <2>3, NilAssumption DEF Exists
  <1> QED
    BY <1>1, <1>2

LEMMA RoutePutLeaves ==
    ASSUME IInv, NEW k \in RouteKeys, NEW m \in Route, WriteRoute(k, m)
    PROVE  /\ Exists(route'[k]) /\ route'[k].frozen = m.frozen
           /\ route'[k].parent = m.parent /\ route'[k].suffix = m.suffix
           /\ route'[k].cnames = m.cnames
           /\ \A x \in RouteKeys : x # k => route'[x] = route[x]
           /\ listener' = listener
  <1> DEFINE o == Stored(route[k], m, routeVersion[k])
  <1>1. route \in [RouteKeys -> Route \cup {Nil}] /\ routeVersion[k] \in Nat
    BY DEF IInv, StateOK
  <1>2. route' = [route EXCEPT ![k] = o] /\ listener' = listener
    BY DEF WriteRoute, listeners
  <1>3. /\ Exists(o) /\ o.frozen = m.frozen /\ o.parent = m.parent
        /\ o.suffix = m.suffix /\ o.cnames = m.cnames
    BY <1>1, StoredFields
  <1> HIDE DEF o
  <1> QED
    BY <1>1, <1>2, <1>3

LEMMA ListenerPutLeaves ==
    ASSUME IInv, NEW k \in ListenerKeys, NEW x \in GatewayParent,
           WriteListener(k, [rv |-> 0, parent |-> x])
    PROVE  /\ Exists(listener'[k]) /\ listener'[k].parent = x
           /\ \A y \in ListenerKeys : y # k => listener'[y] = listener[y]
           /\ route' = route
  <1> DEFINE m == [rv |-> 0, parent |-> x]
             o == Stored(listener[k], m, listenerVersion[k])
  <1>1. listener \in [ListenerKeys -> ListenerSet \cup {Nil}] /\ listenerVersion[k] \in Nat
    BY DEF IInv, StateOK
  <1>2. listener' = [listener EXCEPT ![k] = o] /\ route' = route
    BY DEF WriteListener, routes
  <1>3. m \in ListenerSet /\ m.parent = x
    BY DEF ListenerSet
  <1>4. Exists(o) /\ o.parent = x
    <2> DEFINE v == listenerVersion[k]
               l == listener[k]
    <2>1. CASE Exists(l) /\ [m EXCEPT !.rv = l.rv] = l
      BY <1>3, <2>1 DEF Stored, Updated
    <2>2. CASE ~(Exists(l) /\ [m EXCEPT !.rv = l.rv] = l)
      <3> DEFINE w == [m EXCEPT !.rv = v + 1]
      <3>1. o = w
        BY <2>2 DEF Stored, Updated
      <3>2. w \in ListenerSet /\ w.parent = x
        BY <1>1, <1>3 DEF ListenerSet
      <3> HIDE DEF w
      <3> QED
        BY <3>1, <3>2, NilAssumption DEF Exists
    <2> QED
      BY <2>1, <2>2
  <1> HIDE DEF o
  <1> QED
    BY <1>1, <1>2, <1>4

LEMMA RouteDeleted ==
    ASSUME IInv, NEW k \in RouteKeys, DeleteRoute(k)
    PROVE  /\ ~Exists(route'[k]) /\ listener' = listener
           /\ \A x \in RouteKeys : x # k => route'[x] = route[x]
  BY DEF IInv, StateOK, DeleteRoute, listeners, Exists

LEMMA ListenerDeleted ==
    ASSUME IInv, NEW k \in ListenerKeys, DeleteListener(k)
    PROVE  /\ ~Exists(listener'[k]) /\ route' = route
           /\ \A x \in ListenerKeys : x # k => listener'[x] = listener[x]
  BY DEF IInv, StateOK, DeleteListener, routes, Exists

\* The keys of an app.
LEMMA Keys ==
    ASSUME NEW a \in Apps
    PROVE  /\ \A s \in Slots : <<a, s>> \in RouteKeys
           /\ \A s \in Prefixes : <<a, s>> \in RouteKeys
           /\ \A c \in CNames : <<a, c>> \in RouteKeys /\ <<a, c>> \in ListenerKeys
           /\ \A c \in CNames : c \notin Prefixes
           /\ Default \in Prefixes
  BY NamesAssumption DEF RouteKeys, ListenerKeys, Slots

-----------------------------------------------------------------------------
(* One handler at a time.                                                  *)

\* What every step of a handler that works does to the others and to itself.
LEMMA Moved ==
    ASSUME IInv, NEW p \in Handlers, NEW h, handler' = [handler EXCEPT ![p] = h]
    PROVE  handler'[p] = h /\ \A q \in Handlers : q # p => handler'[q] = handler[q]
  BY DEF IInv, StateOK

\* The only handler that moves was the only one before.
LEMMA StaysAlone ==
    ASSUME NEW p \in Handlers, \A q \in Handlers : q # p => handler'[q] = handler[q],
           handler'[p].pc # "idle", NEW q \in Handlers, Alone(q)'
    PROVE  q = p /\ Alone(p)
  BY DEF Alone, At

LEMMA StaysUndisturbed ==
    ASSUME IInv, NEW p \in Handlers, \A q \in Handlers : q # p => handler'[q] = handler[q],
           handler'[p].pc # "idle", Undisturbed',
           faults' \in {faults, faults + 1}, events' \in {events, events + 1}
    PROVE  Undisturbed /\ Alone(p) /\ UNCHANGED <<faults, events>>
  <1>1. faults \in Nat /\ events \in Nat
    BY DEF IInv, StateOK
  <1>2. UNCHANGED <<faults, events>> /\ faults = 0 /\ events = 0
    BY <1>1 DEF Undisturbed
  <1>3. Alone(p)'
    BY DEF Undisturbed, At
  <1>4. Alone(p)
    BY <1>3 DEF Alone, At
  <1>5. \A q \in Handlers : Alone(q) \/ At(q, "idle")
    BY <1>4 DEF Alone
  <1> QED
    BY <1>2, <1>4, <1>5 DEF Undisturbed

\* What the requests are.
LEMMA EnsureAsks ==
    ASSUME IInv, NEW p \in Handlers, handler[p].pc \in EnsurePCs
    PROVE  LET r == handler[p].req IN
           /\ r \in EnsureRequest /\ r \in Requests /\ r.op = "Ensure" /\ r.app \in Apps
           /\ r.prefixes \subseteq Prefixes /\ Default \in r.prefixes
           /\ r.cnames \subseteq CNames /\ EnsuredCNames(r) \subseteq r.cnames
  <1>1. handler[p].req \in EnsureRequest
    BY DEF IInv, Staged, StageOK
  <1>2. handler[p].req \in Requests
    <2>1. handler[p].req \in Requests \cup {Nil}
      BY DEF IInv, StateOK, Handler
    <2> QED
      BY <1>1, <2>1, NilAssumption DEF RequestType
  <1>3. handler[p].req.op = "Ensure" /\ Default \in handler[p].req.prefixes
    BY <1>1, <1>2, RequestsAssumption DEF EnsureRequest
  <1> QED
    BY <1>1, <1>2, <1>3 DEF EnsureRequest, EnsuredCNames

LEMMA RemoveAsks ==
    ASSUME IInv, NEW p \in Handlers, handler[p].pc \in RemovePCs
    PROVE  handler[p].req.op = "Remove" /\ handler[p].req.app \in Apps
  BY DEF IInv, Staged, StageOK, RemoveRequest


\* An Ensure is not held to what a Remove is, nor the reverse.
LEMMA RemoveIsNoEnsure ==
    ASSUME NEW p \in Handlers,
           \/ handler'[p].pc \in RemovePCs \cup {"idle", "error", "setgateway", "gatewayset"}
           \/ handler'[p].pc = "ok" /\ handler'[p].req.op = "Remove"
    PROVE  ConfChosen(p)' /\ Exposes(p)' /\ Attaches(p)'
  <1> USE DEF RemovePCs, ConfiguredPCs, EnsurePCs, SuffixedPCs, ExposedPCs, SweptPCs,
              AttachedPCs, CNamePCs, Within, At
  <1>1. ConfChosen(p)'
    BY DEF ConfChosen
  <1>2. Exposes(p)'
    BY DEF Exposes
  <1>3. Attaches(p)'
    BY DEF Attaches
  <1> QED
    BY <1>1, <1>2, <1>3

LEMMA EnsureIsNoRemove ==
    ASSUME NEW p \in Handlers,
           \/ handler'[p].pc \in EnsurePCs \cup {"idle", "error", "remove"}
           \/ handler'[p].pc = "ok" /\ handler'[p].req.op = "Ensure"
    PROVE  Removes(p)'
  BY DEF RemovePCs, EnsurePCs, MainGonePCs, CNamesGonePCs, Within, At, Removes

\* A step that touches the routes of one app only leaves the others tracked.
LEMMA StaysTracked ==
    ASSUME NEW p \in Handlers, NEW a \in Apps, NEW b \in Apps, a # b,
           \A k \in RouteKeys : k[1] # b => route'[k] = route[k],
           LabelledCNameRoutes(a) \subseteq ExistingCNames(a)
    PROVE  LabelledCNameRoutes(a)' \subseteq ExistingCNames(a)'
  <1>1. \A s \in Slots : route'[<<a, s>>] = route[<<a, s>>]
    BY DEF RouteKeys
  <1>2. Default \in Slots /\ CNames \subseteq Slots
    BY NamesAssumption DEF Slots
  <1> QED
    BY <1>1, <1>2 DEF LabelledCNameRoutes, ExistingCNames

-----------------------------------------------------------------------------
(* Remove.                                                                 *)

\* A list of what is to be deleted.
LEMMA Listed ==
    ASSUME IInv, NEW p \in Handlers, NEW step, NEW next, NEW found, ListTo(p, step, next, found)
    PROVE  /\ handler[p].pc = step
           /\ handler'[p].pc = next /\ handler'[p].doomed = found
           /\ handler'[p].req = handler[p].req
           /\ \A q \in Handlers : q # p => handler'[q] = handler[q]
           /\ route' = route /\ listener' = listener
           /\ UNCHANGED <<conf, faults, events, thawed>>
  <1> DEFINE h == [handler[p] EXCEPT !.pc = next, !.doomed = found]
  <1>1. handler[p] \in Handler /\ handler' = [handler EXCEPT ![p] = h]
    BY DEF IInv, StateOK, ListTo
  <1>2. h.pc = next /\ h.doomed = found /\ h.req = handler[p].req
    BY <1>1 DEF Handler
  <1> HIDE DEF h
  <1>3. handler'[p] = h /\ \A q \in Handlers : q # p => handler'[q] = handler[q]
    BY <1>1, Moved
  <1> QED
    BY <1>2, <1>3 DEF ListTo, At, Local, cluster, routes, listeners, bounds

\* One of those listed is deleted, and comes off the list.
LEMMA Struck ==
    ASSUME IInv, NEW p \in Handlers, NEW step, NEW s, Doomed(p, step, s)
    PROVE  /\ handler[p].pc = step /\ s \in handler[p].doomed
           /\ handler'[p].pc = step /\ handler'[p].doomed = handler[p].doomed \ {s}
           /\ handler'[p].req = handler[p].req
           /\ \A q \in Handlers : q # p => handler'[q] = handler[q]
           /\ UNCHANGED <<conf, faults, events, thawed>>
  <1> DEFINE h == [handler[p] EXCEPT !.doomed = handler[p].doomed \ {s}]
  <1>1. handler[p] \in Handler /\ handler' = [handler EXCEPT ![p] = h]
    BY DEF IInv, StateOK, Doomed
  <1>2. h.pc = handler[p].pc /\ h.doomed = handler[p].doomed \ {s} /\ h.req = handler[p].req
    BY <1>1 DEF Handler
  <1> HIDE DEF h
  <1>3. handler'[p] = h /\ \A q \in Handlers : q # p => handler'[q] = handler[q]
    BY <1>1, Moved
  <1> QED
    BY <1>2, <1>3 DEF Doomed, At, bounds

\* What a Remove has deleted stays deleted, and the rest is on its list.
LEMMA RemoveRemoves ==
    ASSUME IInv, NEW p \in Handlers, Removes(p), RemoveStep(p)
    PROVE  /\ Removes(p)'
           /\ handler[p].pc \in RemovePCs /\ handler'[p].pc \in RemovePCs \ {"remove"}
           /\ handler'[p].req = handler[p].req
           /\ \A q \in Handlers : q # p => handler'[q] = handler[q]
           /\ UNCHANGED <<conf, faults, events, thawed>>
           /\ \A k \in RouteKeys : k[1] # handler[p].req.app => route'[k] = route[k]
  <1> DEFINE a == handler[p].req.app
  <1> USE DEF RemovePCs, MainGonePCs, CNamesGonePCs, Within, At, App
  <1>1. handler[p].pc \in RemovePCs
    BY DEF RemoveStep, ListRoutes, RemoveRoute, RemoveMain, ListCNameRoutes, RemoveCNameRoute,
           ListListenerSets, RemoveListenerSet, ListTo, DeleteRouteIn, DeleteListenerIn, Doomed
  <1>2. handler[p].req.op = "Remove" /\ a \in Apps
    BY <1>1, RemoveAsks
  <1>3. /\ \A s \in Slots : <<a, s>> \in RouteKeys
        /\ \A s \in Prefixes : <<a, s>> \in RouteKeys
        /\ \A c \in CNames : <<a, c>> \in RouteKeys /\ <<a, c>> \in ListenerKeys
        /\ \A c \in CNames : c \notin Prefixes
        /\ Default \in Prefixes
    BY <1>2, Keys
  <1>4. CASE ListRoutes(p)
    BY <1>4, Listed DEF ListRoutes, Removes, LabelledRoutes
  <1>5. CASE ListCNameRoutes(p)
    BY <1>5, Listed DEF ListCNameRoutes, Removes, LabelledRoutes, LabelledCNameRoutes
  <1>6. CASE ListListenerSets(p)
    BY <1>6, Listed DEF ListListenerSets, Removes, LabelledRoutes, LabelledCNameRoutes,
                        LabelledListenerSets
  <1>7. CASE RemoveRoute(p)
    <2>1. PICK s \in Slots : Doomed(p, "removing", s) /\ DeleteRoute(<<a, s>>)
      BY <1>7 DEF RemoveRoute, DeleteRouteIn
    <2>2. /\ ~Exists(route'[<<a, s>>]) /\ listener' = listener
          /\ \A x \in RouteKeys : x # <<a, s>> => route'[x] = route[x]
      BY <1>3, <2>1, RouteDeleted
    <2>3. \A x \in Prefixes : Exists(route'[<<a, x>>]) => Exists(route[<<a, x>>]) /\ x # s
      BY <1>3, <2>2
    <2>4. LabelledRoutes(a) \subseteq handler[p].doomed
      BY <2>1, Struck DEF Removes
    <2> QED
      BY <2>1, <2>2, <2>3, <2>4, Struck DEF Removes, LabelledRoutes
  <1>8. CASE RemoveMain(p)
    <2> DEFINE h == [handler[p] EXCEPT !.pc = "removecnames"]
    <2>1. handler[p] \in Handler /\ handler' = [handler EXCEPT ![p] = h]
      BY <1>8 DEF IInv, StateOK, RemoveMain, Goto
    <2>2. h.pc = "removecnames" /\ h.req = handler[p].req
      BY <2>1 DEF Handler
    <2> HIDE DEF h
    <2>3. handler'[p] = h /\ \A q \in Handlers : q # p => handler'[q] = handler[q]
      BY <2>1, Moved
    <2>4. /\ ~Exists(route'[<<a, Default>>]) /\ listener' = listener
          /\ \A x \in RouteKeys : x # <<a, Default>> => route'[x] = route[x]
      BY <1>3, <1>8, RouteDeleted DEF RemoveMain
    <2>5. \A x \in Prefixes : Exists(route'[<<a, x>>]) => Exists(route[<<a, x>>])
      BY <1>3, <2>4
    <2>6. handler[p].pc = "removemain" /\ UNCHANGED <<conf, faults, events, thawed>>
      BY <1>8 DEF RemoveMain, bounds
    <2>7. Removes(p)'
      BY <2>2, <2>3, <2>5, <2>6 DEF Removes, LabelledRoutes
    <2> QED
      BY <2>2, <2>3, <2>4, <2>6, <2>7
  <1>9. CASE RemoveCNameRoute(p)
    <2>1. PICK s \in Slots : Doomed(p, "removingcnames", s) /\ DeleteRoute(<<a, s>>)
      BY <1>9 DEF RemoveCNameRoute, DeleteRouteIn
    <2>2. /\ ~Exists(route'[<<a, s>>]) /\ listener' = listener
          /\ \A x \in RouteKeys : x # <<a, s>> => route'[x] = route[x]
      BY <1>3, <2>1, RouteDeleted
    <2>3. /\ \A x \in Prefixes : Exists(route'[<<a, x>>]) => Exists(route[<<a, x>>])
          /\ \A x \in CNames : Exists(route'[<<a, x>>]) => Exists(route[<<a, x>>]) /\ x # s
      BY <1>3, <2>2
    <2>4. LabelledRoutes(a) = {} /\ LabelledCNameRoutes(a) \subseteq handler[p].doomed
      BY <2>1, Struck DEF Removes
    <2> QED
      BY <2>1, <2>2, <2>3, <2>4, Struck DEF Removes, LabelledRoutes, LabelledCNameRoutes
  <1>10. CASE RemoveListenerSet(p)
    <2>1. PICK c \in CNames : Doomed(p, "removinglisteners", c) /\ DeleteListener(<<a, c>>)
      BY <1>10 DEF RemoveListenerSet, DeleteListenerIn
    <2>2. /\ ~Exists(listener'[<<a, c>>]) /\ route' = route
          /\ \A x \in ListenerKeys : x # <<a, c>> => listener'[x] = listener[x]
      BY <1>3, <2>1, ListenerDeleted
    <2>3. \A x \in CNames : Exists(listener'[<<a, x>>]) => Exists(listener[<<a, x>>]) /\ x # c
      BY <1>3, <2>2
    <2>4. /\ LabelledRoutes(a) = {} /\ LabelledCNameRoutes(a) = {}
          /\ LabelledListenerSets(a) \subseteq handler[p].doomed
      BY <2>1, Struck DEF Removes
    <2> QED
      BY <2>1, <2>2, <2>3, <2>4, Struck DEF Removes, LabelledRoutes, LabelledCNameRoutes,
         LabelledListenerSets
  <1> QED
    BY <1>4, <1>5, <1>6, <1>7, <1>8, <1>9, <1>10 DEF RemoveStep

LEMMA RemoveStage ==
    ASSUME IInv, NEW p \in Handlers, Stage(p), RemoveStep(p)
    PROVE  Stage(p)'
  <1> DEFINE a == handler[p].req.app
  <1>1. Removes(p)
    BY DEF Stage
  <1>2. /\ Removes(p)'
        /\ handler[p].pc \in RemovePCs /\ handler'[p].pc \in RemovePCs \ {"remove"}
        /\ handler'[p].req = handler[p].req
        /\ \A q \in Handlers : q # p => handler'[q] = handler[q]
        /\ UNCHANGED <<conf, faults, events, thawed>>
        /\ \A k \in RouteKeys : k[1] # a => route'[k] = route[k]
    BY <1>1, RemoveRemoves
  <1>3. ConfChosen(p)' /\ Exposes(p)' /\ Attaches(p)'
    BY <1>2, RemoveIsNoEnsure
  <1>4. ASSUME Undisturbed'
        PROVE  Tracks(p)'
    <2>1. handler'[p].pc # "idle"
      BY <1>2 DEF RemovePCs
    <2>2. Tracks(p)
      BY <1>2, <1>4, <2>1, StaysUndisturbed DEF Stage
    <2>3. a \in Apps
      BY <1>2, RemoveAsks
    <2>4. ASSUME NEW b \in Apps, b # a
          PROVE  LabelledCNameRoutes(b)' \subseteq ExistingCNames(b)'
      BY <1>2, <2>2, <2>3, <2>4, StaysTracked DEF Tracks
    <2>5. /\ handler'[p].pc \in UntrackedPCs
          /\ handler'[p].pc \notin RoutePuts \cup CNamePCs \cup {"cnamedrop"}
      BY <1>2 DEF UntrackedPCs, RemovePCs, RoutePuts, CNamePCs
    <2>6. ~Within(p, "Ensure", DetachedPCs)'
      BY <1>2 DEF Within, At, DetachedPCs, AttachedPCs, SweptPCs, ExposedPCs, SuffixedPCs,
                  ConfiguredPCs, EnsurePCs, RemovePCs
    <2>7. handler'[p].pc # "listenerput"
      BY <2>5 DEF CNamePCs
    <2> QED
      BY <1>2, <2>4, <2>5, <2>6, <2>7 DEF Tracks, At
  <1> QED
    BY <1>2, <1>3, <1>4 DEF Stage

-----------------------------------------------------------------------------
(* Requests begin, end and stop half-way.                                  *)

\* Positions at which the annotation tells of every CName's route.
TrackedPCs == {"idle", "error", "setgateway", "gatewayset", "setsuffix", "suffixset",
               "routes", "list", "sweep", "anycnames", "cnames", "remove"}

LEMMA TrackedThere ==
    ASSUME NEW p \in Handlers, handler'[p].pc \in TrackedPCs,
           \A a \in Apps : LabelledCNameRoutes(a)' \subseteq ExistingCNames(a)'
    PROVE  Tracks(p)'
  <1>1. /\ handler'[p].pc \notin RoutePuts \cup CNamePCs \cup {"cnamedrop"}
        /\ handler'[p].pc # "listenerput"
    BY DEF TrackedPCs, RoutePuts, CNamePCs
  <1>2. ~Within(p, "Ensure", DetachedPCs)'
    BY DEF Within, At, TrackedPCs, DetachedPCs, AttachedPCs, SweptPCs, ExposedPCs, SuffixedPCs,
           ConfiguredPCs, EnsurePCs, CNamePCs
  <1> QED
    BY <1>1, <1>2 DEF Tracks, At

\* A step at which the cluster stays as it is, between two such positions.
LEMMA TracksOn ==
    ASSUME NEW p \in Handlers, handler[p].pc \notin UntrackedPCs, Tracks(p),
           handler'[p].pc \in TrackedPCs, UNCHANGED route
    PROVE  Tracks(p)'
  <1>1. \A a \in Apps : LabelledCNameRoutes(a) \subseteq ExistingCNames(a)
    BY DEF Tracks
  <1>2. \A a \in Apps : LabelledCNameRoutes(a)' \subseteq ExistingCNames(a)'
    BY <1>1 DEF LabelledCNameRoutes, ExistingCNames
  <1> QED
    BY <1>2, TrackedThere

LEMMA ReceiveStage ==
    ASSUME IInv, NEW p \in Handlers, Stage(p), Receive(p)
    PROVE  Stage(p)'
  <1>1. PICK r \in Requests : handler' = [handler EXCEPT ![p] =
            [Idle EXCEPT !.pc = IF r.op = "Ensure" THEN "setgateway" ELSE "remove", !.req = r]]
    BY DEF Receive
  <1> DEFINE step == IF r.op = "Ensure" THEN "setgateway" ELSE "remove"
             h == [Idle EXCEPT !.pc = step, !.req = r]
  <1>2. step \in {"setgateway", "remove"} /\ h.pc = step
    BY DEF Idle
  <1>3. handler' = [handler EXCEPT ![p] = h]
    BY <1>1
  <1> HIDE DEF h, step
  <1>4. /\ handler'[p].pc \in {"setgateway", "remove"}
        /\ \A q \in Handlers : q # p => handler'[q] = handler[q]
    BY <1>2, <1>3, Moved
  <1>5. ConfChosen(p)' /\ Exposes(p)' /\ Attaches(p)'
    BY <1>4, RemoveIsNoEnsure DEF RemovePCs
  <1>6. Removes(p)'
    BY <1>4, EnsureIsNoRemove DEF EnsurePCs
  <1>7. route' = route /\ UNCHANGED <<faults, events>> /\ handler[p].pc \in Ends
    BY DEF Receive, cluster, routes
  <1>8. ASSUME Undisturbed' PROVE Tracks(p)'
    <2>1. Tracks(p)
      BY <1>4, <1>7, <1>8, StaysUndisturbed DEF Stage
    <2>2. handler[p].pc \notin UntrackedPCs /\ handler'[p].pc \in TrackedPCs
      BY <1>4, <1>7 DEF Ends, UntrackedPCs, CNamePCs, AttachedPCs, SweptPCs, ExposedPCs,
                        SuffixedPCs, ConfiguredPCs, EnsurePCs, RemovePCs, TrackedPCs
    <2> QED
      BY <1>7, <2>1, <2>2, TracksOn
  <1> QED
    BY <1>5, <1>6, <1>8 DEF Stage

\* What is left of a handler that returned.
LEMMA Ended ==
    ASSUME IInv, NEW p \in Handlers, NEW outcome, End(p, outcome)
    PROVE  /\ handler'[p].pc = outcome /\ handler'[p].req = handler[p].req
           /\ \A q \in Handlers : q # p => handler'[q] = handler[q]
  <1> DEFINE h == [Idle EXCEPT !.pc = outcome, !.req = handler[p].req]
  <1>1. h.pc = outcome /\ h.req = handler[p].req
    BY DEF Idle
  <1>2. handler' = [handler EXCEPT ![p] = h]
    BY DEF End
  <1> HIDE DEF h
  <1> QED
    BY <1>1, <1>2, Moved

\* A handler that goes on.
LEMMA Gone ==
    ASSUME IInv, NEW p \in Handlers, NEW step, Goto(p, step)
    PROVE  /\ handler'[p].pc = step
           /\ handler'[p].req = handler[p].req /\ handler'[p].at = handler[p].at
           /\ handler'[p].seen = handler[p].seen /\ handler'[p].parent = handler[p].parent
           /\ handler'[p].todo = handler[p].todo /\ handler'[p].doomed = handler[p].doomed
           /\ \A q \in Handlers : q # p => handler'[q] = handler[q]
  <1> DEFINE h == [handler[p] EXCEPT !.pc = step]
  <1>1. handler[p] \in Handler /\ handler' = [handler EXCEPT ![p] = h]
    BY DEF IInv, StateOK, Goto
  <1>2. /\ h.pc = step /\ h.req = handler[p].req /\ h.at = handler[p].at
        /\ h.seen = handler[p].seen /\ h.parent = handler[p].parent
        /\ h.todo = handler[p].todo /\ h.doomed = handler[p].doomed
    BY <1>1 DEF Handler
  <1> HIDE DEF h
  <1> QED
    BY <1>1, <1>2, Moved

\* An Ensure that ends early enough has nothing to attach: at these positions the
\* routes of the prefixes are done, and either there are no CNames or theirs are.
LEMMA EnsureEnds ==
    ASSUME IInv, NEW p \in Handlers, Exposes(p), Attaches(p),
           \/ handler[p].pc = "anycnames" /\ handler[p].req.cnames = {}
           \/ handler[p].pc \in AttachedPCs,
           handler'[p].pc = "ok", handler'[p].req = handler[p].req,
           UNCHANGED <<route, listener, events, thawed>>
    PROVE  ConfChosen(p)' /\ Exposes(p)' /\ Attaches(p)' /\ Removes(p)'
  <1> DEFINE r == handler[p].req
  <1> USE DEF EnsurePCs, ConfiguredPCs, SuffixedPCs, ExposedPCs, SweptPCs, AttachedPCs, CNamePCs
  <1>1. handler[p].pc \in EnsurePCs /\ r.op = "Ensure" /\ EnsuredCNames(r) \subseteq r.cnames
    BY EnsureAsks
  <1>2. ConfChosen(p)'
    BY DEF ConfChosen
  <1>3. Exposes(p)'
    <2>1. /\ \A s \in r.prefixes : PrefixMet(r, <<r.app, s>>)
          /\ \A s \in Prefixes \ r.prefixes : PrefixSwept(<<r.app, s>>)
      BY DEF Exposes, Within
    <2> QED
      BY <2>1 DEF Exposes, Within, At, PrefixMet, PrefixSwept, MetFrozen
  <1>4. Attaches(p)'
    <2>1. \A c \in EnsuredCNames(r) : CNameMet(r, <<r.app, c>>)
      BY <1>1 DEF Attaches, Within
    <2> QED
      BY <2>1 DEF Attaches, Within, At, CNameMet, MetFrozen, EnsuredCNames
  <1>5. Removes(p)'
    BY <1>1, EnsureIsNoRemove
  <1> QED
    BY <1>2, <1>3, <1>4, <1>5

LEMMA FailStage ==
    ASSUME IInv, NEW p \in Handlers, Stage(p), Fail(p)
    PROVE  Stage(p)'
  <1>1. faults \in Nat /\ faults' = faults + 1 /\ UNCHANGED <<route, listener, events, thawed>>
    BY DEF IInv, StateOK, Fail, cluster, routes, listeners
  <1>2. ~Undisturbed'
    BY <1>1 DEF Undisturbed
  <1>3. CASE handler[p].pc \in {"anycnames", "annotate", "annotput"}
    <2>1. handler'[p].pc = "ok" /\ handler'[p].req = handler[p].req
      BY <1>3, Ended DEF Fail
    <2>2. handler[p].pc = "anycnames" => handler[p].req.cnames = {}
      BY DEF Fail, Calls, At
    <2>3. handler[p].pc # "anycnames" => handler[p].pc \in AttachedPCs
      BY <1>3 DEF AttachedPCs, SweptPCs, ExposedPCs, SuffixedPCs, ConfiguredPCs, EnsurePCs, CNamePCs
    <2> QED
      BY <1>1, <1>2, <1>3, <2>1, <2>2, <2>3, EnsureEnds DEF Stage
  <1>4. CASE handler[p].pc \notin {"anycnames", "annotate", "annotput"}
    <2>1. handler'[p].pc = "error"
      BY <1>4, Ended DEF Fail
    <2> QED
      BY <1>2, <2>1, RemoveIsNoEnsure, EnsureIsNoRemove DEF Stage
  <1> QED
    BY <1>3, <1>4

-----------------------------------------------------------------------------
(* Ensure: the fields of the service.                                      *)

\* Between the fields and the first route nothing is held of the cluster.
EarlyPCs == {"setgateway", "gatewayset", "setsuffix", "suffixset"}

LEMMA EarlyStage ==
    ASSUME IInv, NEW p \in Handlers, Stage(p), handler[p].pc \in EarlyPCs,
           handler'[p].pc \in (EarlyPCs \ {"setgateway"}) \cup {"error"},
           \A q \in Handlers : q # p => handler'[q] = handler[q],
           UNCHANGED <<route, faults, events, thawed>>, ConfChosen(p)'
    PROVE  Stage(p)'
  <1>1. Exposes(p)' /\ Attaches(p)'
    BY DEF Exposes, Attaches, Within, At, EarlyPCs, ConfiguredPCs, EnsurePCs, SuffixedPCs,
           ExposedPCs, SweptPCs, AttachedPCs, CNamePCs
  <1>2. Removes(p)'
    BY EnsureIsNoRemove DEF EarlyPCs, EnsurePCs
  <1>3. ASSUME Undisturbed' PROVE Tracks(p)'
    <2>1. Tracks(p)
      BY <1>3, StaysUndisturbed DEF Stage, EarlyPCs
    <2>2. handler[p].pc \notin UntrackedPCs /\ handler'[p].pc \in TrackedPCs
      BY DEF EarlyPCs, UntrackedPCs, CNamePCs, AttachedPCs, SweptPCs, ExposedPCs,
             SuffixedPCs, ConfiguredPCs, EnsurePCs, RemovePCs, TrackedPCs
    <2> QED
      BY <2>1, <2>2, TracksOn
  <1> QED
    BY <1>1, <1>2, <1>3 DEF Stage

LEMMA SetGatewayStage ==
    ASSUME IInv, NEW p \in Handlers, Stage(p), SetGateway(p)
    PROVE  Stage(p)'
  <1>1. handler[p].pc = "setgateway" /\ UNCHANGED <<route, faults, events, thawed>>
    BY DEF SetGateway, At, cluster, routes, bounds
  <1>2. handler'[p].pc = "gatewayset" /\ \A q \in Handlers : q # p => handler'[q] = handler[q]
    BY Gone DEF SetGateway
  <1>3. ConfChosen(p)'
    BY <1>2, RemoveIsNoEnsure
  <1> QED
    BY <1>1, <1>2, <1>3, EarlyStage DEF EarlyPCs

LEMMA GatewaySetStage ==
    ASSUME IInv, NEW p \in Handlers, Stage(p), GatewaySet(p)
    PROVE  Stage(p)'
  <1> DEFINE r == handler[p].req
             s == Service(p)
             g == Chosen(r, conf[s])
             n == ChosenNamespace(r)
             c == [conf[s] EXCEPT !.gateway = g, !.namespace = n]
  <1>1. handler[p].pc = "gatewayset" /\ UNCHANGED <<route, faults, events, thawed>>
    BY DEF GatewaySet, At, cluster, routes, bounds
  <1>2. CASE g = Nil
    <2>1. handler'[p].pc = "error" /\ \A q \in Handlers : q # p => handler'[q] = handler[q]
      BY <1>2, Ended DEF GatewaySet, GatewayMissing
    <2>2. ConfChosen(p)'
      BY <2>1, RemoveIsNoEnsure
    <2> QED
      BY <1>1, <2>1, <2>2, EarlyStage DEF EarlyPCs
  <1>3. CASE g # Nil
    <2>1. /\ handler'[p].pc = "setsuffix" /\ handler'[p].req = r
          /\ \A q \in Handlers : q # p => handler'[q] = handler[q]
      BY <1>3, Gone DEF GatewaySet, GatewayMissing
    <2>2. s \in Handlers /\ conf[s] \in Config /\ conf \in [Handlers -> Config]
      BY <1>1, EnsuresType DEF EnsurePCs, IInv, StateOK
    <2>3. conf' = [conf EXCEPT ![s] = c]
      BY DEF GatewaySet
    <2>4. r.gateway # Nil => g = r.gateway
      BY DEF Chosen
    <2> HIDE DEF g, n
    <2>5. c.gateway = g /\ c.namespace = n
      BY <2>2 DEF Config
    <2> HIDE DEF c
    <2>6. conf'[s] = c
      BY <2>2, <2>3
    <2>7. Wanted(r, GatewayOf(c))
      BY <1>3, <2>4, <2>5 DEF Wanted, GatewayOf, n
    <2> HIDE DEF r
    <2>8. Service(p)' = s
      BY DEF Service
    <2>9. ConfChosen(p)'
      BY <2>1, <2>6, <2>7, <2>8 DEF ConfChosen, SuffixedPCs
    <2> QED
      BY <1>1, <2>1, <2>9, EarlyStage DEF EarlyPCs
  <1> QED
    BY <1>2, <1>3

LEMMA SetSuffixStage ==
    ASSUME IInv, NEW p \in Handlers, Stage(p), SetSuffix(p)
    PROVE  Stage(p)'
  <1> DEFINE r == handler[p].req
             s == Service(p)
             x == Writing(conf[s].suffix, ChosenSuffix(r, conf[s]))
             c == [conf[s] EXCEPT !.suffix = x]
  <1>1. handler[p].pc = "setsuffix" /\ UNCHANGED <<route, faults, events, thawed>>
    BY DEF SetSuffix, At, cluster, routes, bounds
  <1>2. /\ handler'[p].pc = "suffixset" /\ handler'[p].req = r
        /\ \A q \in Handlers : q # p => handler'[q] = handler[q]
    BY Gone DEF SetSuffix
  <1>3. s \in Handlers /\ conf[s] \in Config /\ conf \in [Handlers -> Config]
    BY <1>1, EnsuresType DEF EnsurePCs, IInv, StateOK
  <1>4. conf' = [conf EXCEPT ![s] = c]
    BY DEF SetSuffix
  <1> HIDE DEF x
  <1>5. c.gateway = conf[s].gateway /\ c.namespace = conf[s].namespace
    BY <1>3 DEF Config
  <1> HIDE DEF c
  <1>6. conf'[s] = c
    BY <1>3, <1>4
  <1>7. Wanted(r, GatewayOf(conf[s]))
    BY <1>1 DEF Stage, ConfChosen, ConfiguredPCs, EnsurePCs
  <1>8. Wanted(r, GatewayOf(c))
    BY <1>5, <1>7 DEF GatewayOf
  <1>9. Service(p)' = s
    BY DEF Service
  <1> HIDE DEF r, s
  <1>10. ConfChosen(p)'
    BY <1>2, <1>6, <1>8, <1>9 DEF ConfChosen, SuffixedPCs
  <1> QED
    BY <1>1, <1>2, <1>10, EarlyStage DEF EarlyPCs

LEMMA SuffixSetStage ==
    ASSUME IInv, NEW p \in Handlers, Stage(p), SuffixSet(p)
    PROVE  Stage(p)'
  <1> DEFINE r == handler[p].req
             s == Service(p)
             x == ChosenSuffix(r, conf[s])
             c == [conf[s] EXCEPT !.suffix = x]
             todo == r.prefixes
             h == [handler[p] EXCEPT !.pc = "routes", !.todo = todo]
  <1>1. handler[p].pc = "suffixset" /\ UNCHANGED <<route, faults, events, thawed>>
    BY DEF SuffixSet, At, cluster, routes, bounds
  <1>2. /\ handler'[p].pc = "routes" /\ handler'[p].req = r /\ handler'[p].todo = r.prefixes
        /\ \A q \in Handlers : q # p => handler'[q] = handler[q]
    <2>1. handler[p] \in Handler /\ handler' = [handler EXCEPT ![p] = h]
      BY DEF IInv, StateOK, SuffixSet
    <2>2. h.pc = "routes" /\ h.req = r /\ h.todo = todo
      BY <2>1 DEF Handler
    <2> HIDE DEF h
    <2> QED
      BY <2>1, <2>2, Moved
  <1>3. s \in Handlers /\ conf[s] \in Config /\ conf \in [Handlers -> Config]
    BY <1>1, EnsuresType DEF EnsurePCs, IInv, StateOK
  <1>4. conf' = [conf EXCEPT ![s] = c]
    BY DEF SuffixSet
  <1>5. r.suffix # Nil => x = r.suffix
    BY DEF ChosenSuffix
  <1> HIDE DEF x
  <1>6. c.gateway = conf[s].gateway /\ c.namespace = conf[s].namespace /\ c.suffix = x
    BY <1>3 DEF Config
  <1> HIDE DEF c
  <1>7. conf'[s] = c
    BY <1>3, <1>4
  <1>8. Wanted(r, GatewayOf(conf[s]))
    BY <1>1 DEF Stage, ConfChosen, ConfiguredPCs, EnsurePCs
  <1>9. Wanted(r, GatewayOf(c))
    BY <1>6, <1>8 DEF GatewayOf
  <1>10. Service(p)' = s
    BY DEF Service
  <1>11. ConfChosen(p)'
    BY <1>2, <1>5, <1>6, <1>7, <1>9, <1>10 DEF ConfChosen
  <1>12. Exposes(p)' /\ Attaches(p)'
    BY <1>2 DEF Exposes, Attaches, Within, At, ConfiguredPCs, EnsurePCs, SuffixedPCs,
           ExposedPCs, SweptPCs, AttachedPCs, CNamePCs
  <1>13. Removes(p)'
    BY <1>2, EnsureIsNoRemove DEF EnsurePCs
  <1>14. ASSUME Undisturbed' PROVE Tracks(p)'
    <2>1. Tracks(p)
      BY <1>1, <1>2, <1>14, StaysUndisturbed DEF Stage
    <2>2. handler[p].pc \notin UntrackedPCs /\ handler'[p].pc \in TrackedPCs
      BY <1>1, <1>2 DEF UntrackedPCs, CNamePCs, AttachedPCs, SweptPCs, ExposedPCs,
             SuffixedPCs, ConfiguredPCs, EnsurePCs, RemovePCs, TrackedPCs
    <2> QED
      BY <1>1, <2>1, <2>2, TracksOn
  <1> QED
    BY <1>11, <1>12, <1>13, <1>14 DEF Stage

-----------------------------------------------------------------------------
(* Ensure: the routes of the prefixes.                                     *)

\* The fields stay as the request chose them.
LEMMA ConfStays ==
    ASSUME NEW p \in Handlers, ConfChosen(p), UNCHANGED conf, handler'[p].req = handler[p].req,
           handler'[p].pc \in SuffixedPCs => handler[p].pc \in SuffixedPCs,
           handler'[p].pc \in ConfiguredPCs => handler[p].pc \in ConfiguredPCs
    PROVE  ConfChosen(p)'
  <1>1. Service(p)' = Service(p)
    BY DEF Service
  <1> QED
    BY <1>1 DEF ConfChosen

LEMMA SlotEnded ==
    ASSUME IInv, NEW p \in Handlers, NEW step, NextSlot(p, step)
    PROVE  /\ handler'[p].pc = step /\ handler'[p].todo = handler[p].todo \ {handler[p].at}
           /\ handler'[p].req = handler[p].req /\ handler'[p].parent = handler[p].parent
           /\ handler'[p].doomed = handler[p].doomed
           /\ \A q \in Handlers : q # p => handler'[q] = handler[q]
  <1> DEFINE h == [handler[p] EXCEPT !.pc = step, !.todo = handler[p].todo \ {handler[p].at},
                                     !.at = Nil, !.seen = Nil]
  <1>1. handler[p] \in Handler /\ handler' = [handler EXCEPT ![p] = h]
    BY DEF IInv, StateOK, NextSlot
  <1>2. /\ h.pc = step /\ h.todo = handler[p].todo \ {handler[p].at}
        /\ h.req = handler[p].req /\ h.parent = handler[p].parent /\ h.doomed = handler[p].doomed
    BY <1>1 DEF Handler
  <1> HIDE DEF h
  <1> QED
    BY <1>1, <1>2, Moved

\* A handler that reads an object to write it.
Gets(p, step, s, o) ==
    handler' = [handler EXCEPT ![p] = [handler[p] EXCEPT !.pc = step, !.at = s, !.seen = o]]

LEMMA Got ==
    ASSUME IInv, NEW p \in Handlers, NEW step, NEW s, NEW o, Gets(p, step, s, o)
    PROVE  /\ handler'[p].pc = step /\ handler'[p].at = s /\ handler'[p].seen = o
           /\ handler'[p].req = handler[p].req /\ handler'[p].todo = handler[p].todo
           /\ handler'[p].parent = handler[p].parent /\ handler'[p].doomed = handler[p].doomed
           /\ \A q \in Handlers : q # p => handler'[q] = handler[q]
  <1> DEFINE h == [handler[p] EXCEPT !.pc = step, !.at = s, !.seen = o]
  <1>1. handler[p] \in Handler /\ handler' = [handler EXCEPT ![p] = h]
    BY DEF IInv, StateOK, Gets
  <1>2. /\ h.pc = step /\ h.at = s /\ h.seen = o
        /\ h.req = handler[p].req /\ h.todo = handler[p].todo
        /\ h.parent = handler[p].parent /\ h.doomed = handler[p].doomed
    BY <1>1 DEF Handler
  <1> HIDE DEF h
  <1> QED
    BY <1>1, <1>2, Moved

LEMMA RouteGetStage ==
    ASSUME IInv, NEW p \in Handlers, Stage(p), RouteGet(p)
    PROVE  Stage(p)'
  <1> DEFINE r == handler[p].req
  <1>1. handler[p].pc = "routes" /\ UNCHANGED <<route, listener, conf, faults, events, thawed>>
    BY DEF RouteGet, At, Local, cluster, routes, listeners, bounds
  <1>2. /\ r.app \in Apps /\ r.prefixes \subseteq Prefixes /\ r.op = "Ensure"
    BY <1>1, EnsureAsks DEF EnsurePCs
  <1>3. /\ handler[p].todo \subseteq r.prefixes
        /\ \A s \in r.prefixes \ handler[p].todo : PrefixMet(r, <<r.app, s>>)
    BY <1>1 DEF Stage, Exposes
  <1>4. PICK s \in handler[p].todo :
            \/ /\ IsFrozenHTTPRoute(route[<<r.app, s>>])
               /\ handler' = [handler EXCEPT ![p].todo = @ \ {s}]
            \/ Gets(p, "routeput", s, route[<<r.app, s>>])
    BY DEF RouteGet, App, Gets
  <1>5. ASSUME handler'[p].pc \in {"routes", "routeput"}, handler'[p].req = r
        PROVE  ConfChosen(p)' /\ Attaches(p)' /\ Removes(p)'
    <2>1. ConfChosen(p)'
      BY <1>1, <1>5, ConfStays DEF Stage, SuffixedPCs, ConfiguredPCs, EnsurePCs
    <2>2. Attaches(p)'
      BY <1>5 DEF Attaches, Within, At, ConfiguredPCs, EnsurePCs, SuffixedPCs,
           ExposedPCs, SweptPCs, AttachedPCs, CNamePCs
    <2>3. Removes(p)'
      BY <1>5, EnsureIsNoRemove DEF EnsurePCs
    <2> QED
      BY <2>1, <2>2, <2>3
  <1>6. CASE /\ IsFrozenHTTPRoute(route[<<r.app, s>>])
             /\ handler' = [handler EXCEPT ![p].todo = @ \ {s}]
    <2> DEFINE h == [handler[p] EXCEPT !.todo = handler[p].todo \ {s}]
    <2>1. handler[p] \in Handler /\ handler' = [handler EXCEPT ![p] = h]
      BY <1>6 DEF IInv, StateOK
    <2>2. h.pc = "routes" /\ h.req = r /\ h.todo = handler[p].todo \ {s}
      BY <1>1, <2>1 DEF Handler
    <2> HIDE DEF h
    <2>3. handler'[p] = h /\ \A q \in Handlers : q # p => handler'[q] = handler[q]
      BY <2>1, Moved
    <2>4. PrefixMet(r, <<r.app, s>>)
      BY <1>6 DEF PrefixMet, MetFrozen, IsFrozenHTTPRoute
    <2>5. \A x \in r.prefixes \ h.todo : PrefixMet(r, <<r.app, x>>)
      BY <1>3, <2>2, <2>4
    <2>6. Exposes(p)'
      BY <1>1, <1>3, <2>2, <2>3, <2>5 DEF Exposes, Within, At, ConfiguredPCs, EnsurePCs,
         SuffixedPCs, ExposedPCs, SweptPCs, PrefixMet, MetFrozen
    <2>7. ASSUME Undisturbed' PROVE Tracks(p)'
      <3>1. Tracks(p)
        BY <1>1, <2>2, <2>3, <2>7, StaysUndisturbed DEF Stage
      <3>2. handler[p].pc \notin UntrackedPCs /\ handler'[p].pc \in TrackedPCs
        BY <1>1, <2>2, <2>3 DEF UntrackedPCs, CNamePCs, AttachedPCs, SweptPCs, ExposedPCs,
             SuffixedPCs, ConfiguredPCs, EnsurePCs, RemovePCs, TrackedPCs
      <3> QED
        BY <1>1, <3>1, <3>2, TracksOn
    <2> QED
      BY <1>5, <2>2, <2>3, <2>6, <2>7 DEF Stage
  <1>7. CASE Gets(p, "routeput", s, route[<<r.app, s>>])
    <2>1. /\ handler'[p].pc = "routeput" /\ handler'[p].at = s
          /\ handler'[p].seen = route[<<r.app, s>>]
          /\ handler'[p].req = r /\ handler'[p].todo = handler[p].todo
          /\ \A q \in Handlers : q # p => handler'[q] = handler[q]
      BY <1>7, Got
    <2>2. Exposes(p)'
      BY <1>1, <1>3, <2>1 DEF Exposes, Within, At, ConfiguredPCs, EnsurePCs,
         SuffixedPCs, ExposedPCs, SweptPCs, PrefixMet, MetFrozen
    <2>3. ASSUME Undisturbed' PROVE Tracks(p)'
      <3>1. Tracks(p)
        BY <1>1, <2>1, <2>3, StaysUndisturbed DEF Stage
      <3>2. \A a \in Apps : LabelledCNameRoutes(a) \subseteq ExistingCNames(a)
        BY <1>1, <3>1 DEF Tracks, UntrackedPCs, CNamePCs, AttachedPCs, SweptPCs, ExposedPCs,
             SuffixedPCs, ConfiguredPCs, EnsurePCs, RemovePCs
      <3>3. \A a \in Apps : LabelledCNameRoutes(a)' \subseteq ExistingCNames(a)'
        BY <1>1, <3>2 DEF LabelledCNameRoutes, ExistingCNames
      <3>4. handler'[p].seen = route'[KeyOf(handler'[p])]
        BY <1>1, <2>1 DEF KeyOf
      <3>5. /\ handler'[p].pc \notin CNamePCs \cup {"cnamedrop"}
            /\ handler'[p].pc # "listenerput" /\ ~Within(p, "Ensure", DetachedPCs)'
        BY <2>1 DEF Within, At, DetachedPCs, AttachedPCs, SweptPCs, ExposedPCs, SuffixedPCs,
             ConfiguredPCs, EnsurePCs, CNamePCs
      <3> QED
        BY <3>3, <3>4, <3>5 DEF Tracks, At
    <2> QED
      BY <1>5, <2>1, <2>2, <2>3 DEF Stage
  <1> QED
    BY <1>4, <1>6, <1>7

\* A write of a route, or its refusal.
LEMMA PrefixPut ==
    ASSUME IInv, NEW p \in Handlers, RoutePut(p)
    PROVE  LET h == handler[p]
               k == Key(p)
               c == conf[Service(p)]
           IN
           /\ h.pc = "routeput" /\ k \in RouteKeys
           /\ handler'[p].req = h.req /\ listener' = listener
           /\ \A q \in Handlers : q # p => handler'[q] = handler[q]
           /\ UNCHANGED <<conf, faults, events, thawed>>
           /\ \/ handler'[p].pc = "error" /\ route' = route
              \/ /\ handler'[p].pc = "routes" /\ handler'[p].todo = h.todo \ {h.at}
                 /\ Exists(route'[k]) /\ ~route'[k].frozen
                 /\ route'[k].parent = GatewayOf(c) /\ route'[k].suffix = c.suffix
                 /\ Exists(h.seen) => route'[k].cnames = h.seen.cnames
                 /\ \A x \in RouteKeys : x # k => route'[x] = route[x]
  <1> DEFINE k == Key(p)
             c == conf[Service(p)]
             m == PrefixRoute(c, handler[p].seen)
  <1>1. handler[p].pc = "routeput" /\ handler[p].pc \in RoutePuts
    BY DEF RoutePut, At, RoutePuts
  <1>2. /\ k \in RouteKeys /\ m \in Route
        /\ Exists(handler[p].seen) => m.cnames = handler[p].seen.cnames
    BY <1>1, PutType, PrefixRouteType
  <1>3. ~m.frozen /\ m.parent = GatewayOf(c) /\ m.suffix = c.suffix
    BY DEF PrefixRoute
  <1>4. /\ UNCHANGED <<conf, faults, events, thawed>>
        /\ \/ WriteRoute(k, m) /\ NextSlot(p, "routes")
           \/ End(p, "error") /\ UNCHANGED cluster
    BY DEF RoutePut, Upsert, bounds
  <1> HIDE DEF m, k, c
  <1>5. CASE WriteRoute(k, m) /\ NextSlot(p, "routes")
    BY <1>1, <1>2, <1>3, <1>4, <1>5, RoutePutLeaves, SlotEnded DEF k, c
  <1>6. CASE End(p, "error") /\ UNCHANGED cluster
    BY <1>1, <1>2, <1>4, <1>6, Ended DEF cluster, routes, listeners, k
  <1> QED
    BY <1>4, <1>5, <1>6

LEMMA RoutePutStage ==
    ASSUME IInv, NEW p \in Handlers, Stage(p), RoutePut(p)
    PROVE  Stage(p)'
  <1>0. PICK r, at, k, c : /\ r = handler[p].req /\ at = handler[p].at /\ k = Key(p)
                           /\ c = conf[Service(p)]
    OBVIOUS
  <1>1. /\ handler[p].pc = "routeput"
        /\ handler'[p].req = r /\ listener' = listener
        /\ \A q \in Handlers : q # p => handler'[q] = handler[q]
        /\ UNCHANGED <<conf, faults, events, thawed>>
        /\ handler'[p].pc \in {"error", "routes"}
    BY <1>0, PrefixPut
  <1>2. /\ r.app \in Apps /\ r.prefixes \subseteq Prefixes /\ r.op = "Ensure"
    BY <1>0, <1>1, EnsureAsks DEF EnsurePCs
  <1>3. /\ handler[p].todo \subseteq r.prefixes /\ at \in r.prefixes
        /\ \A s \in r.prefixes \ handler[p].todo : PrefixMet(r, <<r.app, s>>)
    BY <1>0, <1>1 DEF Stage, Exposes, At
  <1>4. Removes(p)'
    BY <1>1, <1>2, EnsureIsNoRemove DEF EnsurePCs
  <1>5. ConfChosen(p)'
    BY <1>0, <1>1, ConfStays DEF Stage, SuffixedPCs, ConfiguredPCs, EnsurePCs
  <1>6. Attaches(p)'
    BY <1>1 DEF Attaches, Within, At, ConfiguredPCs, EnsurePCs, SuffixedPCs,
           ExposedPCs, SweptPCs, AttachedPCs, CNamePCs
  <1>7. ASSUME Undisturbed' PROVE Undisturbed /\ Tracks(p)
    BY <1>1, <1>7, StaysUndisturbed DEF Stage
  <1>8. \A a \in Apps : Undisturbed' => LabelledCNameRoutes(a) \subseteq ExistingCNames(a)
    BY <1>1, <1>7 DEF Tracks, UntrackedPCs, CNamePCs, AttachedPCs, SweptPCs, ExposedPCs,
             SuffixedPCs, ConfiguredPCs, EnsurePCs, RemovePCs
  <1>9. CASE handler'[p].pc = "error"
    <2>1. route' = route
      BY <1>9, PrefixPut
    <2>2. Exposes(p)'
      BY <1>9, RemoveIsNoEnsure
    <2>3. ASSUME Undisturbed' PROVE Tracks(p)'
      <3>1. \A a \in Apps : LabelledCNameRoutes(a)' \subseteq ExistingCNames(a)'
        BY <1>8, <2>1, <2>3 DEF LabelledCNameRoutes, ExistingCNames
      <3> QED
        BY <1>9, <3>1, TrackedThere DEF TrackedPCs
    <2> QED
      BY <1>4, <1>5, <1>6, <2>2, <2>3 DEF Stage
  <1>10. CASE handler'[p].pc = "routes"
    <2>1. /\ k \in RouteKeys /\ handler'[p].todo = handler[p].todo \ {at}
          /\ Exists(route'[k]) /\ ~route'[k].frozen
          /\ route'[k].parent = GatewayOf(c) /\ route'[k].suffix = c.suffix
          /\ Exists(handler[p].seen) => route'[k].cnames = handler[p].seen.cnames
          /\ \A x \in RouteKeys : x # k => route'[x] = route[x]
      BY <1>0, <1>10, PrefixPut
    <2>2. k = <<r.app, at>> /\ at \in Prefixes
      BY <1>0, <1>2, <1>3 DEF Key
    <2>3. /\ \A s \in Slots : <<r.app, s>> \in RouteKeys
          /\ \A s \in Prefixes : <<r.app, s>> \in RouteKeys
          /\ \A x \in CNames : x \notin Prefixes
          /\ Default \in Prefixes
      BY <1>2, Keys
    <2>4. Exposes(p)'
      <3>1. Wanted(r, GatewayOf(c)) /\ (r.suffix # Nil => c.suffix = r.suffix)
        BY <1>0, <1>1 DEF Stage, ConfChosen, SuffixedPCs, ConfiguredPCs, EnsurePCs
      <3>2. Wanted(r, route'[k].parent) /\ (r.suffix # Nil => route'[k].suffix = r.suffix)
        BY <2>1, <3>1
      <3>3. PrefixMet(r, <<r.app, at>>)'
        BY <1>1, <2>1, <2>2, <3>2 DEF PrefixMet, MetFrozen
      <3>4. ASSUME NEW s \in r.prefixes \ handler'[p].todo, s # at
            PROVE  PrefixMet(r, <<r.app, s>>)'
        <4>1. route'[<<r.app, s>>] = route[<<r.app, s>>]
          BY <1>2, <2>1, <2>2, <2>3, <3>4
        <4>2. PrefixMet(r, <<r.app, s>>)
          BY <1>3, <2>1, <3>4
        <4> QED
          BY <1>1, <4>1, <4>2 DEF PrefixMet, MetFrozen
      <3>5. \A s \in r.prefixes \ handler'[p].todo : PrefixMet(r, <<r.app, s>>)'
        BY <2>2, <3>3, <3>4
      <3> QED
        BY <1>1, <1>3, <1>10, <2>1, <3>5 DEF Exposes, Within, At, ConfiguredPCs, EnsurePCs,
         SuffixedPCs, ExposedPCs, SweptPCs
    <2>5. ASSUME Undisturbed' PROVE Tracks(p)'
      <3>1. handler[p].seen = route[k]
        BY <1>0, <1>1, <1>7, <2>5 DEF Tracks, RoutePuts, KeyOf, Key
      <3>2. ASSUME NEW a \in Apps, a # r.app
            PROVE  LabelledCNameRoutes(a)' \subseteq ExistingCNames(a)'
        <4>1. \A x \in RouteKeys : x[1] # r.app => route'[x] = route[x]
          BY <2>1, <2>2
        <4> QED
          BY <1>2, <1>8, <2>5, <3>2, <4>1, StaysTracked
      <3>3. LabelledCNameRoutes(r.app)' \subseteq ExistingCNames(r.app)'
        <4>1. LabelledCNameRoutes(r.app) \subseteq ExistingCNames(r.app)
          BY <1>2, <1>8, <2>5
        <4>2. ExistingCNames(r.app) \subseteq ExistingCNames(r.app)'
          BY <1>1, <2>1, <2>2, <2>3, <3>1 DEF ExistingCNames
        <4>3. \A x \in CNames : route'[<<r.app, x>>] = route[<<r.app, x>>]
          <5> TAKE x \in CNames
          <5>1. x \in Slots /\ x # at
            BY <2>2, <2>3 DEF Slots
          <5>2. <<r.app, x>> \in RouteKeys /\ <<r.app, x>> # k
            BY <2>2, <2>3, <5>1
          <5> QED
            BY <2>1, <5>2
        <4> QED
          BY <1>1, <4>1, <4>2, <4>3 DEF LabelledCNameRoutes
      <3> QED
        BY <1>1, <3>2, <3>3, TrackedThere DEF TrackedPCs
    <2> QED
      BY <1>4, <1>5, <1>6, <2>4, <2>5 DEF Stage
  <1> QED
    BY <1>1, <1>9, <1>10

-----------------------------------------------------------------------------
(* Ensure: the routes of prefixes no longer exposed, and whether there are *)
(* CNames.                                                                 *)

\* Steps that lead from one position before the CNames to the next, and leave the
\* cluster as it is.
LEMMA OnwardStage ==
    ASSUME IInv, NEW p \in Handlers, Stage(p),
           handler[p].pc \in {"routes", "list", "sweep", "anycnames"},
           handler'[p].pc \in {"list", "sweep", "anycnames", "cnames"},
           handler'[p].req = handler[p].req,
           \A q \in Handlers : q # p => handler'[q] = handler[q],
           UNCHANGED <<route, listener, conf, faults, events, thawed>>, Exposes(p)'
    PROVE  Stage(p)'
  <1>1. ConfChosen(p)'
    BY ConfStays DEF Stage, SuffixedPCs, ConfiguredPCs, EnsurePCs
  <1>2. Attaches(p)'
    BY DEF Attaches, Within, At, ConfiguredPCs, EnsurePCs, SuffixedPCs,
           ExposedPCs, SweptPCs, AttachedPCs, CNamePCs
  <1>3. Removes(p)'
    BY EnsureIsNoRemove DEF EnsurePCs
  <1>4. ASSUME Undisturbed' PROVE Tracks(p)'
    <2>1. Tracks(p)
      BY <1>4, StaysUndisturbed DEF Stage
    <2>2. handler[p].pc \notin UntrackedPCs /\ handler'[p].pc \in TrackedPCs
      BY DEF UntrackedPCs, CNamePCs, AttachedPCs, SweptPCs, ExposedPCs,
             SuffixedPCs, ConfiguredPCs, EnsurePCs, RemovePCs, TrackedPCs
    <2> QED
      BY <2>1, <2>2, TracksOn
  <1> QED
    BY <1>1, <1>2, <1>3, <1>4 DEF Stage

LEMMA ListObsoleteStage ==
    ASSUME IInv, NEW p \in Handlers, Stage(p), ListObsolete(p)
    PROVE  Stage(p)'
  <1>1. /\ handler[p].pc = "list" /\ handler'[p].pc = "sweep"
        /\ handler'[p].doomed = ObsoleteRoutes(App(p), handler[p].req.prefixes)
        /\ handler'[p].req = handler[p].req
        /\ \A q \in Handlers : q # p => handler'[q] = handler[q]
        /\ UNCHANGED <<route, listener, conf, faults, events, thawed>>
    BY Listed DEF ListObsolete
  <1>2. \A s \in handler[p].req.prefixes : PrefixMet(handler[p].req, <<App(p), s>>)
    BY <1>1 DEF Stage, Exposes, Within, App, ExposedPCs, SuffixedPCs, ConfiguredPCs, EnsurePCs
  <1>3. Exposes(p)'
    BY <1>1, <1>2 DEF Exposes, Within, At, App, ObsoleteRoutes, IsFrozenHTTPRoute, PrefixMet,
       PrefixSwept, MetFrozen, SweptPCs, ExposedPCs, SuffixedPCs, ConfiguredPCs, EnsurePCs
  <1> QED
    BY <1>1, <1>3, OnwardStage

LEMMA DeleteObsoleteStage ==
    ASSUME IInv, NEW p \in Handlers, Stage(p), DeleteObsolete(p)
    PROVE  Stage(p)'
  <1>0. PICK r, d : r = handler[p].req /\ d = handler[p].doomed
    OBVIOUS
  <1>1. PICK s \in Slots : Doomed(p, "sweep", s) /\ DeleteRoute(<<r.app, s>>)
    BY <1>0 DEF DeleteObsolete, DeleteRouteIn, App
  <1>2. /\ handler[p].pc = "sweep" /\ s \in d
        /\ handler'[p].pc = "sweep" /\ handler'[p].doomed = d \ {s}
        /\ handler'[p].req = r
        /\ \A q \in Handlers : q # p => handler'[q] = handler[q]
        /\ UNCHANGED <<conf, faults, events, thawed>>
    BY <1>0, <1>1, Struck
  <1>3. r.app \in Apps /\ r.prefixes \subseteq Prefixes /\ Default \in r.prefixes
    BY <1>0, <1>2, EnsureAsks DEF EnsurePCs
  <1>4. /\ d \subseteq Prefixes \ r.prefixes
        /\ \A x \in r.prefixes : PrefixMet(r, <<r.app, x>>)
        /\ \A x \in Prefixes \ r.prefixes : x \in d \/ PrefixSwept(<<r.app, x>>)
    BY <1>0, <1>2 DEF Stage, Exposes, At, Within, ExposedPCs, SuffixedPCs, ConfiguredPCs, EnsurePCs
  <1>5. /\ ~Exists(route'[<<r.app, s>>]) /\ listener' = listener
        /\ \A x \in RouteKeys : x # <<r.app, s>> => route'[x] = route[x]
    BY <1>1, <1>3, Keys, RouteDeleted
  <1>6. \A x \in Slots : x # s => route'[<<r.app, x>>] = route[<<r.app, x>>]
    BY <1>3, <1>5, Keys
  <1>7. Exposes(p)'
    <2>1. \A x \in r.prefixes : PrefixMet(r, <<r.app, x>>)'
      <3> TAKE x \in r.prefixes
      <3>1. route'[<<r.app, x>>] = route[<<r.app, x>>]
        BY <1>2, <1>3, <1>4, <1>6 DEF Slots
      <3> QED
        BY <1>2, <1>4, <3>1 DEF PrefixMet, MetFrozen
    <2>2. \A x \in Prefixes \ r.prefixes : x \in d \ {s} \/ PrefixSwept(<<r.app, x>>)'
      <3> TAKE x \in Prefixes \ r.prefixes
      <3>1. CASE x = s
        BY <1>5, <3>1 DEF PrefixSwept, MetFrozen
      <3>2. CASE x # s
        BY <1>2, <1>4, <1>6, <3>2 DEF PrefixSwept, MetFrozen, Slots
      <3> QED
        BY <3>1, <3>2
    <2> QED
      BY <1>2, <1>4, <2>1, <2>2 DEF Exposes, Within, At, SweptPCs, ExposedPCs, SuffixedPCs,
         ConfiguredPCs, EnsurePCs
  <1>8. ConfChosen(p)'
    BY <1>0, <1>2, ConfStays DEF Stage
  <1>9. Attaches(p)'
    BY <1>2 DEF Attaches, Within, At, ConfiguredPCs, EnsurePCs, SuffixedPCs,
           ExposedPCs, SweptPCs, AttachedPCs, CNamePCs
  <1>10. Removes(p)'
    BY <1>2, EnsureIsNoRemove DEF EnsurePCs
  <1>11. ASSUME Undisturbed' PROVE Tracks(p)'
    <2>1. Tracks(p)
      BY <1>2, <1>11, StaysUndisturbed DEF Stage
    <2>2. \A a \in Apps : LabelledCNameRoutes(a) \subseteq ExistingCNames(a)
      BY <1>2, <2>1 DEF Tracks, UntrackedPCs, CNamePCs, AttachedPCs, SweptPCs, ExposedPCs,
             SuffixedPCs, ConfiguredPCs, EnsurePCs, RemovePCs
    <2>3. \A x \in CNames \cup {Default} : \A a \in Apps : route'[<<a, x>>] = route[<<a, x>>]
      <3> TAKE x \in CNames \cup {Default}
      <3> TAKE a \in Apps
      <3>1. x \in Slots /\ x # s
        BY <1>2, <1>3, <1>4, NamesAssumption DEF Slots
      <3> QED
        BY <1>3, <1>5, <3>1, Keys
    <2>4. \A a \in Apps : LabelledCNameRoutes(a)' \subseteq ExistingCNames(a)'
      BY <2>2, <2>3 DEF LabelledCNameRoutes, ExistingCNames
    <2> QED
      BY <1>2, <2>4, TrackedThere DEF TrackedPCs
  <1> QED
    BY <1>7, <1>8, <1>9, <1>10, <1>11 DEF Stage

\* Ensure goes on to the CNames, or ends without any.
LEMMA AnyCNamesStage ==
    ASSUME IInv, NEW p \in Handlers, Stage(p), AnyCNames(p)
    PROVE  Stage(p)'
  <1>0. PICK r : r = handler[p].req
    OBVIOUS
  <1>1. handler[p].pc = "anycnames" /\ UNCHANGED <<route, listener, conf, faults, events, thawed>>
    BY DEF AnyCNames, At, Local, cluster, routes, listeners, bounds
  <1>2. /\ \A s \in r.prefixes : PrefixMet(r, <<r.app, s>>)
        /\ \A s \in Prefixes \ r.prefixes : PrefixSwept(<<r.app, s>>)
    BY <1>0, <1>1 DEF Stage, Exposes, Within, SweptPCs, ExposedPCs, SuffixedPCs, ConfiguredPCs,
       EnsurePCs
  <1>3. CASE Goto(p, "cnames")
    <2>1. /\ handler'[p].pc = "cnames" /\ handler'[p].req = r
          /\ \A q \in Handlers : q # p => handler'[q] = handler[q]
      BY <1>0, <1>3, Gone
    <2>2. Exposes(p)'
      BY <1>1, <1>2, <2>1 DEF Exposes, Within, At, PrefixMet, PrefixSwept, MetFrozen
    <2> QED
      BY <1>0, <1>1, <2>1, <2>2, OnwardStage
  <1>4. CASE r.cnames = {} /\ ExistingCNames(r.app) = {} /\ End(p, "ok")
    <2>1. /\ handler'[p].pc = "ok" /\ handler'[p].req = r
          /\ \A q \in Handlers : q # p => handler'[q] = handler[q]
      BY <1>0, <1>4, Ended
    <2>2. ConfChosen(p)' /\ Exposes(p)' /\ Attaches(p)' /\ Removes(p)'
      BY <1>0, <1>1, <1>4, <2>1, EnsureEnds DEF Stage
    <2>3. ASSUME Undisturbed' PROVE Tracks(p)'
      <3>1. Tracks(p)
        BY <1>1, <2>1, <2>3, StaysUndisturbed DEF Stage
      <3>2. \A a \in Apps : LabelledCNameRoutes(a) \subseteq ExistingCNames(a)
        BY <1>1, <3>1 DEF Tracks, UntrackedPCs, CNamePCs, AttachedPCs, SweptPCs, ExposedPCs,
             SuffixedPCs, ConfiguredPCs, EnsurePCs, RemovePCs
      <3>3. \A a \in Apps : LabelledCNameRoutes(a)' \subseteq ExistingCNames(a)'
        BY <1>1, <3>2 DEF LabelledCNameRoutes, ExistingCNames
      <3>4. r.app \in Apps
        BY <1>0, <1>1, EnsureAsks DEF EnsurePCs
      <3>5. LabelledCNameRoutes(r.app)' = {}
        BY <1>1, <1>4, <3>2, <3>4 DEF LabelledCNameRoutes
      <3>6. handler'[p].pc \notin RoutePuts \cup CNamePCs \cup {"cnamedrop", "listenerput"}
        BY <2>1 DEF RoutePuts, CNamePCs
      <3> QED
        BY <2>1, <3>3, <3>5, <3>6 DEF Tracks, At
    <2> QED
      BY <2>2, <2>3 DEF Stage
  <1> QED
    BY <1>0, <1>3, <1>4 DEF AnyCNames, App

-----------------------------------------------------------------------------
(* Ensure: the CNames.                                                     *)

\* The routes of the prefixes keep what Ensure is about while the CNames are
\* worked on.
SamePrefixes(a) ==
    \A s \in Prefixes :
        LET o == route[<<a, s>>]
            n == route'[<<a, s>>]
        IN  /\ Exists(n) <=> Exists(o)
            /\ Exists(o) => n.frozen = o.frozen /\ n.parent = o.parent /\ n.suffix = o.suffix

LEMMA ExposesOn ==
    ASSUME NEW p \in Handlers, Exposes(p), handler[p].pc \in SweptPCs,
           NEW r, r = handler[p].req, handler'[p].req = r, r.prefixes \subseteq Prefixes,
           handler'[p].pc \in SweptPCs \cup {"ok"}, UNCHANGED <<events, thawed>>,
           SamePrefixes(r.app)
    PROVE  Exposes(p)'
  <1> USE DEF SweptPCs, ExposedPCs, SuffixedPCs, ConfiguredPCs, EnsurePCs
  <1>1. /\ \A s \in r.prefixes : PrefixMet(r, <<r.app, s>>)
        /\ \A s \in Prefixes \ r.prefixes : PrefixSwept(<<r.app, s>>)
    BY DEF Exposes, Within
  <1>2. \A s \in r.prefixes : PrefixMet(r, <<r.app, s>>)'
    BY <1>1 DEF SamePrefixes, PrefixMet, MetFrozen
  <1>3. \A s \in Prefixes \ r.prefixes : PrefixSwept(<<r.app, s>>)'
    BY <1>1 DEF SamePrefixes, PrefixSwept, MetFrozen
  <1> QED
    BY <1>2, <1>3 DEF Exposes, Within, At

\* Where the routes of the prefixes are not touched at all.
LEMMA PrefixesStay ==
    ASSUME NEW a \in Apps, \A s \in Prefixes : route'[<<a, s>>] = route[<<a, s>>]
    PROVE  SamePrefixes(a)
  BY DEF SamePrefixes

\* What is to be shown of the routes of CNames while Ensure works on them.
LEMMA CNamesTracked ==
    ASSUME NEW p \in Handlers, NEW r, r = handler[p].req, handler'[p].req = r, r.app \in Apps,
           Tracks(p), \A k \in RouteKeys : k[1] # r.app => route'[k] = route[k],
           handler'[p].pc \in CNamePCs \cup AttachedPCs,
           handler'[p].pc \in {"crouteput", "annotput"} =>
                handler'[p].seen = route'[<<r.app, handler'[p].at>>],
           handler'[p].pc = "listenerput" =>
                handler'[p].seen = listener'[<<r.app, handler'[p].at>>],
           handler'[p].pc \in CNamePCs \cup {"cnamedrop"} =>
                LabelledCNameRoutes(r.app)' \subseteq r.cnames \cup handler'[p].doomed,
           handler'[p].pc \in DetachedPCs => LabelledCNameRoutes(r.app)' \subseteq r.cnames
    PROVE  Tracks(p)'
  <1>1. \A a \in Apps : a # r.app => LabelledCNameRoutes(a)' \subseteq ExistingCNames(a)'
    BY StaysTracked DEF Tracks
  <1>2. /\ handler'[p].pc \in UntrackedPCs /\ handler'[p].pc \notin {"routeput", "ok"}
    BY DEF UntrackedPCs, CNamePCs, AttachedPCs, SweptPCs, ExposedPCs, SuffixedPCs,
           ConfiguredPCs, EnsurePCs
  <1>3. handler'[p].pc \in RoutePuts => handler'[p].pc \in {"crouteput", "annotput"}
    BY <1>2 DEF RoutePuts
  <1> QED
    BY <1>1, <1>2, <1>3 DEF Tracks, At, KeyOf, Within

LEMMA ReadCNamesStage ==
    ASSUME IInv, NEW p \in Handlers, Stage(p), ReadCNames(p)
    PROVE  Stage(p)'
  <1>0. PICK r, c : r = handler[p].req /\ c = conf[Service(p)]
    OBVIOUS
  <1> DEFINE todo == EnsuredCNames(r)
             parent == IF r.httpOnly THEN GatewayOf(c) ELSE OwnListener
  <1>1. /\ handler[p].pc = "cnames" /\ UNCHANGED <<route, listener, conf, events, thawed>>
        /\ faults' \in {faults, faults + 1} /\ handler[p] \in Handler
    BY DEF ReadCNames, At, cluster, routes, listeners, IInv, StateOK
  <1>2. r.app \in Apps /\ r.prefixes \subseteq Prefixes /\ r.op = "Ensure"
    BY <1>0, <1>1, EnsureAsks DEF EnsurePCs
  <1>3. faults \in Nat
    BY DEF IInv, StateOK
  <1>4. PICK existing :
            /\ faults' = faults => existing = ExistingCNames(r.app)
            /\ existing \subseteq CNames
            /\ handler' = [handler EXCEPT ![p] =
                    [handler[p] EXCEPT !.pc = "cname", !.todo = todo,
                                       !.doomed = CNamesToRemove(existing, r.cnames),
                                       !.parent = parent]]
    <2>1. ExistingCNames(r.app) \subseteq CNames
      <3>1. route[<<r.app, Default>>] \in Route \cup {Nil}
        BY <1>2, NamesAssumption DEF IInv, StateOK, RouteKeys, Slots
      <3> QED
        BY <3>1 DEF ExistingCNames, Route, Exists
    <2>2. faults' = faults + 1 => faults' # faults
      BY <1>3
    <2> QED
      BY <1>0, <2>1, <2>2 DEF ReadCNames
  <1> DEFINE doomed == CNamesToRemove(existing, r.cnames)
             h == [handler[p] EXCEPT !.pc = "cname", !.todo = todo,
                                     !.doomed = doomed, !.parent = parent]
  <1> HIDE DEF todo, parent
  <1>5. /\ h.pc = "cname" /\ h.req = r /\ h.todo = todo /\ h.parent = parent
        /\ h.doomed = existing \ r.cnames
    BY <1>0, <1>1 DEF Handler, CNamesToRemove
  <1>6. handler' = [handler EXCEPT ![p] = h]
    BY <1>4
  <1> HIDE DEF h, doomed
  <1>7. handler'[p] = h /\ \A q \in Handlers : q # p => handler'[q] = handler[q]
    BY <1>6, Moved
  <1>8. ConfChosen(p)'
    BY <1>0, <1>1, <1>5, <1>7, ConfStays DEF Stage, SuffixedPCs, ConfiguredPCs, EnsurePCs
  <1>9. Exposes(p)'
    BY <1>0, <1>1, <1>2, <1>5, <1>7, ExposesOn, PrefixesStay
    DEF Stage, SweptPCs, ExposedPCs, SuffixedPCs, ConfiguredPCs, EnsurePCs
  <1>10. Attaches(p)'
    <2>1. Wanted(r, GatewayOf(c))
      BY <1>0, <1>1 DEF Stage, ConfChosen, ConfiguredPCs, EnsurePCs
    <2>2. IF r.httpOnly THEN Wanted(r, parent) ELSE parent = OwnListener
      BY <2>1 DEF parent
    <2> QED
      BY <1>4, <1>5, <1>7, <2>2 DEF Attaches, Within, At, CNamePCs, AttachedPCs, SweptPCs,
         ExposedPCs, SuffixedPCs, ConfiguredPCs, EnsurePCs, todo
  <1>11. Removes(p)'
    BY <1>5, <1>7, EnsureIsNoRemove DEF EnsurePCs
  <1>12. ASSUME Undisturbed' PROVE Tracks(p)'
    <2>1. Tracks(p) /\ faults' = faults
      BY <1>1, <1>5, <1>7, <1>12, StaysUndisturbed DEF Stage
    <2>2. LabelledCNameRoutes(r.app) \subseteq existing
      BY <1>1, <1>2, <1>4, <2>1 DEF Tracks, UntrackedPCs, CNamePCs, AttachedPCs, SweptPCs,
         ExposedPCs, SuffixedPCs, ConfiguredPCs, EnsurePCs, RemovePCs
    <2>3. LabelledCNameRoutes(r.app)' \subseteq r.cnames \cup handler'[p].doomed
      BY <1>1, <1>5, <1>7, <2>2 DEF LabelledCNameRoutes
    <2>4. handler'[p].pc \in CNamePCs /\ handler'[p].pc \notin DetachedPCs
      BY <1>5, <1>7 DEF CNamePCs, DetachedPCs, AttachedPCs
    <2> QED
      BY <1>0, <1>1, <1>2, <1>5, <1>7, <2>1, <2>3, <2>4, CNamesTracked
  <1> QED
    BY <1>8, <1>9, <1>10, <1>11, <1>12 DEF Stage

\* A step among those that work on the CNames, or the last of Ensure.
LEMMA CNamesOn ==
    ASSUME NEW p \in Handlers, Stage(p), handler[p].pc \in CNamePCs \cup AttachedPCs,
           NEW r, r = handler[p].req, handler'[p].req = r,
           r.prefixes \subseteq Prefixes, r.op = "Ensure",
           handler'[p].pc \in CNamePCs \cup AttachedPCs \cup {"ok"},
           UNCHANGED <<conf, events, thawed>>, SamePrefixes(r.app)
    PROVE  ConfChosen(p)' /\ Exposes(p)' /\ Removes(p)'
  <1>1. handler[p].pc \in SweptPCs /\ handler'[p].pc \in SweptPCs \cup {"ok"}
    BY DEF AttachedPCs, CNamePCs, SweptPCs, ExposedPCs, SuffixedPCs, ConfiguredPCs, EnsurePCs
  <1>2. ConfChosen(p)'
    BY <1>1, ConfStays DEF Stage, SweptPCs, ExposedPCs, SuffixedPCs, ConfiguredPCs, EnsurePCs
  <1>3. Exposes(p)'
    BY <1>1, ExposesOn DEF Stage
  <1>4. Removes(p)'
    BY <1>1, EnsureIsNoRemove DEF SweptPCs, ExposedPCs, SuffixedPCs, ConfiguredPCs, EnsurePCs
  <1> QED
    BY <1>2, <1>3, <1>4

\* On from the loop over the CNames, and from the others after it.
LEMMA CNamesDoneStage ==
    ASSUME IInv, NEW p \in Handlers, Stage(p),
           UNCHANGED <<route, listener, conf, faults, events, thawed>>,
           \/ handler[p].pc = "cname" /\ handler[p].todo = {} /\ Goto(p, "cnamedrop")
           \/ handler[p].pc = "cnamedrop" /\ handler[p].doomed = {} /\ Goto(p, "orphans")
           \/ handler[p].pc = "orphandrop" /\ Goto(p, "annotate")
    PROVE  Stage(p)'
  <1>0. PICK r : r = handler[p].req
    OBVIOUS
  <1>1. /\ handler'[p].req = r /\ handler'[p].doomed = handler[p].doomed
        /\ \A q \in Handlers : q # p => handler'[q] = handler[q]
        /\ \/ /\ handler[p].pc = "cname" /\ handler[p].todo = {}
              /\ handler'[p].pc = "cnamedrop"
           \/ /\ handler[p].pc = "cnamedrop" /\ handler[p].doomed = {}
              /\ handler'[p].pc = "orphans"
           \/ handler[p].pc = "orphandrop" /\ handler'[p].pc = "annotate"
    BY <1>0, Gone
  <1>2. r.app \in Apps /\ r.prefixes \subseteq Prefixes /\ r.op = "Ensure"
    BY <1>0, <1>1, EnsureAsks DEF EnsurePCs
  <1> USE DEF CNamePCs, AttachedPCs, SweptPCs, ExposedPCs, SuffixedPCs, ConfiguredPCs, EnsurePCs
  <1>3. ConfChosen(p)' /\ Exposes(p)' /\ Removes(p)'
    BY <1>0, <1>1, <1>2, CNamesOn, PrefixesStay
  <1>4. \A c \in EnsuredCNames(r) : CNameMet(r, <<r.app, c>>)
    BY <1>0, <1>1 DEF Stage, Attaches, Within
  <1>5. handler'[p].pc = "cnamedrop" => handler'[p].doomed \subseteq CNames \ r.cnames
    BY <1>0, <1>1 DEF Stage, Attaches
  <1>6. Attaches(p)'
    BY <1>1, <1>4, <1>5 DEF Attaches, Within, At, CNameMet, MetFrozen
  <1>7. ASSUME Undisturbed' PROVE Tracks(p)'
    <2>1. Tracks(p)
      BY <1>1, <1>7, StaysUndisturbed DEF Stage
    <2>2. /\ handler[p].pc \in {"cname", "cnamedrop"} =>
                LabelledCNameRoutes(r.app) \subseteq r.cnames \cup handler[p].doomed
          /\ handler[p].pc = "orphandrop" => LabelledCNameRoutes(r.app) \subseteq r.cnames
      BY <1>0, <1>1, <2>1 DEF Tracks, Within, DetachedPCs
    <2>3. LabelledCNameRoutes(r.app)' = LabelledCNameRoutes(r.app)
      BY DEF LabelledCNameRoutes
    <2>4. /\ handler'[p].pc = "cnamedrop" =>
                LabelledCNameRoutes(r.app)' \subseteq r.cnames \cup handler'[p].doomed
          /\ handler'[p].pc # "cnamedrop" => LabelledCNameRoutes(r.app)' \subseteq r.cnames
      BY <1>1, <2>2, <2>3
    <2> QED
      BY <1>0, <1>1, <1>2, <2>1, <2>4, CNamesTracked DEF DetachedPCs
  <1> QED
    BY <1>3, <1>6, <1>7 DEF Stage

\* Remove goes on from a loop, and ends after the last.
LEMMA RemoveOnStage ==
    ASSUME IInv, NEW p \in Handlers, Stage(p),
           UNCHANGED <<route, listener, conf, faults, events, thawed>>, handler[p].doomed = {},
           \/ handler[p].pc = "removing" /\ Goto(p, "removemain")
           \/ handler[p].pc = "removingcnames" /\ Goto(p, "removelisteners")
           \/ handler[p].pc = "removinglisteners" /\ End(p, "ok")
    PROVE  Stage(p)'
  <1>0. PICK r : r = handler[p].req
    OBVIOUS
  <1>1. /\ handler'[p].req = r
        /\ \A q \in Handlers : q # p => handler'[q] = handler[q]
        /\ \/ handler[p].pc = "removing" /\ handler'[p].pc = "removemain"
           \/ handler[p].pc = "removingcnames" /\ handler'[p].pc = "removelisteners"
           \/ handler[p].pc = "removinglisteners" /\ handler'[p].pc = "ok"
    BY <1>0, Gone, Ended
  <1>2. r.op = "Remove" /\ r.app \in Apps
    BY <1>0, <1>1, RemoveAsks DEF RemovePCs
  <1>3. ConfChosen(p)' /\ Exposes(p)' /\ Attaches(p)'
    BY <1>1, <1>2, RemoveIsNoEnsure DEF RemovePCs
  <1>4. /\ LabelledRoutes(r.app) = {}
        /\ handler[p].pc # "removing" => LabelledCNameRoutes(r.app) = {}
        /\ handler[p].pc = "removinglisteners" => LabelledListenerSets(r.app) = {}
    BY <1>0, <1>1 DEF Stage, Removes, Within, At, MainGonePCs, CNamesGonePCs, RemovePCs
  <1>5. /\ LabelledRoutes(r.app)' = LabelledRoutes(r.app)
        /\ LabelledCNameRoutes(r.app)' = LabelledCNameRoutes(r.app)
        /\ LabelledListenerSets(r.app)' = LabelledListenerSets(r.app)
    BY DEF LabelledRoutes, LabelledCNameRoutes, LabelledListenerSets
  <1>6. Removes(p)'
    BY <1>1, <1>4, <1>5 DEF Removes, Within, At, MainGonePCs, CNamesGonePCs, RemovePCs
  <1>7. ASSUME Undisturbed' PROVE Tracks(p)'
    <2>1. Tracks(p)
      BY <1>1, <1>7, StaysUndisturbed DEF Stage
    <2>2. \A a \in Apps : a # r.app => LabelledCNameRoutes(a) \subseteq ExistingCNames(a)
      BY <1>0, <2>1 DEF Tracks
    <2>3. \A a \in Apps : a # r.app => LabelledCNameRoutes(a)' \subseteq ExistingCNames(a)'
      BY <2>2 DEF LabelledCNameRoutes, ExistingCNames
    <2>4. \/ handler'[p].pc \in UntrackedPCs
          \/ LabelledCNameRoutes(r.app)' \subseteq ExistingCNames(r.app)'
      BY <1>1, <1>4, <1>5 DEF UntrackedPCs, RemovePCs
    <2>5. handler'[p].pc \notin RoutePuts \cup CNamePCs \cup {"cnamedrop", "listenerput"}
      BY <1>1 DEF RoutePuts, CNamePCs
    <2>6. ~Within(p, "Ensure", DetachedPCs)'
      BY <1>1, <1>2 DEF Within, At, DetachedPCs, AttachedPCs, SweptPCs, ExposedPCs, SuffixedPCs,
                  ConfiguredPCs, EnsurePCs
    <2> QED
      BY <1>1, <2>3, <2>4, <2>5, <2>6 DEF Tracks, At
  <1> QED
    BY <1>3, <1>6, <1>7 DEF Stage

LEMMA LoopDoneStage ==
    ASSUME IInv, NEW p \in Handlers, Stage(p), LoopDone(p)
    PROVE  Stage(p)'
  <1>0. PICK r : r = handler[p].req
    OBVIOUS
  <1>1. UNCHANGED <<route, listener, conf, faults, events, thawed>>
    BY DEF LoopDone, Local, cluster, routes, listeners, bounds
  <1>2. \/ handler[p].pc = "routes" /\ handler[p].todo = {} /\ Goto(p, "list")
        \/ handler[p].pc = "sweep" /\ handler[p].doomed = {} /\ Goto(p, "anycnames")
        \/ handler[p].pc = "cname" /\ handler[p].todo = {} /\ Goto(p, "cnamedrop")
        \/ handler[p].pc = "cnamedrop" /\ handler[p].doomed = {} /\ Goto(p, "orphans")
        \/ handler[p].pc = "orphandrop" /\ Goto(p, "annotate")
        \/ handler[p].pc = "removing" /\ handler[p].doomed = {} /\ Goto(p, "removemain")
        \/ /\ handler[p].pc = "removingcnames" /\ handler[p].doomed = {}
           /\ Goto(p, "removelisteners")
        \/ handler[p].pc = "removinglisteners" /\ handler[p].doomed = {} /\ End(p, "ok")
    BY DEF LoopDone, AfterLoop
  <1>3. CASE handler[p].pc = "routes" /\ handler[p].todo = {} /\ Goto(p, "list")
    <2>1. /\ handler'[p].pc = "list" /\ handler'[p].req = r
          /\ \A q \in Handlers : q # p => handler'[q] = handler[q]
      BY <1>0, <1>3, Gone
    <2>2. \A s \in r.prefixes : PrefixMet(r, <<r.app, s>>)
      BY <1>0, <1>3 DEF Stage, Exposes
    <2>3. Exposes(p)'
      BY <1>1, <2>1, <2>2 DEF Exposes, Within, At, PrefixMet, MetFrozen, SweptPCs, ExposedPCs
    <2> QED
      BY <1>0, <1>1, <1>3, <2>1, <2>3, OnwardStage
  <1>4. CASE handler[p].pc = "sweep" /\ handler[p].doomed = {} /\ Goto(p, "anycnames")
    <2>1. /\ handler'[p].pc = "anycnames" /\ handler'[p].req = r
          /\ \A q \in Handlers : q # p => handler'[q] = handler[q]
      BY <1>0, <1>4, Gone
    <2>2. /\ \A s \in r.prefixes : PrefixMet(r, <<r.app, s>>)
          /\ \A s \in Prefixes \ r.prefixes : PrefixSwept(<<r.app, s>>)
      BY <1>0, <1>4 DEF Stage, Exposes, Within, At, ExposedPCs, SuffixedPCs, ConfiguredPCs,
         EnsurePCs
    <2>3. Exposes(p)'
      BY <1>1, <2>1, <2>2 DEF Exposes, Within, At, PrefixMet, PrefixSwept, MetFrozen
    <2> QED
      BY <1>0, <1>1, <1>4, <2>1, <2>3, OnwardStage
  <1> QED
    BY <1>1, <1>2, <1>3, <1>4, CNamesDoneStage, RemoveOnStage

LEMMA ListenerGetStage ==
    ASSUME IInv, NEW p \in Handlers, Stage(p), ListenerGet(p)
    PROVE  Stage(p)'
  <1>0. PICK r : r = handler[p].req
    OBVIOUS
  <1> USE DEF CNamePCs
  <1>1. /\ handler[p].pc = "cname" /\ ~r.httpOnly
        /\ UNCHANGED <<route, listener, conf, faults, events, thawed>>
    BY <1>0 DEF ListenerGet, At, Local, cluster, routes, listeners, bounds
  <1>2. PICK c \in handler[p].todo : handler' = [handler EXCEPT ![p] =
            [handler[p] EXCEPT !.pc = "listenerput", !.at = c, !.seen = listener[<<r.app, c>>],
                               !.parent = GatewayOf(conf[Service(p)])]]
    BY <1>0 DEF ListenerGet, App
  <1>3. /\ handler'[p].pc = "listenerput" /\ handler'[p].at = c
        /\ handler'[p].seen = listener[<<r.app, c>>]
        /\ handler'[p].req = r /\ handler'[p].todo = handler[p].todo
        /\ handler'[p].parent = GatewayOf(conf[Service(p)])
        /\ handler'[p].doomed = handler[p].doomed
        /\ \A q \in Handlers : q # p => handler'[q] = handler[q]
    <2> DEFINE o == listener[<<r.app, c>>]
               g == GatewayOf(conf[Service(p)])
               h == [handler[p] EXCEPT !.pc = "listenerput", !.at = c, !.seen = o, !.parent = g]
    <2>1. handler[p] \in Handler /\ handler' = [handler EXCEPT ![p] = h]
      BY <1>2 DEF IInv, StateOK
    <2> HIDE DEF o, g
    <2>2. /\ h.pc = "listenerput" /\ h.at = c /\ h.seen = o /\ h.parent = g
          /\ h.req = handler[p].req /\ h.todo = handler[p].todo
          /\ h.doomed = handler[p].doomed
      BY <2>1 DEF Handler
    <2> HIDE DEF h
    <2> QED
      BY <1>0, <2>1, <2>2, Moved DEF o, g
  <1>4. r.app \in Apps /\ r.prefixes \subseteq Prefixes /\ r.op = "Ensure"
    BY <1>0, <1>1, EnsureAsks DEF EnsurePCs
  <1>5. ConfChosen(p)' /\ Exposes(p)' /\ Removes(p)'
    BY <1>0, <1>1, <1>3, <1>4, CNamesOn, PrefixesStay
  <1>6. /\ handler[p].todo \subseteq EnsuredCNames(r)
        /\ \A x \in EnsuredCNames(r) \ handler[p].todo : CNameMet(r, <<r.app, x>>)
        /\ handler[p].doomed \subseteq CNames \ r.cnames
        /\ Wanted(r, GatewayOf(conf[Service(p)]))
    BY <1>0, <1>1 DEF Stage, Attaches, ConfChosen, ConfiguredPCs, EnsurePCs
  <1>7. Attaches(p)'
    BY <1>1, <1>2, <1>3, <1>6 DEF Attaches, Within, At, CNameMet, MetFrozen, AttachedPCs, SweptPCs,
       ExposedPCs, SuffixedPCs, ConfiguredPCs, EnsurePCs
  <1>8. ASSUME Undisturbed' PROVE Tracks(p)'
    <2>1. Tracks(p)
      BY <1>1, <1>3, <1>8, StaysUndisturbed DEF Stage
    <2>2. LabelledCNameRoutes(r.app)' \subseteq r.cnames \cup handler'[p].doomed
      BY <1>0, <1>1, <1>3, <2>1 DEF Tracks, LabelledCNameRoutes
    <2> QED
      BY <1>0, <1>1, <1>3, <1>4, <2>1, <2>2, CNamesTracked DEF DetachedPCs, AttachedPCs
  <1> QED
    BY <1>5, <1>7, <1>8 DEF Stage

\* What a handler read is accepted as long as it is what is there.
LEMMA CurrentIsAccepted ==
    ASSUME NEW o, NEW seen, seen = o
    PROVE  Accepted(o, seen)
  BY DEF Accepted, Accepts, SentVersion

LEMMA ListenerPutStage ==
    ASSUME IInv, NEW p \in Handlers, Stage(p), ListenerPut(p)
    PROVE  Stage(p)'
  <1>0. PICK r, at, k, g : /\ r = handler[p].req /\ at = handler[p].at /\ k = Key(p)
                           /\ g = handler[p].parent
    OBVIOUS
  <1> USE DEF CNamePCs
  <1>1. handler[p].pc = "listenerput" /\ UNCHANGED <<conf, faults, events, thawed>>
    BY DEF ListenerPut, Upsert, At, bounds
  <1>2. /\ r.app \in Apps /\ r.prefixes \subseteq Prefixes /\ r.op = "Ensure"
        /\ r.cnames \subseteq CNames /\ EnsuredCNames(r) \subseteq r.cnames
    BY <1>0, <1>1, EnsureAsks DEF EnsurePCs
  <1>3. /\ handler[p].todo \subseteq EnsuredCNames(r) /\ Wanted(r, g)
        /\ \A x \in EnsuredCNames(r) \ handler[p].todo : CNameMet(r, <<r.app, x>>)
        /\ handler[p].doomed \subseteq CNames \ r.cnames
        /\ ~r.httpOnly /\ at \in EnsuredCNames(r)
    BY <1>0, <1>1 DEF Stage, Attaches
  <1>4. k = <<r.app, at>> /\ at \in CNames /\ k \in ListenerKeys
    BY <1>0, <1>2, <1>3 DEF Key, ListenerKeys
  <1>5. Wanted(r, g) /\ g \in GatewayParent
    BY <1>0, <1>1, <1>3 DEF IInv, Staged, StageOK
  <1>6. CASE /\ WriteListener(k, [rv |-> 0, parent |-> g])
             /\ handler' = [handler EXCEPT ![p] =
                    [@ EXCEPT !.pc = "croute", !.seen = Nil, !.parent = OwnListener]]
    <2> DEFINE h == [handler[p] EXCEPT !.pc = "croute", !.seen = Nil, !.parent = OwnListener]
    <2>1. handler[p] \in Handler /\ handler' = [handler EXCEPT ![p] = h]
      BY <1>6 DEF IInv, StateOK
    <2>2. /\ h.pc = "croute" /\ h.req = r /\ h.at = at /\ h.todo = handler[p].todo
          /\ h.parent = OwnListener /\ h.doomed = handler[p].doomed
      BY <1>0, <2>1 DEF Handler
    <2> HIDE DEF h
    <2>3. handler'[p] = h /\ \A q \in Handlers : q # p => handler'[q] = handler[q]
      BY <2>1, Moved
    <2>4. /\ Exists(listener'[k]) /\ listener'[k].parent = g
          /\ \A y \in ListenerKeys : y # k => listener'[y] = listener[y]
          /\ route' = route
      BY <1>4, <1>5, <1>6, ListenerPutLeaves
    <2>5. ConfChosen(p)' /\ Exposes(p)' /\ Removes(p)'
      BY <1>0, <1>1, <1>2, <2>2, <2>3, <2>4, CNamesOn, PrefixesStay
    <2>6. \A x \in EnsuredCNames(r) \ h.todo :
            CNameMet(r, <<r.app, x>>)'
      <3> TAKE x \in EnsuredCNames(r) \ h.todo
      <3>1. CNameMet(r, <<r.app, x>>)
        BY <1>3, <2>2
      <3>2. CASE x = at
        BY <1>1, <1>4, <1>5, <2>4, <3>1, <3>2 DEF CNameMet, MetFrozen
      <3>3. CASE x # at
        <4>1. listener'[<<r.app, x>>] = listener[<<r.app, x>>]
          BY <1>2, <1>4, <2>4, <3>3, Keys
        <4> QED
          BY <1>1, <2>4, <3>1, <4>1 DEF CNameMet, MetFrozen
      <3> QED
        BY <3>2, <3>3
    <2>7. Exists(listener'[<<r.app, at>>]) /\ Wanted(r, listener'[<<r.app, at>>].parent)
      BY <1>4, <1>5, <2>4
    <2>8. Attaches(p)'
      BY <1>3, <2>2, <2>3, <2>6, <2>7 DEF Attaches, Within, At, AttachedPCs, SweptPCs,
         ExposedPCs, SuffixedPCs, ConfiguredPCs, EnsurePCs
    <2>9. ASSUME Undisturbed' PROVE Tracks(p)'
      <3>1. Tracks(p)
        BY <1>1, <2>2, <2>3, <2>9, StaysUndisturbed DEF Stage
      <3>2. LabelledCNameRoutes(r.app)' \subseteq r.cnames \cup handler'[p].doomed
        BY <1>0, <1>1, <2>2, <2>3, <2>4, <3>1 DEF Tracks, LabelledCNameRoutes
      <3> QED
        BY <1>0, <1>2, <2>2, <2>3, <2>4, <3>1, <3>2, CNamesTracked DEF DetachedPCs, AttachedPCs
    <2> QED
      BY <2>5, <2>8, <2>9 DEF Stage
  <1>7. CASE ~Accepted(listener[k], handler[p].seen) /\ End(p, "error")
    <2>1. /\ handler'[p].pc = "error"
          /\ \A q \in Handlers : q # p => handler'[q] = handler[q]
      BY <1>7, Ended
    <2>2. ConfChosen(p)' /\ Exposes(p)' /\ Attaches(p)' /\ Removes(p)'
      BY <2>1, RemoveIsNoEnsure, EnsureIsNoRemove
    <2>3. ~Undisturbed'
      <3> SUFFICES ASSUME Undisturbed' PROVE FALSE
        OBVIOUS
      <3>1. Tracks(p)
        BY <1>1, <2>1, StaysUndisturbed DEF Stage
      <3>2. handler[p].seen = listener[k]
        BY <1>0, <1>1, <3>1 DEF Tracks, At, KeyOf, Key
      <3> QED
        BY <1>7, <3>2, CurrentIsAccepted
    <2> QED
      BY <2>2, <2>3 DEF Stage
  <1> QED
    BY <1>0, <1>6, <1>7 DEF ListenerPut, Upsert

LEMMA CNameRouteGetStage ==
    ASSUME IInv, NEW p \in Handlers, Stage(p), CNameRouteGet(p)
    PROVE  Stage(p)'
  <1>0. PICK r, todo : r = handler[p].req /\ todo = handler[p].todo
    OBVIOUS
  <1> USE DEF CNamePCs
  <1>1. /\ handler[p].pc \in {"cname", "croute"}
        /\ UNCHANGED <<route, listener, conf, faults, events, thawed>>
    BY DEF CNameRouteGet, At, Local, cluster, routes, listeners, bounds
  <1>2. PICK c \in CNames :
            /\ \/ handler[p].pc = "croute" /\ c = handler[p].at
               \/ handler[p].pc = "cname" /\ r.httpOnly /\ c \in todo
            /\ \/ /\ IsFrozenHTTPRoute(route[<<r.app, c>>])
                  /\ handler' = [handler EXCEPT ![p] =
                        [@ EXCEPT !.pc = "cname", !.at = Nil, !.todo = handler[p].todo \ {c}]]
               \/ Gets(p, "crouteput", c, route[<<r.app, c>>])
    BY <1>0 DEF CNameRouteGet, App, Gets, At
  <1>3. r.app \in Apps /\ r.prefixes \subseteq Prefixes /\ r.op = "Ensure"
    BY <1>0, <1>1, EnsureAsks DEF EnsurePCs
  <1>4. /\ todo \subseteq EnsuredCNames(r)
        /\ IF r.httpOnly THEN Wanted(r, handler[p].parent) ELSE handler[p].parent = OwnListener
        /\ \A x \in EnsuredCNames(r) \ todo :
                CNameMet(r, <<r.app, x>>)
        /\ handler[p].doomed \subseteq CNames \ r.cnames
        /\ c \in EnsuredCNames(r)
        /\ ~r.httpOnly => Exists(listener[<<r.app, c>>]) /\ Wanted(r, listener[<<r.app, c>>].parent)
    BY <1>0, <1>1, <1>2 DEF Stage, Attaches
  <1>5. CASE /\ IsFrozenHTTPRoute(route[<<r.app, c>>])
             /\ handler' = [handler EXCEPT ![p] =
                    [@ EXCEPT !.pc = "cname", !.at = Nil, !.todo = handler[p].todo \ {c}]]
    <2> DEFINE left == handler[p].todo \ {c}
               h == [handler[p] EXCEPT !.pc = "cname", !.at = Nil, !.todo = left]
    <2>1. handler[p] \in Handler /\ handler' = [handler EXCEPT ![p] = h]
      BY <1>5 DEF IInv, StateOK
    <2>2. /\ h.pc = "cname" /\ h.req = r /\ h.todo = todo \ {c}
          /\ h.parent = handler[p].parent /\ h.doomed = handler[p].doomed
      BY <1>0, <2>1 DEF Handler
    <2> HIDE DEF h, left
    <2>3. handler'[p] = h /\ \A q \in Handlers : q # p => handler'[q] = handler[q]
      BY <2>1, Moved
    <2>4. ConfChosen(p)' /\ Exposes(p)' /\ Removes(p)'
      BY <1>0, <1>1, <1>3, <2>2, <2>3, CNamesOn, PrefixesStay
    <2>5. CNameMet(r, <<r.app, c>>)
      BY <1>4, <1>5 DEF CNameMet, MetFrozen, IsFrozenHTTPRoute
    <2>6. \A x \in EnsuredCNames(r) \ h.todo :
            CNameMet(r, <<r.app, x>>)
      BY <1>4, <2>2, <2>5
    <2>7. Attaches(p)'
      BY <1>1, <1>4, <2>2, <2>3, <2>6 DEF Attaches, Within, At, CNameMet, MetFrozen, AttachedPCs,
         SweptPCs, ExposedPCs, SuffixedPCs, ConfiguredPCs, EnsurePCs
    <2>8. ASSUME Undisturbed' PROVE Tracks(p)'
      <3>1. Tracks(p)
        BY <1>1, <2>2, <2>3, <2>8, StaysUndisturbed DEF Stage
      <3>2. LabelledCNameRoutes(r.app)' \subseteq r.cnames \cup handler'[p].doomed
        BY <1>0, <1>1, <2>2, <2>3, <3>1 DEF Tracks, LabelledCNameRoutes
      <3> QED
        BY <1>0, <1>1, <1>3, <2>2, <2>3, <3>1, <3>2, CNamesTracked DEF DetachedPCs, AttachedPCs
    <2> QED
      BY <2>4, <2>7, <2>8 DEF Stage
  <1>6. CASE Gets(p, "crouteput", c, route[<<r.app, c>>])
    <2>1. /\ handler'[p].pc = "crouteput" /\ handler'[p].at = c
          /\ handler'[p].seen = route[<<r.app, c>>]
          /\ handler'[p].req = r /\ handler'[p].todo = todo
          /\ handler'[p].parent = handler[p].parent /\ handler'[p].doomed = handler[p].doomed
          /\ \A q \in Handlers : q # p => handler'[q] = handler[q]
      BY <1>0, <1>6, Got
    <2>2. ConfChosen(p)' /\ Exposes(p)' /\ Removes(p)'
      BY <1>0, <1>1, <1>3, <2>1, CNamesOn, PrefixesStay
    <2>3. Attaches(p)'
      BY <1>1, <1>4, <2>1 DEF Attaches, Within, At, CNameMet, MetFrozen, AttachedPCs,
         SweptPCs, ExposedPCs, SuffixedPCs, ConfiguredPCs, EnsurePCs
    <2>4. ASSUME Undisturbed' PROVE Tracks(p)'
      <3>1. Tracks(p)
        BY <1>1, <2>1, <2>4, StaysUndisturbed DEF Stage
      <3>2. LabelledCNameRoutes(r.app)' \subseteq r.cnames \cup handler'[p].doomed
        BY <1>0, <1>1, <2>1, <3>1 DEF Tracks, LabelledCNameRoutes
      <3> QED
        BY <1>0, <1>1, <1>3, <2>1, <3>1, <3>2, CNamesTracked DEF DetachedPCs, AttachedPCs
    <2> QED
      BY <2>2, <2>3, <2>4 DEF Stage
  <1> QED
    BY <1>2, <1>5, <1>6

\* A write of the route of a CName, or its refusal.
LEMMA CNamePut ==
    ASSUME IInv, NEW p \in Handlers, CNameRoutePut(p)
    PROVE  LET h == handler[p]
               k == Key(p)
           IN
           /\ h.pc = "crouteput" /\ k \in RouteKeys
           /\ handler'[p].req = h.req /\ listener' = listener
           /\ \A q \in Handlers : q # p => handler'[q] = handler[q]
           /\ UNCHANGED <<conf, faults, events, thawed>>
           /\ \/ /\ ~Accepted(route[k], h.seen)
                 /\ handler'[p].pc = "error" /\ route' = route
              \/ /\ handler'[p].pc = "cname" /\ handler'[p].todo = h.todo \ {h.at}
                 /\ handler'[p].parent = h.parent /\ handler'[p].doomed = h.doomed
                 /\ Exists(route'[k]) /\ ~route'[k].frozen /\ route'[k].parent = h.parent
                 /\ \A x \in RouteKeys : x # k => route'[x] = route[x]
  <1> DEFINE k == Key(p)
             m == CNameRoute(handler[p].parent)
  <1>1. handler[p].pc = "crouteput" /\ handler[p].pc \in RoutePuts
    BY DEF CNameRoutePut, At, RoutePuts
  <1>2. k \in RouteKeys /\ m \in Route
    BY <1>1, PutType, CNameRouteType
  <1>3. ~m.frozen /\ m.parent = handler[p].parent
    BY DEF CNameRoute
  <1>4. /\ UNCHANGED <<conf, faults, events, thawed>>
        /\ \/ WriteRoute(k, m) /\ NextSlot(p, "cname")
           \/ ~Accepted(route[k], handler[p].seen) /\ End(p, "error") /\ UNCHANGED cluster
    BY DEF CNameRoutePut, Upsert, bounds
  <1> HIDE DEF m, k
  <1>5. CASE WriteRoute(k, m) /\ NextSlot(p, "cname")
    BY <1>1, <1>2, <1>3, <1>4, <1>5, RoutePutLeaves, SlotEnded DEF k
  <1>6. CASE ~Accepted(route[k], handler[p].seen) /\ End(p, "error") /\ UNCHANGED cluster
    BY <1>1, <1>2, <1>4, <1>6, Ended DEF cluster, routes, listeners, k
  <1> QED
    BY <1>4, <1>5, <1>6

LEMMA CNameRoutePutStage ==
    ASSUME IInv, NEW p \in Handlers, Stage(p), CNameRoutePut(p)
    PROVE  Stage(p)'
  <1>0. PICK r, at, k, todo : /\ r = handler[p].req /\ at = handler[p].at /\ k = Key(p)
                              /\ todo = handler[p].todo
    OBVIOUS
  <1> USE DEF CNamePCs
  <1>1. /\ handler[p].pc = "crouteput"
        /\ handler'[p].req = r /\ listener' = listener
        /\ \A q \in Handlers : q # p => handler'[q] = handler[q]
        /\ UNCHANGED <<conf, faults, events, thawed>>
        /\ handler'[p].pc \in {"error", "cname"}
    BY <1>0, CNamePut
  <1>2. /\ r.app \in Apps /\ r.prefixes \subseteq Prefixes /\ r.op = "Ensure"
        /\ r.cnames \subseteq CNames /\ EnsuredCNames(r) \subseteq r.cnames
    BY <1>0, <1>1, EnsureAsks DEF EnsurePCs
  <1>3. ASSUME Undisturbed' PROVE Tracks(p)
    BY <1>1, <1>3, StaysUndisturbed DEF Stage
  <1>4. CASE handler'[p].pc = "error"
    <2>1. ~Accepted(route[k], handler[p].seen)
      BY <1>0, <1>4, CNamePut
    <2>2. ConfChosen(p)' /\ Exposes(p)' /\ Attaches(p)' /\ Removes(p)'
      BY <1>4, RemoveIsNoEnsure, EnsureIsNoRemove
    <2>3. ~Undisturbed'
      <3> SUFFICES ASSUME Undisturbed' PROVE FALSE
        OBVIOUS
      <3>1. handler[p].seen = route[k]
        BY <1>0, <1>1, <1>3 DEF Tracks, KeyOf, Key, RoutePuts
      <3> QED
        BY <2>1, <3>1, CurrentIsAccepted
    <2> QED
      BY <2>2, <2>3 DEF Stage
  <1>5. CASE handler'[p].pc = "cname"
    <2>1. /\ k \in RouteKeys /\ handler'[p].todo = todo \ {at}
          /\ handler'[p].parent = handler[p].parent /\ handler'[p].doomed = handler[p].doomed
          /\ Exists(route'[k]) /\ ~route'[k].frozen /\ route'[k].parent = handler[p].parent
          /\ \A x \in RouteKeys : x # k => route'[x] = route[x]
      BY <1>0, <1>5, CNamePut
    <2>2. /\ todo \subseteq EnsuredCNames(r) /\ at \in EnsuredCNames(r)
          /\ IF r.httpOnly THEN Wanted(r, handler[p].parent) ELSE handler[p].parent = OwnListener
          /\ \A x \in EnsuredCNames(r) \ todo :
                  CNameMet(r, <<r.app, x>>)
          /\ handler[p].doomed \subseteq CNames \ r.cnames
          /\ ~r.httpOnly =>
                Exists(listener[<<r.app, at>>]) /\ Wanted(r, listener[<<r.app, at>>].parent)
      BY <1>0, <1>1 DEF Stage, Attaches
    <2>3. k = <<r.app, at>> /\ at \in CNames
      BY <1>0, <1>2, <2>2 DEF Key
    <2>4. \A s \in Slots : s # at => route'[<<r.app, s>>] = route[<<r.app, s>>]
      BY <1>2, <2>1, <2>3, Keys
    <2>5. SamePrefixes(r.app)
      BY <1>2, <2>3, <2>4, Keys, PrefixesStay DEF Slots
    <2>6. ConfChosen(p)' /\ Exposes(p)' /\ Removes(p)'
      BY <1>0, <1>1, <1>2, <1>5, <2>5, CNamesOn
    <2>7. \A x \in EnsuredCNames(r) \ (todo \ {at}) :
            CNameMet(r, <<r.app, x>>)'
      <3> TAKE x \in EnsuredCNames(r) \ (todo \ {at})
      <3>1. CASE x = at
        BY <1>1, <2>1, <2>2, <2>3, <3>1 DEF CNameMet, MetFrozen
      <3>2. CASE x # at
        <4>1. route'[<<r.app, x>>] = route[<<r.app, x>>]
          BY <1>2, <2>4, <3>2 DEF Slots
        <4> QED
          BY <1>1, <2>2, <3>2, <4>1 DEF CNameMet, MetFrozen
      <3> QED
        BY <3>1, <3>2
    <2>8. Attaches(p)'
      BY <1>1, <1>5, <2>1, <2>2, <2>7 DEF Attaches, Within, At, AttachedPCs, SweptPCs,
         ExposedPCs, SuffixedPCs, ConfiguredPCs, EnsurePCs
    <2>9. ASSUME Undisturbed' PROVE Tracks(p)'
      <3>1. LabelledCNameRoutes(r.app) \subseteq r.cnames \cup handler[p].doomed
        BY <1>0, <1>1, <1>3, <2>9 DEF Tracks
      <3>2. LabelledCNameRoutes(r.app)' \subseteq LabelledCNameRoutes(r.app) \cup {at}
        BY <2>4 DEF LabelledCNameRoutes, Slots
      <3>3. LabelledCNameRoutes(r.app)' \subseteq r.cnames \cup handler'[p].doomed
        BY <1>2, <2>1, <2>2, <3>1, <3>2
      <3>4. \A x \in RouteKeys : x[1] # r.app => route'[x] = route[x]
        BY <2>1, <2>3
      <3> QED
        BY <1>0, <1>1, <1>2, <1>3, <1>5, <2>9, <3>3, <3>4, CNamesTracked
        DEF DetachedPCs, AttachedPCs
    <2> QED
      BY <2>6, <2>8, <2>9 DEF Stage
  <1> QED
    BY <1>1, <1>4, <1>5

-----------------------------------------------------------------------------
(* Ensure: what is no longer wanted, and the annotation.                   *)

LEMMA DropCNameStage ==
    ASSUME IInv, NEW p \in Handlers, Stage(p), DropCName(p)
    PROVE  Stage(p)'
  <1>0. PICK r, d : r = handler[p].req /\ d = handler[p].doomed
    OBVIOUS
  <1> USE DEF CNamePCs, AttachedPCs, SweptPCs, ExposedPCs, SuffixedPCs, ConfiguredPCs, EnsurePCs
  <1>1. PICK s \in Slots : Doomed(p, "cnamedrop", s) /\ DeleteRoute(<<r.app, s>>)
    BY <1>0 DEF DropCName, DeleteRouteIn, App
  <1>2. /\ handler[p].pc = "cnamedrop" /\ s \in d
        /\ handler'[p].pc = "cnamedrop" /\ handler'[p].doomed = d \ {s}
        /\ handler'[p].req = r
        /\ \A q \in Handlers : q # p => handler'[q] = handler[q]
        /\ UNCHANGED <<conf, faults, events, thawed>>
    BY <1>0, <1>1, Struck
  <1>3. /\ r.app \in Apps /\ r.prefixes \subseteq Prefixes /\ r.op = "Ensure"
        /\ EnsuredCNames(r) \subseteq r.cnames
    BY <1>0, <1>2, EnsureAsks
  <1>4. /\ d \subseteq CNames \ r.cnames
        /\ \A x \in EnsuredCNames(r) : CNameMet(r, <<r.app, x>>)
    BY <1>0, <1>2 DEF Stage, Attaches, Within
  <1>5. /\ ~Exists(route'[<<r.app, s>>]) /\ listener' = listener
        /\ \A x \in RouteKeys : x # <<r.app, s>> => route'[x] = route[x]
    BY <1>1, <1>3, Keys, RouteDeleted
  <1>6. \A x \in Slots : x # s => route'[<<r.app, x>>] = route[<<r.app, x>>]
    BY <1>3, <1>5, Keys
  <1>7. SamePrefixes(r.app)
    BY <1>2, <1>3, <1>4, <1>6, Keys, PrefixesStay DEF Slots
  <1>8. ConfChosen(p)' /\ Exposes(p)' /\ Removes(p)'
    BY <1>0, <1>2, <1>3, <1>7, CNamesOn
  <1>9. \A x \in CNames \cap r.cnames : route'[<<r.app, x>>] = route[<<r.app, x>>]
    BY <1>2, <1>4, <1>6 DEF Slots
  <1>10. EnsuredCNames(r) \subseteq CNames \cap r.cnames
    BY <1>0, <1>2, EnsureAsks
  <1>11. Attaches(p)'
    BY <1>2, <1>4, <1>5, <1>9, <1>10 DEF Attaches, Within, At, CNameMet, MetFrozen
  <1>12. ASSUME Undisturbed' PROVE Tracks(p)'
    <2>1. Tracks(p)
      BY <1>2, <1>12, StaysUndisturbed DEF Stage
    <2>2. LabelledCNameRoutes(r.app) \subseteq r.cnames \cup d
      BY <1>0, <1>2, <2>1 DEF Tracks
    <2>3. LabelledCNameRoutes(r.app)' \subseteq LabelledCNameRoutes(r.app) \ {s}
      BY <1>5, <1>6 DEF LabelledCNameRoutes, Slots
    <2>4. LabelledCNameRoutes(r.app)' \subseteq r.cnames \cup handler'[p].doomed
      BY <1>2, <2>2, <2>3
    <2>5. \A x \in RouteKeys : x[1] # r.app => route'[x] = route[x]
      BY <1>5
    <2> QED
      BY <1>0, <1>2, <1>3, <2>1, <2>4, <2>5, CNamesTracked DEF DetachedPCs
  <1> QED
    BY <1>8, <1>11, <1>12 DEF Stage

\* From the ListenerSets on, steps that leave the routes as they are.
LEMMA OrphansStage ==
    ASSUME IInv, NEW p \in Handlers, Stage(p), NEW r, r = handler[p].req,
           handler[p].pc \in {"orphans", "orphandrop"}, handler'[p].pc = "orphandrop",
           handler'[p].req = r,
           \A q \in Handlers : q # p => handler'[q] = handler[q],
           UNCHANGED <<route, conf, faults, events, thawed>>,
           handler'[p].doomed \subseteq (IF r.httpOnly THEN CNames ELSE CNames \ r.cnames),
           r.httpOnly \/ \A c \in r.cnames : listener'[<<r.app, c>>] = listener[<<r.app, c>>]
    PROVE  Stage(p)'
  <1> USE DEF CNamePCs, AttachedPCs, SweptPCs, ExposedPCs, SuffixedPCs, ConfiguredPCs, EnsurePCs
  <1>1. /\ r.app \in Apps /\ r.prefixes \subseteq Prefixes /\ r.op = "Ensure"
        /\ EnsuredCNames(r) \subseteq r.cnames
    BY EnsureAsks
  <1>2. ConfChosen(p)' /\ Exposes(p)' /\ Removes(p)'
    BY <1>1, CNamesOn, PrefixesStay
  <1>3. \A c \in EnsuredCNames(r) : CNameMet(r, <<r.app, c>>)
    BY DEF Stage, Attaches, Within
  <1>4. \A c \in EnsuredCNames(r) : CNameMet(r, <<r.app, c>>)'
    BY <1>1, <1>3 DEF CNameMet, MetFrozen
  <1>5. Attaches(p)'
    BY <1>4 DEF Attaches, Within, At
  <1>6. ASSUME Undisturbed' PROVE Tracks(p)'
    <2>1. Tracks(p)
      BY <1>6, StaysUndisturbed DEF Stage
    <2>2. LabelledCNameRoutes(r.app)' \subseteq r.cnames
      BY <2>1 DEF Tracks, Within, DetachedPCs, LabelledCNameRoutes
    <2> QED
      BY <1>1, <2>1, <2>2, CNamesTracked DEF DetachedPCs
  <1> QED
    BY <1>2, <1>5, <1>6 DEF Stage

LEMMA ListOrphansStage ==
    ASSUME IInv, NEW p \in Handlers, Stage(p), ListOrphans(p)
    PROVE  Stage(p)'
  <1>0. PICK r : r = handler[p].req
    OBVIOUS
  <1>1. /\ handler[p].pc = "orphans" /\ handler'[p].pc = "orphandrop"
        /\ handler'[p].doomed = OrphanedListenerSets(r.app, r)
        /\ handler'[p].req = r
        /\ \A q \in Handlers : q # p => handler'[q] = handler[q]
        /\ UNCHANGED <<route, listener, conf, faults, events, thawed>>
    BY <1>0, Listed DEF ListOrphans, App
  <1>2. handler'[p].doomed \subseteq (IF r.httpOnly THEN CNames ELSE CNames \ r.cnames)
    BY <1>1 DEF OrphanedListenerSets
  <1> QED
    BY <1>0, <1>1, <1>2, OrphansStage

\* What is deleted here no request in turn asked for.
LEMMA OrphanDropped ==
    ASSUME IInv, NEW p \in Handlers, Stage(p), DropOrphan(p), NEW r, r = handler[p].req
    PROVE  /\ handler[p].pc = "orphandrop" /\ handler'[p].pc = "orphandrop"
           /\ handler'[p].req = r
           /\ \A q \in Handlers : q # p => handler'[q] = handler[q]
           /\ UNCHANGED <<route, conf, faults, events, thawed>>
           /\ handler'[p].doomed \subseteq (IF r.httpOnly THEN CNames ELSE CNames \ r.cnames)
           /\ \E c \in CNames :
                /\ r.httpOnly \/ c \notin r.cnames
                /\ \A y \in ListenerKeys : y # <<r.app, c>> => listener'[y] = listener[y]
  <1>1. PICK c \in CNames : Doomed(p, "orphandrop", c) /\ DeleteListener(<<r.app, c>>)
    BY DEF DropOrphan, DeleteListenerIn, App
  <1>2. /\ handler[p].pc = "orphandrop" /\ c \in handler[p].doomed
        /\ handler'[p].pc = "orphandrop" /\ handler'[p].doomed = handler[p].doomed \ {c}
        /\ handler'[p].req = r
        /\ \A q \in Handlers : q # p => handler'[q] = handler[q]
        /\ UNCHANGED <<conf, faults, events, thawed>>
    BY <1>1, Struck
  <1>3. r.app \in Apps
    BY <1>2, EnsureAsks DEF EnsurePCs
  <1>4. handler[p].doomed \subseteq (IF r.httpOnly THEN CNames ELSE CNames \ r.cnames)
    BY <1>2 DEF Stage, Attaches, At
  <1>5. route' = route /\ \A y \in ListenerKeys : y # <<r.app, c>> => listener'[y] = listener[y]
    BY <1>1, <1>3, Keys, ListenerDeleted
  <1> QED
    BY <1>2, <1>4, <1>5

LEMMA DropOrphanStage ==
    ASSUME IInv, NEW p \in Handlers, Stage(p), DropOrphan(p)
    PROVE  Stage(p)'
  <1>0. PICK r : r = handler[p].req
    OBVIOUS
  <1>1. /\ handler[p].pc = "orphandrop" /\ handler'[p].pc = "orphandrop"
        /\ handler'[p].req = r
        /\ \A q \in Handlers : q # p => handler'[q] = handler[q]
        /\ UNCHANGED <<route, conf, faults, events, thawed>>
        /\ handler'[p].doomed \subseteq (IF r.httpOnly THEN CNames ELSE CNames \ r.cnames)
    BY <1>0, OrphanDropped
  <1>2. r.app \in Apps /\ r.cnames \subseteq CNames
    BY <1>0, <1>1, EnsureAsks DEF EnsurePCs
  <1>3. r.httpOnly \/ \A c \in r.cnames : listener'[<<r.app, c>>] = listener[<<r.app, c>>]
    <2>1. PICK x \in CNames :
                /\ r.httpOnly \/ x \notin r.cnames
                /\ \A y \in ListenerKeys : y # <<r.app, x>> => listener'[y] = listener[y]
      BY <1>0, OrphanDropped
    <2> QED
      BY <1>2, <2>1, Keys
  <1> QED
    BY <1>0, <1>1, <1>3, OrphansStage

LEMMA AnnotateGetStage ==
    ASSUME IInv, NEW p \in Handlers, Stage(p), AnnotateGet(p)
    PROVE  Stage(p)'
  <1>0. PICK r : r = handler[p].req
    OBVIOUS
  <1> USE DEF CNamePCs, AttachedPCs, SweptPCs, ExposedPCs, SuffixedPCs, ConfiguredPCs, EnsurePCs
  <1>1. handler[p].pc = "annotate" /\ UNCHANGED <<route, listener, conf, faults, events, thawed>>
    BY DEF AnnotateGet, At, Local, cluster, routes, listeners, bounds
  <1>2. /\ r.app \in Apps /\ r.prefixes \subseteq Prefixes /\ r.op = "Ensure"
        /\ Default \in r.prefixes
    BY <1>0, <1>1, EnsureAsks
  <1>3. Exists(route[<<r.app, Default>>])
    BY <1>0, <1>1, <1>2 DEF Stage, Exposes, Within, PrefixMet, MetFrozen
  <1>4. Gets(p, "annotput", Default, route[<<r.app, Default>>])
    BY <1>0, <1>3 DEF AnnotateGet, App, Gets
  <1>5. /\ handler'[p].pc = "annotput" /\ handler'[p].at = Default
        /\ handler'[p].seen = route[<<r.app, Default>>] /\ handler'[p].req = r
        /\ \A q \in Handlers : q # p => handler'[q] = handler[q]
    BY <1>0, <1>4, Got
  <1>6. ConfChosen(p)' /\ Exposes(p)' /\ Removes(p)'
    BY <1>0, <1>1, <1>2, <1>5, CNamesOn, PrefixesStay
  <1>7. \A c \in EnsuredCNames(r) : CNameMet(r, <<r.app, c>>)
    BY <1>0, <1>1 DEF Stage, Attaches, Within
  <1>8. Attaches(p)'
    BY <1>1, <1>5, <1>7 DEF Attaches, Within, At, CNameMet, MetFrozen
  <1>9. ASSUME Undisturbed' PROVE Tracks(p)'
    <2>1. Tracks(p)
      BY <1>1, <1>5, <1>9, StaysUndisturbed DEF Stage
    <2>2. LabelledCNameRoutes(r.app)' \subseteq r.cnames
      BY <1>0, <1>1, <2>1 DEF Tracks, Within, DetachedPCs, LabelledCNameRoutes
    <2> QED
      BY <1>0, <1>1, <1>2, <1>5, <2>1, <2>2, CNamesTracked DEF DetachedPCs
  <1> QED
    BY <1>6, <1>8, <1>9 DEF Stage

\* The annotation is stored where the default route is as it was read.
LEMMA AnnotationPut ==
    ASSUME IInv, NEW p \in Handlers, AnnotatePut(p), NEW r, r = handler[p].req,
           NEW k, k = <<r.app, Default>>, Exists(route[k])
    PROVE  /\ handler[p].pc = "annotput" /\ Key(p) = k
           /\ handler'[p].pc = "ok" /\ handler'[p].req = r /\ listener' = listener
           /\ \A q \in Handlers : q # p => handler'[q] = handler[q]
           /\ UNCHANGED <<conf, faults, events, thawed>>
           /\ \/ ~Accepted(route[k], handler[p].seen) /\ route' = route
              \/ /\ Exists(route'[k]) /\ route'[k].cnames = r.cnames
                 /\ route'[k].frozen = route[k].frozen /\ route'[k].parent = route[k].parent
                 /\ route'[k].suffix = route[k].suffix
                 /\ \A x \in RouteKeys : x # k => route'[x] = route[x]
  <1>1. handler[p].pc = "annotput" /\ handler[p].pc \in RoutePuts
    BY DEF AnnotatePut, At, RoutePuts
  <1>2. /\ UNCHANGED <<conf, faults, events, thawed>> /\ End(p, "ok")
        /\ \/ /\ Accepted(route[Key(p)], handler[p].seen)
              /\ WriteRoute(Key(p), Annotated(handler[p].seen, r.cnames))
           \/ ~Accepted(route[Key(p)], handler[p].seen) /\ UNCHANGED cluster
    BY DEF AnnotatePut, bounds
  <1>3. Key(p) = k /\ k \in RouteKeys
    <2>1. handler[p].at = Default
      BY <1>1 DEF IInv, Staged, StageOK
    <2> QED
      BY <1>1, <2>1, PutType DEF Key
  <1>4. r.cnames \in SUBSET CNames
    BY <1>1, EnsureAsks DEF EnsurePCs
  <1>5. /\ handler'[p].pc = "ok" /\ handler'[p].req = r
        /\ \A q \in Handlers : q # p => handler'[q] = handler[q]
    BY <1>2, Ended
  <1>6. CASE /\ Accepted(route[k], handler[p].seen)
             /\ WriteRoute(k, Annotated(handler[p].seen, r.cnames))
    <2> DEFINE m == Annotated(handler[p].seen, r.cnames)
    <2>1. handler[p].seen = route[k] /\ handler[p].seen \in Route
      BY <1>1, <1>3, <1>6, AcceptedIsSeen, PutType
    <2>2. /\ m \in Route /\ m.frozen = route[k].frozen /\ m.parent = route[k].parent
          /\ m.suffix = route[k].suffix /\ m.cnames = r.cnames
      BY <1>4, <2>1, AnnotatedType DEF Annotated, Route
    <2> HIDE DEF m
    <2>3. WriteRoute(k, m)
      BY <1>6 DEF m
    <2>4. /\ Exists(route'[k]) /\ route'[k].cnames = r.cnames
          /\ route'[k].frozen = route[k].frozen /\ route'[k].parent = route[k].parent
          /\ route'[k].suffix = route[k].suffix
          /\ \A x \in RouteKeys : x # k => route'[x] = route[x]
          /\ listener' = listener
      BY <1>3, <2>2, <2>3, RoutePutLeaves
    <2> QED
      BY <1>1, <1>2, <1>3, <1>5, <2>4
  <1>7. CASE ~Accepted(route[k], handler[p].seen) /\ UNCHANGED cluster
    BY <1>1, <1>2, <1>3, <1>5, <1>7 DEF cluster, routes, listeners
  <1> QED
    BY <1>2, <1>3, <1>6, <1>7

LEMMA AnnotatePutStage ==
    ASSUME IInv, NEW p \in Handlers, Stage(p), AnnotatePut(p)
    PROVE  Stage(p)'
  <1>0. PICK r : r = handler[p].req
    OBVIOUS
  <1>1. PICK k : k = <<r.app, Default>>
    OBVIOUS
  <1> USE DEF CNamePCs, AttachedPCs, SweptPCs, ExposedPCs, SuffixedPCs, ConfiguredPCs, EnsurePCs
  <1>2. handler[p].pc = "annotput"
    BY DEF AnnotatePut, At
  <1>3. /\ r.app \in Apps /\ r.prefixes \subseteq Prefixes /\ r.op = "Ensure"
        /\ Default \in r.prefixes /\ EnsuredCNames(r) \subseteq CNames
    BY <1>0, <1>2, EnsureAsks
  <1>4. Exists(route[k])
    BY <1>0, <1>1, <1>2, <1>3 DEF Stage, Exposes, Within, PrefixMet, MetFrozen
  <1>5. /\ Key(p) = k /\ handler'[p].pc = "ok" /\ handler'[p].req = r /\ listener' = listener
        /\ \A q \in Handlers : q # p => handler'[q] = handler[q]
        /\ UNCHANGED <<conf, faults, events, thawed>>
    BY <1>0, <1>1, <1>4, AnnotationPut
  <1>6. CASE route' = route
    <2>1. ConfChosen(p)' /\ Exposes(p)' /\ Attaches(p)' /\ Removes(p)'
      BY <1>0, <1>2, <1>5, <1>6, EnsureEnds DEF Stage
    <2> QED
      <3>1. CASE ~Accepted(route[k], handler[p].seen)
        <4>1. ~Undisturbed'
          <5> SUFFICES ASSUME Undisturbed' PROVE FALSE
            OBVIOUS
          <5>1. Tracks(p)
            BY <1>2, <1>5, StaysUndisturbed DEF Stage
          <5>2. handler[p].seen = route[k]
            BY <1>2, <1>5, <5>1 DEF Tracks, KeyOf, Key, RoutePuts
          <5> QED
            BY <3>1, <5>2, CurrentIsAccepted
        <4> QED
          BY <2>1, <4>1 DEF Stage
      <3>2. CASE /\ Exists(route'[k]) /\ route'[k].cnames = r.cnames
        <4>1. ASSUME Undisturbed' PROVE Tracks(p)'
          <5>1. Tracks(p)
            BY <1>2, <1>5, <4>1, StaysUndisturbed DEF Stage
          <5>2. /\ \A a \in Apps : a # r.app => LabelledCNameRoutes(a) \subseteq ExistingCNames(a)
                /\ LabelledCNameRoutes(r.app) \subseteq r.cnames
            BY <1>0, <1>2, <5>1 DEF Tracks, Within, DetachedPCs
          <5>3. ExistingCNames(r.app)' = r.cnames
            BY <1>1, <3>2 DEF ExistingCNames
          <5>4. \A a \in Apps : LabelledCNameRoutes(a)' \subseteq ExistingCNames(a)'
            BY <1>6, <5>2, <5>3 DEF LabelledCNameRoutes, ExistingCNames
          <5>5. LabelledCNameRoutes(r.app)' \subseteq r.cnames
            BY <1>6, <5>2 DEF LabelledCNameRoutes
          <5> QED
            BY <1>5, <5>4, <5>5 DEF Tracks, RoutePuts, At
        <4> QED
          BY <2>1, <4>1 DEF Stage
      <3> QED
        BY <1>0, <1>1, <1>4, <3>1, <3>2, AnnotationPut
  <1>7. CASE /\ Exists(route'[k]) /\ route'[k].cnames = r.cnames
             /\ route'[k].frozen = route[k].frozen /\ route'[k].parent = route[k].parent
             /\ route'[k].suffix = route[k].suffix
             /\ \A x \in RouteKeys : x # k => route'[x] = route[x]
    <2>1. /\ \A s \in Prefixes : s # Default => route'[<<r.app, s>>] = route[<<r.app, s>>]
          /\ \A c \in CNames : route'[<<r.app, c>>] = route[<<r.app, c>>]
      BY <1>1, <1>3, <1>7, Keys
    <2>2. SamePrefixes(r.app)
      BY <1>1, <1>4, <1>7, <2>1 DEF SamePrefixes
    <2>3. ConfChosen(p)' /\ Exposes(p)' /\ Removes(p)'
      BY <1>0, <1>2, <1>3, <1>5, <2>2, CNamesOn
    <2>4. \A c \in EnsuredCNames(r) : CNameMet(r, <<r.app, c>>)
      BY <1>0, <1>2 DEF Stage, Attaches, Within
    <2>5. \A c \in EnsuredCNames(r) : CNameMet(r, <<r.app, c>>)'
      BY <1>3, <1>5, <2>1, <2>4 DEF CNameMet, MetFrozen
    <2>6. Attaches(p)'
      BY <1>5, <2>5 DEF Attaches, Within, At
    <2>7. ASSUME Undisturbed' PROVE Tracks(p)'
      <3>1. Tracks(p)
        BY <1>2, <1>5, <2>7, StaysUndisturbed DEF Stage
      <3>2. /\ \A a \in Apps : a # r.app => LabelledCNameRoutes(a) \subseteq ExistingCNames(a)
            /\ LabelledCNameRoutes(r.app) \subseteq r.cnames
        BY <1>0, <1>2, <3>1 DEF Tracks, Within, DetachedPCs
      <3>3. \A x \in RouteKeys : x[1] # r.app => route'[x] = route[x]
        BY <1>1, <1>7
      <3>4. \A a \in Apps : a # r.app => LabelledCNameRoutes(a)' \subseteq ExistingCNames(a)'
        BY <1>3, <3>2, <3>3, StaysTracked
      <3>5. ExistingCNames(r.app)' = r.cnames
        BY <1>1, <1>7 DEF ExistingCNames
      <3>6. LabelledCNameRoutes(r.app)' \subseteq r.cnames
        BY <2>1, <3>2 DEF LabelledCNameRoutes
      <3> QED
        BY <1>5, <3>4, <3>5, <3>6 DEF Tracks, RoutePuts, At
    <2> QED
      BY <2>3, <2>6, <2>7 DEF Stage
  <1> QED
    BY <1>0, <1>1, <1>4, <1>6, <1>7, AnnotationPut

-----------------------------------------------------------------------------
(* All the steps of a handler.                                             *)

\* A handler that works leaves the others alone, is not idle, and works for the
\* request that it received.
Works(p) ==
    /\ \A q \in Handlers : q # p => handler'[q] = handler[q]
    /\ handler'[p].pc # "idle"
    /\ \/ handler'[p].req \in Requests
       \/ handler[p].pc # "idle" /\ handler'[p].req = handler[p].req

LEMMA WorksOn ==
    ASSUME IInv, NEW p \in Handlers, NEW h, handler' = [handler EXCEPT ![p] = h],
           handler[p].pc # "idle", h.pc # "idle", h.req = handler[p].req
    PROVE  Works(p)
  BY Moved DEF Works

LEMMA EndWorks ==
    ASSUME IInv, NEW p \in Handlers, NEW outcome, End(p, outcome),
           handler[p].pc # "idle", outcome # "idle"
    PROVE  Works(p)
  BY Ended DEF Works

LEMMA GotoWorks ==
    ASSUME IInv, NEW p \in Handlers, NEW step, Goto(p, step),
           handler[p].pc # "idle", step # "idle"
    PROVE  Works(p)
  BY Gone DEF Works

LEMMA ReceiveWorks ==
    ASSUME IInv, NEW p \in Handlers, Receive(p)
    PROVE  Works(p)
  <1>1. PICK r \in Requests : handler' = [handler EXCEPT ![p] =
            [Idle EXCEPT !.pc = IF r.op = "Ensure" THEN "setgateway" ELSE "remove", !.req = r]]
    BY DEF Receive
  <1> DEFINE step == IF r.op = "Ensure" THEN "setgateway" ELSE "remove"
             h == [Idle EXCEPT !.pc = step, !.req = r]
  <1>2. step # "idle" /\ h.pc = step /\ h.req = r
    BY DEF Idle
  <1>3. handler' = [handler EXCEPT ![p] = h]
    BY <1>1
  <1> HIDE DEF h, step
  <1>4. handler'[p] = h /\ \A q \in Handlers : q # p => handler'[q] = handler[q]
    BY <1>3, Moved
  <1> QED
    BY <1>2, <1>4 DEF Works

LEMMA ConfigWorks ==
    ASSUME IInv, NEW p \in Handlers, ConfigStep(p)
    PROVE  Works(p)
  <1>1. CASE SetGateway(p) \/ GatewaySet(p) \/ SetSuffix(p)
    <2>1. /\ handler[p].pc # "idle"
          /\ \/ Goto(p, "gatewayset") \/ Goto(p, "setsuffix") \/ Goto(p, "suffixset")
             \/ End(p, "error")
      BY <1>1 DEF SetGateway, GatewaySet, SetSuffix, At
    <2> QED
      BY <2>1, EndWorks, GotoWorks
  <1>2. CASE SuffixSet(p)
    <2> DEFINE todo == handler[p].req.prefixes
               h == [handler[p] EXCEPT !.pc = "routes", !.todo = todo]
    <2>1. /\ handler[p] \in Handler /\ handler[p].pc # "idle"
          /\ handler' = [handler EXCEPT ![p] = h]
      BY <1>2 DEF IInv, StateOK, SuffixSet, At
    <2>2. h.pc # "idle" /\ h.req = handler[p].req
      BY <2>1 DEF Handler
    <2> HIDE DEF h
    <2> QED
      BY <2>1, <2>2, WorksOn
  <1> QED
    BY <1>1, <1>2 DEF ConfigStep

\* The steps of the loops: a slot comes off the list, a list is made.
LEMMA SweepWorks ==
    ASSUME IInv, NEW p \in Handlers,
           \/ DeleteObsolete(p) \/ DropCName(p) \/ DropOrphan(p) \/ ListObsolete(p)
           \/ ListOrphans(p) \/ RemoveStep(p)
    PROVE  Works(p)
  <1>1. ASSUME NEW step \in Steps, NEW s, Doomed(p, step, s)
        PROVE  Works(p)
    BY <1>1, Struck DEF Works, Steps
  <1>2. ASSUME NEW step \in Steps, NEW next \in Steps, NEW found, ListTo(p, step, next, found)
        PROVE  Works(p)
    BY <1>2, Listed DEF Works, Steps
  <1>3. CASE RemoveMain(p)
    BY <1>3, GotoWorks DEF RemoveMain, At
  <1>4. CASE DeleteObsolete(p) \/ DropCName(p) \/ RemoveRoute(p) \/ RemoveCNameRoute(p)
    BY <1>1, <1>4 DEF DeleteObsolete, DropCName, RemoveRoute, RemoveCNameRoute, DeleteRouteIn, Steps
  <1>5. CASE DropOrphan(p) \/ RemoveListenerSet(p)
    BY <1>1, <1>5 DEF DropOrphan, RemoveListenerSet, DeleteListenerIn, Steps
  <1>6. CASE \/ ListObsolete(p) \/ ListOrphans(p) \/ ListRoutes(p) \/ ListCNameRoutes(p)
             \/ ListListenerSets(p)
    BY <1>2, <1>6 DEF ListObsolete, ListOrphans, ListRoutes, ListCNameRoutes, ListListenerSets,
       Steps
  <1> QED
    BY <1>3, <1>4, <1>5, <1>6 DEF RemoveStep

\* The reads, and the writes of what was read.
LEMMA ReadWorks ==
    ASSUME IInv, NEW p \in Handlers,
           RouteGet(p) \/ ListenerGet(p) \/ CNameRouteGet(p) \/ AnnotateGet(p)
    PROVE  Works(p)
  <1>1. handler[p].pc # "idle" /\ handler[p] \in Handler
    BY DEF RouteGet, ListenerGet, CNameRouteGet, AnnotateGet, At, IInv, StateOK
  <1>2. ASSUME NEW step \in Steps, NEW s, NEW o, Gets(p, step, s, o)
        PROVE  Works(p)
    BY <1>1, <1>2, Got DEF Works, Steps
  <1>3. CASE ListenerGet(p)
    <2>1. PICK c, o, g : handler' = [handler EXCEPT ![p] =
                [handler[p] EXCEPT !.pc = "listenerput", !.at = c, !.seen = o, !.parent = g]]
      BY <1>3 DEF ListenerGet
    <2> DEFINE h == [handler[p] EXCEPT !.pc = "listenerput", !.at = c, !.seen = o, !.parent = g]
    <2>2. handler' = [handler EXCEPT ![p] = h] /\ h.pc = "listenerput" /\ h.req = handler[p].req
      BY <1>1, <2>1 DEF Handler
    <2> HIDE DEF h
    <2> QED
      BY <1>1, <2>2, WorksOn
  <1>4. CASE AnnotateGet(p)
    <2>1. End(p, "ok") \/ \E o : Gets(p, "annotput", Default, o)
      BY <1>4 DEF AnnotateGet, Gets
    <2> QED
      BY <1>1, <1>2, <2>1, EndWorks DEF Steps
  <1>5. CASE RouteGet(p)
    <2>1. \E s : \/ handler' = [handler EXCEPT ![p].todo = @ \ {s}]
                 \/ \E o : Gets(p, "routeput", s, o)
      BY <1>5 DEF RouteGet, Gets
    <2>2. ASSUME NEW s, handler' = [handler EXCEPT ![p].todo = @ \ {s}]
          PROVE  Works(p)
      <3> DEFINE left == handler[p].todo \ {s}
                 h == [handler[p] EXCEPT !.todo = left]
      <3>1. handler' = [handler EXCEPT ![p] = h] /\ h.pc = handler[p].pc /\ h.req = handler[p].req
        BY <1>1, <2>2 DEF Handler, IInv, StateOK
      <3> HIDE DEF h
      <3> QED
        BY <1>1, <3>1, WorksOn
    <2> QED
      BY <1>2, <2>1, <2>2 DEF Steps
  <1>6. CASE CNameRouteGet(p)
    <2>1. \E c : \/ handler' = [handler EXCEPT ![p] =
                    [@ EXCEPT !.pc = "cname", !.at = Nil, !.todo = handler[p].todo \ {c}]]
                 \/ \E o : Gets(p, "crouteput", c, o)
      BY <1>6 DEF CNameRouteGet, Gets
    <2>2. ASSUME NEW c, handler' = [handler EXCEPT ![p] =
                    [@ EXCEPT !.pc = "cname", !.at = Nil, !.todo = handler[p].todo \ {c}]]
          PROVE  Works(p)
      <3> DEFINE left == handler[p].todo \ {c}
                 h == [handler[p] EXCEPT !.pc = "cname", !.at = Nil, !.todo = left]
      <3>1. handler' = [handler EXCEPT ![p] = h] /\ h.pc = "cname" /\ h.req = handler[p].req
        BY <1>1, <2>2 DEF Handler, IInv, StateOK
      <3> HIDE DEF h
      <3> QED
        BY <1>1, <3>1, WorksOn
    <2> QED
      BY <1>2, <2>1, <2>2 DEF Steps
  <1> QED
    BY <1>3, <1>4, <1>5, <1>6

LEMMA WriteWorks ==
    ASSUME IInv, NEW p \in Handlers,
           \/ RoutePut(p) \/ ListenerPut(p) \/ CNameRoutePut(p) \/ AnnotatePut(p)
           \/ AnyCNames(p) \/ ReadCNames(p)
    PROVE  Works(p)
  <1>1. handler[p].pc # "idle" /\ handler[p] \in Handler
    BY DEF RoutePut, ListenerPut, CNameRoutePut, AnnotatePut, AnyCNames, ReadCNames, At, IInv,
           StateOK
  <1>2. CASE RoutePut(p) \/ CNameRoutePut(p)
    BY <1>1, <1>2, PrefixPut, CNamePut DEF Works
  <1>3. CASE AnnotatePut(p) \/ AnyCNames(p)
    BY <1>1, <1>3, EndWorks, GotoWorks DEF AnnotatePut, AnyCNames
  <1>4. CASE ListenerPut(p)
    <2> DEFINE h == [handler[p] EXCEPT !.pc = "croute", !.seen = Nil, !.parent = OwnListener]
    <2>1. End(p, "error") \/ handler' = [handler EXCEPT ![p] = h]
      BY <1>1, <1>4 DEF ListenerPut, Upsert, IInv, StateOK
    <2>2. h.pc = "croute" /\ h.req = handler[p].req
      BY <1>1 DEF Handler
    <2> HIDE DEF h
    <2> QED
      BY <1>1, <2>1, <2>2, WorksOn, EndWorks
  <1>5. CASE ReadCNames(p)
    <2>1. \E todo, doomed, parent : handler' = [handler EXCEPT ![p] =
                [@ EXCEPT !.pc = "cname", !.todo = todo, !.doomed = doomed, !.parent = parent]]
      BY <1>5 DEF ReadCNames
    <2>2. PICK todo, doomed, parent : handler' = [handler EXCEPT ![p] =
                [handler[p] EXCEPT !.pc = "cname", !.todo = todo, !.doomed = doomed,
                                   !.parent = parent]]
      BY <2>1
    <2> DEFINE h == [handler[p] EXCEPT !.pc = "cname", !.todo = todo, !.doomed = doomed,
                                       !.parent = parent]
    <2>3. h.pc = "cname" /\ h.req = handler[p].req
      BY <1>1 DEF Handler
    <2>4. handler' = [handler EXCEPT ![p] = h]
      BY <2>2
    <2> HIDE DEF h
    <2> QED
      BY <1>1, <2>3, <2>4, WorksOn
  <1> QED
    BY <1>2, <1>3, <1>4, <1>5

HandlerStep(p) ==
    Receive(p) \/ Fail(p) \/ LoopDone(p) \/ ConfigStep(p) \/ EnsureStep(p) \/ RemoveStep(p)

LEMMA StepWorks ==
    ASSUME IInv, NEW p \in Handlers, HandlerStep(p)
    PROVE  Works(p)
  <1>1. CASE Fail(p)
    <2>1. handler[p].pc # "idle" /\ \E out \in {"ok", "error"} : End(p, out)
      BY <1>1 DEF Fail, Calls, Steps
    <2> QED
      BY <2>1, EndWorks
  <1>2. CASE LoopDone(p)
    <2>1. /\ handler[p].pc # "idle"
          /\ End(p, "ok") \/ \E step \in Steps : Goto(p, step)
      BY <1>2 DEF LoopDone, AfterLoop, Steps
    <2> QED
      BY <2>1, EndWorks, GotoWorks DEF Steps
  <1> QED
    BY <1>1, <1>2, ReceiveWorks, ConfigWorks, SweepWorks, ReadWorks, WriteWorks
    DEF HandlerStep, EnsureStep

LEMMA StepStage ==
    ASSUME IInv, NEW p \in Handlers, Stage(p), HandlerStep(p)
    PROVE  Stage(p)'
  <1>1. CASE ConfigStep(p)
    BY <1>1, SetGatewayStage, GatewaySetStage, SetSuffixStage, SuffixSetStage DEF ConfigStep
  <1>2. CASE EnsureStep(p)
    BY <1>2, RouteGetStage, RoutePutStage, ListObsoleteStage, DeleteObsoleteStage, AnyCNamesStage,
       ReadCNamesStage, ListenerGetStage, ListenerPutStage, CNameRouteGetStage, CNameRoutePutStage,
       DropCNameStage, ListOrphansStage, DropOrphanStage, AnnotateGetStage, AnnotatePutStage
    DEF EnsureStep
  <1> QED
    BY <1>1, <1>2, ReceiveStage, FailStage, LoopDoneStage, RemoveStage DEF HandlerStep

LEMMA StepInTurn ==
    ASSUME IInv, InTurn, NEW p \in Handlers, HandlerStep(p)
    PROVE  InTurn'
  <1> SUFFICES ASSUME NEW q \in Handlers, Alone(q)' PROVE Stage(q)'
    BY DEF InTurn
  <1>1. q = p /\ Alone(p)
    BY StepWorks, StaysAlone DEF Works
  <1> QED
    BY <1>1, StepStage DEF InTurn

-----------------------------------------------------------------------------
(* The other parts of the invariant.                                       *)

LEMMA StepAsked ==
    ASSUME IInv, Asked, NEW p \in Handlers, HandlerStep(p)
    PROVE  Asked'
  BY StepWorks DEF Works, Asked, At

\* An annotation is only stored in a route that is there.
LEMMA AnnotatesThere ==
    ASSUME IInv, NEW p \in Handlers, AnnotatePut(p), NEW k \in RouteKeys, Exists(route'[k])
    PROVE  Exists(route[k])
  <1> DEFINE m == Annotated(handler[p].seen, handler[p].req.cnames)
  <1>1. handler[p].pc = "annotput" /\ handler[p].pc \in RoutePuts
    BY DEF AnnotatePut, At, RoutePuts
  <1>2. Exists(handler[p].seen)
    BY <1>1 DEF IInv, Staged, StageOK
  <1>3. \/ Accepted(route[Key(p)], handler[p].seen) /\ WriteRoute(Key(p), m)
        \/ UNCHANGED cluster
    BY DEF AnnotatePut
  <1> HIDE DEF m
  <1>4. CASE UNCHANGED cluster
    BY <1>4 DEF cluster, routes
  <1>5. CASE Accepted(route[Key(p)], handler[p].seen) /\ WriteRoute(Key(p), m)
    <2>1. Exists(route[Key(p)])
      BY <1>2, <1>5 DEF Accepted, Accepts
    <2>2. route \in [RouteKeys -> Route \cup {Nil}]
      BY DEF IInv, StateOK
    <2> QED
      BY <1>5, <2>1, <2>2 DEF WriteRoute
  <1> QED
    BY <1>3, <1>4, <1>5

LEMMA StepFrozenCounted ==
    ASSUME IInv, FrozenCounted, NEW p \in Handlers, HandlerStep(p)
    PROVE  FrozenCounted'
  <1>1. events' = events /\ thawed' \in {thawed, {}}
    BY DEF HandlerStep, Receive, Fail, LoopDone, Local, bounds, ConfigStep, SetGateway, GatewaySet,
           SetSuffix, SuffixSet, EnsureStep, RouteGet, RoutePut, ListObsolete, DeleteObsolete,
           AnyCNames, ReadCNames, ListenerGet, ListenerPut, CNameRouteGet, CNameRoutePut, DropCName,
           ListOrphans, DropOrphan, AnnotateGet, AnnotatePut, RemoveStep, ListRoutes, RemoveRoute,
           RemoveMain, ListCNameRoutes, RemoveCNameRoute, ListListenerSets, RemoveListenerSet,
           Upsert, ListTo, DeleteRouteIn, DeleteListenerIn, Doomed
  <1> SUFFICES ASSUME NEW k \in RouteKeys, Exists(route'[k]), route'[k].frozen
               PROVE  Exists(route[k]) /\ route[k].frozen
    BY <1>1 DEF FrozenCounted
  <1>2. CASE RoutePut(p)
    BY <1>2, PrefixPut
  <1>3. CASE CNameRoutePut(p)
    BY <1>3, CNamePut
  <1>4. CASE AnnotatePut(p)
    BY <1>4, AnnotatesThere, AnnotatePutKeeps
  <1>5. CASE ~RoutePut(p) /\ ~CNameRoutePut(p) /\ ~AnnotatePut(p)
    <2>1. Spares
      BY <1>5, EnsureSpares, RemoveSpares, OtherSpares DEF HandlerStep
    <2> QED
      BY <2>1 DEF Spares, Exists
  <1> QED
    BY <1>2, <1>3, <1>4, <1>5

-----------------------------------------------------------------------------
(* The steps that are not a handler's.                                     *)

\* What the requests of the handlers are.
LEMMA Asks ==
    ASSUME Asked, NEW p \in Handlers, ~At(p, "idle")
    PROVE  LET r == handler[p].req IN
           /\ r.app \in Apps
           /\ r.op = "Ensure" =>
                /\ r.prefixes \subseteq Prefixes /\ EnsuredCNames(r) \subseteq CNames
  BY RequestsAssumption DEF Asked, RequestType, EnsureRequest, EnsuredCNames

\* A write by somebody else.
LEMMA EventWrites ==
    ASSUME IInv, NEW j \in RouteKeys, ToggleFreeze(j) \/ WriteStatus(j)
    PROVE  /\ UNCHANGED <<listener, conf, handler>> /\ events' = events + 1
           /\ \A k \in RouteKeys :
                /\ Exists(route'[k]) <=> Exists(route[k])
                /\ Exists(route[k]) =>
                    route'[k].parent = route[k].parent /\ route'[k].suffix = route[k].suffix
                /\ Exists(route[k]) /\ MetFrozen(k) => MetFrozen(k)'
  <1>1. route \in [RouteKeys -> Route \cup {Nil}] /\ Exists(route[j])
    BY DEF IInv, StateOK, ToggleFreeze, WriteStatus
  <1>2. UNCHANGED <<listener, conf, handler>> /\ events' = events + 1
    BY DEF ToggleFreeze, WriteStatus, Event, WriteRoute, listeners
  <1>3. \A k \in RouteKeys : Exists(route'[k]) <=> Exists(route[k])
    <2>1. CASE ToggleFreeze(j)
      <3> DEFINE m == [route[j] EXCEPT !.frozen = ~route[j].frozen]
      <3>1. m \in Route
        BY <1>1 DEF Route, Exists
      <3>2. WriteRoute(j, m)
        BY <2>1 DEF ToggleFreeze
      <3> HIDE DEF m
      <3> QED
        BY <1>1, <3>1, <3>2, RoutePutLeaves
    <2>2. CASE WriteStatus(j)
      <3> DEFINE v == routeVersion[j] + 1
                 o == [route[j] EXCEPT !.rv = v]
      <3>1. o \in Route
        BY <1>1 DEF Route, Exists, IInv, StateOK
      <3>2. route' = [route EXCEPT ![j] = o]
        BY <2>2 DEF WriteStatus
      <3> HIDE DEF o
      <3> QED
        BY <1>1, <3>1, <3>2, NilAssumption DEF Exists
    <2> QED
      BY <2>1, <2>2
  <1>4. ASSUME NEW k \in RouteKeys, Exists(route[k]), MetFrozen(k)
        PROVE  MetFrozen(k)'
    <2>1. thawed \subseteq thawed' /\ (ToggleFreeze(j) /\ route[j].frozen => j \in thawed')
      BY DEF ToggleFreeze, WriteStatus
    <2>2. CASE k = j /\ ToggleFreeze(j)
      BY <1>4, <2>1, <2>2 DEF MetFrozen
    <2>3. CASE k = j /\ WriteStatus(j)
      <3>1. route[j] \in Route
        BY <1>1 DEF Exists
      <3>2. route'[j].frozen = route[j].frozen
        BY <1>1, <2>3, <3>1 DEF WriteStatus, Route
      <3> QED
        BY <1>4, <2>1, <2>3, <3>2 DEF MetFrozen
    <2>4. CASE k # j
      <3>1. route'[k] = route[k]
        BY <1>1, <2>4 DEF ToggleFreeze, WriteStatus, WriteRoute
      <3> QED
        BY <1>4, <2>1, <3>1 DEF MetFrozen
    <2> QED
      BY <2>2, <2>3, <2>4
  <1> QED
    BY <1>2, <1>3, <1>4, ToggleFreezeKeeps, WriteStatusKeeps

\* It does not undo what a handler has done, and is not undisturbed any more.
LEMMA EventStage ==
    ASSUME IInv, Asked, FrozenCounted, NEW p \in Handlers, Stage(p),
           NEW j \in RouteKeys, ToggleFreeze(j) \/ WriteStatus(j)
    PROVE  Stage(p)'
  <1>0. PICK r : r = handler[p].req
    OBVIOUS
  <1>1. /\ UNCHANGED <<listener, conf, handler>> /\ events' = events + 1 /\ events \in Nat
        /\ \A k \in RouteKeys :
            /\ Exists(route'[k]) <=> Exists(route[k])
            /\ Exists(route[k]) =>
                route'[k].parent = route[k].parent /\ route'[k].suffix = route[k].suffix
            /\ Exists(route[k]) /\ MetFrozen(k) => MetFrozen(k)'
    BY EventWrites DEF IInv, StateOK
  <1>2. ~Undisturbed'
    BY <1>1 DEF Undisturbed
  <1>4. ConfChosen(p)'
    BY <1>1 DEF Stage, ConfChosen, Service
  <1>5. CASE At(p, "idle")
    BY <1>1, <1>2, <1>4, <1>5, RemoveIsNoEnsure, EnsureIsNoRemove DEF Stage, At
  <1>6. CASE ~At(p, "idle")
    <2>1. r.app \in Apps
      BY <1>0, <1>6, Asks
    <2>2. /\ \A s \in Prefixes : <<r.app, s>> \in RouteKeys
          /\ \A c \in CNames : <<r.app, c>> \in RouteKeys
      BY <2>1, Keys
    <2>3. Removes(p)'
      <3>1. /\ LabelledRoutes(r.app)' = LabelledRoutes(r.app)
            /\ LabelledCNameRoutes(r.app)' = LabelledCNameRoutes(r.app)
            /\ LabelledListenerSets(r.app)' = LabelledListenerSets(r.app)
        BY <1>1, <2>2 DEF LabelledRoutes, LabelledCNameRoutes, LabelledListenerSets
      <3> QED
        BY <1>0, <1>1, <3>1 DEF Stage, Removes, Within, At
    <2>4. CASE r.op # "Ensure"
      <3>1. \/ handler'[p].pc \in RemovePCs \cup {"idle", "error", "setgateway", "gatewayset"}
            \/ handler'[p].pc = "ok" /\ handler'[p].req.op # "Ensure"
        BY <1>0, <1>1, <2>4, EnsureAsks, <1>6
        DEF IInv, StateOK, Handler, Steps, Ends, EnsurePCs, RemovePCs
      <3>2. Exposes(p)' /\ Attaches(p)'
        BY <3>1 DEF Exposes, Attaches, Within, At, RemovePCs, ConfiguredPCs, EnsurePCs,
           SuffixedPCs, ExposedPCs, SweptPCs, AttachedPCs, CNamePCs
      <3> QED
        BY <1>2, <1>4, <2>3, <3>2 DEF Stage
    <2>5. CASE r.op = "Ensure"
      <3>1. r.prefixes \subseteq Prefixes /\ EnsuredCNames(r) \subseteq CNames
        BY <1>0, <1>6, <2>5, Asks
      <3>2. \A s \in Prefixes :
                /\ PrefixMet(r, <<r.app, s>>) => PrefixMet(r, <<r.app, s>>)'
                /\ PrefixSwept(<<r.app, s>>) => PrefixSwept(<<r.app, s>>)'
        BY <1>1, <2>2 DEF PrefixMet, PrefixSwept
      <3>3. \A c \in CNames :
                CNameMet(r, <<r.app, c>>) => CNameMet(r, <<r.app, c>>)'
        BY <1>1, <2>2 DEF CNameMet
      <3>4. Exposes(p)'
        BY <1>0, <1>1, <3>1, <3>2 DEF Stage, Exposes, Within, At
      <3>5. Attaches(p)'
        BY <1>0, <1>1, <3>1, <3>3 DEF Stage, Attaches, Within, At
      <3> QED
        BY <1>2, <1>4, <2>3, <3>4, <3>5 DEF Stage
    <2> QED
      BY <2>4, <2>5
  <1> QED
    BY <1>5, <1>6

\* The process starts again: no handler is at work any more.
LEMMA RestartStage ==
    ASSUME IInv, NEW p \in Handlers, Stage(p), Restart
    PROVE  Stage(p)'
  <1>1. UNCHANGED <<route, listener, events, thawed>> /\ faults' = faults + 1 /\ faults \in Nat
    BY DEF Restart, cluster, routes, listeners, IInv, StateOK
  <1>2. ~Undisturbed'
    BY <1>1 DEF Undisturbed
  <1>3. CASE handler[p].pc \in Steps
    <2>1. handler'[p].pc = "error"
      BY <1>3 DEF Restart, Idle
    <2> QED
      BY <1>2, <2>1, RemoveIsNoEnsure, EnsureIsNoRemove DEF Stage
  <1>4. CASE handler[p].pc \notin Steps
    <2>1. handler'[p] = handler[p] /\ handler[p].pc \in Ends
      BY <1>4 DEF Restart, IInv, StateOK, Handler
    <2>2. ConfChosen(p)'
      BY <2>1 DEF ConfChosen, SuffixedPCs, ConfiguredPCs, EnsurePCs, Ends
    <2>3. Exposes(p)'
      BY <1>1, <2>1 DEF Stage, Exposes, Within, At, PrefixMet, PrefixSwept, MetFrozen
    <2>4. Attaches(p)'
      BY <1>1, <2>1 DEF Stage, Attaches, Within, At, CNameMet, MetFrozen, CNamePCs, Ends
    <2>5. Removes(p)'
      BY <1>1, <2>1 DEF Stage, Removes, Within, At, LabelledRoutes, LabelledCNameRoutes,
         LabelledListenerSets
    <2> QED
      BY <1>2, <2>2, <2>3, <2>4, <2>5 DEF Stage
  <1> QED
    BY <1>3, <1>4

LEMMA RestartInTurn ==
    ASSUME IInv, InTurn, Restart
    PROVE  InTurn'
  <1> SUFFICES ASSUME NEW p \in Handlers, Alone(p)' PROVE Stage(p)'
    BY DEF InTurn
  <1>1. \A q \in Handlers : At(q, "idle")' => At(q, "idle")
    <2> TAKE q \in Handlers
    <2>1. handler'[q] = IF handler[q].pc \in Steps
                        THEN [Idle EXCEPT !.pc = "error", !.req = handler[q].req]
                        ELSE handler[q]
      BY DEF Restart
    <2> QED
      BY <2>1 DEF At, Idle
  <1>2. Alone(p)
    BY <1>1 DEF Alone
  <1> QED
    BY <1>2, RestartStage DEF InTurn

-----------------------------------------------------------------------------
(* No route of a CName without its ListenerSet.                            *)

Hangs(k) == Exists(route[k]) /\ route[k].parent.onListener
NoneDangles == \A k \in ListenerKeys : Hangs(k) => Exists(listener[k])

\* Steps that neither write such a route nor delete a ListenerSet.
LEMMA SparesListeners ==
    ASSUME NoneDangles,
           \A k \in ListenerKeys : route'[k] = route[k] \/ ~Exists(route'[k]),
           \A k \in ListenerKeys : Exists(listener[k]) => Exists(listener'[k])
    PROVE  NoneDangles'
  BY DEF NoneDangles, Hangs

LEMMA ListenerIsRoute == ListenerKeys \subseteq RouteKeys
  BY DEF ListenerKeys, RouteKeys, Slots

\* The steps that leave the ListenerSets alone.
LEMMA ListenersStay ==
    ASSUME NEW p \in Handlers, HandlerStep(p),
           ~ListenerPut(p), ~DropOrphan(p), ~RemoveListenerSet(p)
    PROVE  listener' = listener
  <1>1. CASE RoutePut(p) \/ CNameRoutePut(p) \/ AnnotatePut(p)
    BY <1>1 DEF RoutePut, CNameRoutePut, AnnotatePut, Upsert, WriteRoute, cluster, listeners
  <1>2. CASE \/ DeleteObsolete(p) \/ DropCName(p) \/ RemoveRoute(p) \/ RemoveMain(p)
             \/ RemoveCNameRoute(p)
    BY <1>2 DEF DeleteObsolete, DropCName, RemoveRoute, RemoveMain, RemoveCNameRoute, DeleteRouteIn,
                DeleteRoute, listeners
  <1>3. UNCHANGED cluster => listener' = listener
    BY DEF cluster, listeners
  <1> QED
    BY <1>1, <1>2, <1>3 DEF HandlerStep, Receive, Fail, LoopDone, Local, ConfigStep, SetGateway,
       GatewaySet, SetSuffix, SuffixSet, EnsureStep, RouteGet, ListObsolete, AnyCNames, ReadCNames,
       ListenerGet, CNameRouteGet, ListOrphans, AnnotateGet, RemoveStep, ListRoutes,
       ListCNameRoutes, ListListenerSets, ListTo

\* A ListenerSet is deleted when no route hangs from it.
LEMMA DropOrphanThere ==
    ASSUME IInv, FrozenCounted, NoneDangles, NEW p \in Handlers, Stage(p), Undisturbed,
           DropOrphan(p)
    PROVE  NoneDangles'
  <1>0. PICK r : r = handler[p].req
    OBVIOUS
  <1>1. handler[p].pc = "orphandrop" /\ route' = route
    BY <1>0, OrphanDropped
  <1>2. PICK c \in CNames :
                /\ r.httpOnly \/ c \notin r.cnames
                /\ \A y \in ListenerKeys : y # <<r.app, c>> => listener'[y] = listener[y]
    BY <1>0, OrphanDropped
  <1>3. r.app \in Apps
    BY <1>0, <1>1, EnsureAsks DEF EnsurePCs
  <1>4. LabelledCNameRoutes(r.app) \subseteq r.cnames
    BY <1>0, <1>1 DEF Stage, Tracks, Within, DetachedPCs, AttachedPCs, SweptPCs, ExposedPCs,
       SuffixedPCs, ConfiguredPCs, EnsurePCs, CNamePCs
  <1>5. ~Hangs(<<r.app, c>>)
    <2>1. CASE c \notin r.cnames
      BY <1>4, <2>1 DEF LabelledCNameRoutes, Hangs
    <2>2. CASE c \in r.cnames /\ r.httpOnly
      <3>1. CNameMet(r, <<r.app, c>>)
        BY <1>0, <1>1, <2>2 DEF Stage, Attaches, Within, EnsuredCNames, AttachedPCs, SweptPCs,
           ExposedPCs, SuffixedPCs, ConfiguredPCs, EnsurePCs, CNamePCs
      <3>2. <<r.app, c>> \in RouteKeys /\ events = 0
        BY <1>3, Keys DEF Undisturbed
      <3> QED
        BY <2>2, <3>1, <3>2 DEF CNameMet, MetFrozen, FrozenCounted, Wanted, Hangs
    <2> QED
      BY <1>2, <2>1, <2>2
  <1> QED
    BY <1>1, <1>2, <1>5 DEF NoneDangles, Hangs

LEMMA RemoveListenerThere ==
    ASSUME IInv, NoneDangles, NEW p \in Handlers, Stage(p), RemoveListenerSet(p)
    PROVE  NoneDangles'
  <1>0. PICK a : a = handler[p].req.app
    OBVIOUS
  <1>1. PICK c \in CNames : Doomed(p, "removinglisteners", c) /\ DeleteListener(<<a, c>>)
    BY <1>0 DEF RemoveListenerSet, DeleteListenerIn, App
  <1>2. handler[p].pc = "removinglisteners"
    BY <1>1, Struck
  <1>3. a \in Apps
    BY <1>0, <1>2, RemoveAsks DEF RemovePCs
  <1>4. LabelledCNameRoutes(a) = {}
    BY <1>0, <1>2 DEF Stage, Removes, Within, CNamesGonePCs
  <1>5. /\ route' = route
        /\ \A y \in ListenerKeys : y # <<a, c>> => listener'[y] = listener[y]
    BY <1>1, <1>3, Keys, ListenerDeleted
  <1>6. ~Hangs(<<a, c>>)
    BY <1>4 DEF LabelledCNameRoutes, Hangs
  <1> QED
    BY <1>5, <1>6 DEF NoneDangles, Hangs

\* The route of a CName is written when its ListenerSet is there.
LEMMA CNameRouteThere ==
    ASSUME IInv, NoneDangles, NEW p \in Handlers, Stage(p), CNameRoutePut(p)
    PROVE  NoneDangles'
  <1>0. PICK r, at, k : r = handler[p].req /\ at = handler[p].at /\ k = Key(p)
    OBVIOUS
  <1>1. handler[p].pc = "crouteput" /\ listener' = listener
    BY CNamePut
  <1>2. /\ IF r.httpOnly THEN Wanted(r, handler[p].parent) ELSE handler[p].parent = OwnListener
        /\ ~r.httpOnly => Exists(listener[<<r.app, at>>])
    BY <1>0, <1>1 DEF Stage, Attaches, CNamePCs
  <1>3. k = <<r.app, at>>
    BY <1>0 DEF Key
  <1>4. CASE route' = route
    BY <1>1, <1>4, SparesListeners
  <1>5. CASE /\ route'[k].parent = handler[p].parent
             /\ \A x \in RouteKeys : x # k => route'[x] = route[x]
    <2>1. handler[p].parent.onListener => Exists(listener[k])
      BY <1>2, <1>3 DEF Wanted
    <2> QED
      BY <1>1, <1>5, <2>1, ListenerIsRoute DEF NoneDangles, Hangs
  <1> QED
    BY <1>0, <1>4, <1>5, CNamePut

LEMMA ListenerPutThere ==
    ASSUME IInv, NoneDangles, NEW p \in Handlers, ListenerPut(p)
    PROVE  NoneDangles'
  <1> DEFINE k == Key(p)
             g == handler[p].parent
  <1>1. handler[p].pc = "listenerput"
    BY DEF ListenerPut, At
  <1>2. k \in ListenerKeys /\ g \in GatewayParent
    <2>1. handler[p].at \in CNames /\ handler[p].req.app \in Apps
      BY <1>1, EnsureAsks DEF EnsurePCs, IInv, Staged, StageOK
    <2>2. g \in GatewayParent
      BY <1>1 DEF IInv, Staged, StageOK
    <2> QED
      BY <2>1, <2>2 DEF Key, ListenerKeys
  <1>3. WriteListener(k, [rv |-> 0, parent |-> g]) \/ UNCHANGED cluster
    BY DEF ListenerPut, Upsert
  <1>4. CASE UNCHANGED cluster
    BY <1>4, SparesListeners DEF cluster, routes, listeners
  <1>5. CASE WriteListener(k, [rv |-> 0, parent |-> g])
    <2> HIDE DEF k, g
    <2>1. /\ Exists(listener'[k]) /\ route' = route
          /\ \A y \in ListenerKeys : y # k => listener'[y] = listener[y]
      BY <1>2, <1>5, ListenerPutLeaves
    <2> QED
      BY <2>1, SparesListeners
  <1> QED
    BY <1>3, <1>4, <1>5

\* The keys of the routes of prefixes and CNames differ.
LEMMA PrefixKeys ==
    ASSUME NEW a, NEW s \in Prefixes, NEW k \in ListenerKeys
    PROVE  k # <<a, s>>
  BY NamesAssumption DEF ListenerKeys

LEMMA PrefixPutThere ==
    ASSUME IInv, NoneDangles, NEW p \in Handlers, Stage(p), RoutePut(p) \/ AnnotatePut(p)
    PROVE  NoneDangles'
  <1>0. PICK r, k : r = handler[p].req /\ k = Key(p)
    OBVIOUS
  <1>1. handler[p].pc \in {"routeput", "annotput"}
    BY DEF RoutePut, AnnotatePut, At
  <1>2. r.app \in Apps /\ r.prefixes \subseteq Prefixes /\ Default \in r.prefixes
    BY <1>0, <1>1, EnsureAsks DEF EnsurePCs
  <1>3. handler[p].at \in Prefixes
    <2>1. handler[p].pc = "annotput" => handler[p].at = Default
      BY DEF IInv, Staged, StageOK
    <2>2. handler[p].pc = "routeput" => handler[p].at \in r.prefixes
      BY <1>0 DEF Stage, Exposes, At
    <2> QED
      BY <1>1, <1>2, <2>1, <2>2
  <1>4. \A y \in ListenerKeys : y # k
    BY <1>0, <1>3, PrefixKeys DEF Key
  <1>5. listener' = listener /\ \A x \in RouteKeys : x # k => route'[x] = route[x]
    <2>1. CASE RoutePut(p)
      BY <1>0, <2>1, PrefixPut
    <2>2. CASE AnnotatePut(p)
      <3>1. Exists(route[<<r.app, Default>>])
        <4>1. handler[p].pc = "annotput"
          BY <2>2 DEF AnnotatePut, At
        <4> QED
          BY <1>0, <1>2, <4>1 DEF Stage, Exposes, Within, PrefixMet, SweptPCs, ExposedPCs,
             MetFrozen, SuffixedPCs, ConfiguredPCs, EnsurePCs
      <3> QED
        BY <1>0, <2>2, <3>1, AnnotationPut
    <2> QED
      BY <2>1, <2>2
  <1>6. \A y \in ListenerKeys : route'[y] = route[y]
    BY <1>4, <1>5, ListenerIsRoute
  <1> QED
    BY <1>5, <1>6, SparesListeners

LEMMA StepListenerThere ==
    ASSUME IInv, FrozenCounted, InTurn, ListenerThere, NEW p \in Handlers, HandlerStep(p)
    PROVE  ListenerThere'
  <1> SUFFICES ASSUME Undisturbed' PROVE NoneDangles'
    BY DEF ListenerThere, NoneDangles, Hangs
  <1>1. faults' \in {faults, faults + 1} /\ events' \in {events, events + 1}
    BY DEF HandlerStep, Receive, Fail, LoopDone, Local, bounds, ConfigStep, SetGateway, GatewaySet,
           SetSuffix, SuffixSet, EnsureStep, RouteGet, RoutePut, ListObsolete, DeleteObsolete,
           AnyCNames, ReadCNames, ListenerGet, ListenerPut, CNameRouteGet, CNameRoutePut, DropCName,
           ListOrphans, DropOrphan, AnnotateGet, AnnotatePut, RemoveStep, ListRoutes, RemoveRoute,
           RemoveMain, ListCNameRoutes, RemoveCNameRoute, ListListenerSets, RemoveListenerSet,
           Upsert, ListTo, DeleteRouteIn, DeleteListenerIn, Doomed
  <1>2. Undisturbed /\ Alone(p)
    BY <1>1, StepWorks, StaysUndisturbed DEF Works
  <1>3. Stage(p) /\ NoneDangles
    BY <1>2 DEF InTurn, ListenerThere, NoneDangles, Hangs
  <1>4. CASE \/ DropOrphan(p) \/ RemoveListenerSet(p) \/ CNameRoutePut(p) \/ ListenerPut(p)
             \/ RoutePut(p) \/ AnnotatePut(p)
    BY <1>2, <1>3, <1>4, DropOrphanThere, RemoveListenerThere, CNameRouteThere, ListenerPutThere,
       PrefixPutThere
  <1>5. CASE ~(\/ DropOrphan(p) \/ RemoveListenerSet(p) \/ CNameRoutePut(p) \/ ListenerPut(p)
               \/ RoutePut(p) \/ AnnotatePut(p))
    <2>1. Spares
      BY <1>5, EnsureSpares, RemoveSpares, OtherSpares DEF HandlerStep
    <2>2. listener' = listener
      BY <1>5, ListenersStay
    <2> QED
      BY <1>3, <2>1, <2>2, ListenerIsRoute, SparesListeners DEF Spares, Exists
  <1> QED
    BY <1>4, <1>5

-----------------------------------------------------------------------------
(* The invariant.                                                          *)

LEMMA InitiallySerial == Init => IInvSerial
  <1> SUFFICES ASSUME Init PROVE IInvSerial
    OBVIOUS
  <1>1. IInv
    BY Initially
  <1>2. \A p \in Handlers : handler[p].pc = "idle"
    BY DEF Init, Idle
  <1>3. thawed = {} /\ \A k \in RouteKeys : ~Exists(route[k])
    BY DEF Init, Exists
  <1>4. \A a \in Apps : LabelledCNameRoutes(a) = {}
    BY <1>3, Keys DEF LabelledCNameRoutes
  <1>5. ASSUME NEW p \in Handlers
        PROVE  Stage(p)
    <2> USE <1>2 DEF RemovePCs, ConfiguredPCs, EnsurePCs, SuffixedPCs, ExposedPCs, SweptPCs,
                     AttachedPCs, CNamePCs, Within, At
    <2>1. ConfChosen(p) /\ Exposes(p) /\ Attaches(p)
      BY DEF ConfChosen, Exposes, Attaches
    <2>2. Removes(p)
      BY DEF Removes, MainGonePCs, CNamesGonePCs
    <2>3. Tracks(p)
      BY <1>4 DEF Tracks, RoutePuts, DetachedPCs
    <2> QED
      BY <2>1, <2>2, <2>3 DEF Stage
  <1>6. Asked /\ FrozenCounted /\ ListenerThere
    BY <1>2, <1>3, ListenerIsRoute DEF Asked, At, FrozenCounted, ListenerThere
  <1> QED
    BY <1>1, <1>5, <1>6 DEF IInvSerial, InTurn

LEMMA InductiveSerial == IInvSerial /\ [Next]_vars => IInvSerial'
  <1> SUFFICES ASSUME IInvSerial, [Next]_vars PROVE IInvSerial'
    OBVIOUS
  <1>0. IInv /\ Asked /\ FrozenCounted /\ InTurn /\ ListenerThere
    BY DEF IInvSerial
  <1>1. IInv'
    BY <1>0, Inductive
  <1>2. CASE UNCHANGED vars
    <2>1. UNCHANGED <<route, listener, conf, handler, faults, events, thawed>>
      BY <1>2 DEF vars, cluster, routes, listeners, bounds
    <2>2. Asked' /\ FrozenCounted'
      BY <1>0, <2>1 DEF Asked, At, FrozenCounted
    <2>3. ListenerThere'
      BY <1>0, <2>1 DEF ListenerThere, Undisturbed, Alone, At
    <2>4. ASSUME NEW p \in Handlers, Alone(p)'
          PROVE  Stage(p)'
      <3>1. Stage(p)
        BY <1>0, <2>1, <2>4 DEF InTurn, Alone, At
      <3>2. ConfChosen(p)'
        BY <2>1, <3>1 DEF Stage, ConfChosen, Service
      <3>3. Exposes(p)'
        BY <2>1, <3>1 DEF Stage, Exposes, Within, At, PrefixMet, PrefixSwept, MetFrozen
      <3>4. Attaches(p)'
        BY <2>1, <3>1 DEF Stage, Attaches, Within, At, CNameMet, MetFrozen
      <3>5. Removes(p)'
        BY <2>1, <3>1 DEF Stage, Removes, Within, At, LabelledRoutes, LabelledCNameRoutes,
           LabelledListenerSets
      <3>6. Undisturbed' => Undisturbed
        BY <2>1 DEF Undisturbed, Alone, At
      <3>7. Undisturbed' => Tracks(p)'
        BY <2>1, <3>1, <3>6 DEF Stage, Tracks, Within, At, KeyOf, LabelledCNameRoutes,
           ExistingCNames
      <3> QED
        BY <3>2, <3>3, <3>4, <3>5, <3>7 DEF Stage
    <2> QED
      BY <1>1, <2>2, <2>3, <2>4 DEF IInvSerial, InTurn
  <1>3. ASSUME NEW p \in Handlers, HandlerStep(p)
        PROVE  IInvSerial'
    BY <1>0, <1>1, <1>3, StepAsked, StepFrozenCounted, StepInTurn, StepListenerThere DEF IInvSerial
  <1>4. CASE Restart
    <2>1. UNCHANGED <<route, events, thawed>> /\ faults' = faults + 1 /\ faults \in Nat
      BY <1>0, <1>4 DEF Restart, cluster, routes, IInv, StateOK
    <2>2. FrozenCounted' /\ ListenerThere'
      BY <1>0, <2>1 DEF FrozenCounted, ListenerThere, Undisturbed
    <2>3. Asked'
      <3> SUFFICES ASSUME NEW p \in Handlers, ~At(p, "idle")' PROVE handler'[p].req \in Requests
        BY DEF Asked
      <3>1. handler'[p] = IF handler[p].pc \in Steps
                          THEN [Idle EXCEPT !.pc = "error", !.req = handler[p].req]
                          ELSE handler[p]
        BY <1>4 DEF Restart
      <3> QED
        BY <1>0, <3>1 DEF Asked, At, Idle, Steps
    <2> QED
      BY <1>0, <1>1, <1>4, <2>2, <2>3, RestartInTurn DEF IInvSerial
  <1>5. ASSUME NEW j \in RouteKeys, ToggleFreeze(j) \/ WriteStatus(j)
        PROVE  IInvSerial'
    <2>1. UNCHANGED handler /\ events' = events + 1 /\ events \in Nat
      BY <1>0, <1>5, EventWrites DEF IInv, StateOK
    <2>2. Asked' /\ FrozenCounted' /\ ListenerThere'
      BY <1>0, <2>1 DEF Asked, At, FrozenCounted, ListenerThere, Undisturbed
    <2>3. InTurn'
      <3> SUFFICES ASSUME NEW p \in Handlers, Alone(p)' PROVE Stage(p)'
        BY DEF InTurn
      <3>1. Stage(p)
        BY <1>0, <2>1 DEF InTurn, Alone, At
      <3> QED
        BY <1>0, <1>5, <3>1, EventStage
    <2> QED
      BY <1>1, <2>2, <2>3 DEF IInvSerial
  <1> QED
    BY <1>2, <1>3, <1>4, <1>5 DEF Next, HandlerStep

LEMMA InvariantSerial == Spec => []IInvSerial
  BY InitiallySerial, InductiveSerial, PTL DEF Spec

-----------------------------------------------------------------------------
\* A successful Ensure has exposed exactly the prefixes asked for, on the gateway
\* and with the domain suffix asked for, if the request names them, whatever failed
\* before it and whoever else writes to the cluster, any number of times.  Only the
\* routes are excepted that are frozen when it ends, or that an operator released
\* while it ran (ensureMainBackend, cleanupHTTPRoutes).
THEOREM EnsuredPrefixes == Spec => []PrefixesApplied
  <1>1. IInvSerial => PrefixesApplied
    <2> SUFFICES ASSUME IInvSerial, NEW p \in Handlers, Applied(p, "Ensure")
                 PROVE  LET r == handler[p].req IN
                        /\ \A s \in r.prefixes : PrefixMet(r, <<r.app, s>>)
                        /\ \A s \in Prefixes \ r.prefixes : PrefixSwept(<<r.app, s>>)
      BY DEF PrefixesApplied
    <2> QED
      BY DEF IInvSerial, InTurn, Applied, Stage, Exposes, Within
  <1> QED
    BY <1>1, InvariantSerial, PTL

\* A successful Ensure has attached the CNames it works on, under HTTPS each to
\* its own ListenerSet (ensureCNames), under the same conditions: the ListenerSets
\* always, the routes but for those frozen or just released.
THEOREM EnsuredCNamesAttached == Spec => []CNamesAttached
  <1>1. IInvSerial => CNamesAttached
    <2> SUFFICES ASSUME IInvSerial, NEW p \in Handlers, Applied(p, "Ensure")
                 PROVE  LET r == handler[p].req IN
                        \A c \in EnsuredCNames(r) :
                            CNameMet(r, <<r.app, c>>)
      BY DEF CNamesAttached
    <2> QED
      BY DEF IInvSerial, InTurn, Applied, Stage, Attaches, Within
  <1> QED
    BY <1>1, InvariantSerial, PTL

\* As long as nothing disturbs the requests, no route of a CName hangs from a
\* ListenerSet that is not there, at any step (the order of ensureCNames and
\* Remove).
THEOREM ListenersThere == Spec => []ListenerThere
  BY InvariantSerial, PTL DEF IInvSerial

\* As long as nothing disturbs the requests, a successful Ensure leaves no route
\* of a CName that it did not ask for: the annotation had told of all of them.
THEOREM EnsuredCNamesOnly == Spec => []NoOtherCNames
  <1>1. IInvSerial => NoOtherCNames
    <2> SUFFICES ASSUME IInvSerial, Undisturbed, NEW p \in Handlers, Applied(p, "Ensure"),
                        NEW c \in CNames \ handler[p].req.cnames
                 PROVE  ~Exists(route[<<App(p), c>>])
      BY DEF NoOtherCNames, OnlyItsCNames
    <2>1. LabelledCNameRoutes(handler[p].req.app) \subseteq handler[p].req.cnames
      BY DEF IInvSerial, InTurn, Applied, Stage, Tracks, Within
    <2> QED
      BY <2>1 DEF LabelledCNameRoutes, App
  <1> QED
    BY <1>1, InvariantSerial, PTL

\* A successful Remove has left nothing of the app, whatever failed before it and
\* whatever the annotation says (Remove goes by the labels).
THEOREM RemovedLeavesNothing == Spec => []RemovedIsGone
  <1>1. IInvSerial => RemovedIsGone
    <2> SUFFICES ASSUME IInvSerial, NEW p \in Handlers, Applied(p, "Remove")
                 PROVE  /\ \A s \in Slots : ~Exists(route[<<App(p), s>>])
                        /\ \A c \in CNames : ~Exists(listener[<<App(p), c>>])
      BY DEF RemovedIsGone
    <2>1. Removes(p) /\ Within(p, "Remove", {})
      BY DEF IInvSerial, InTurn, Applied, Stage, Within
    <2>2. /\ LabelledRoutes(App(p)) = {} /\ LabelledCNameRoutes(App(p)) = {}
          /\ LabelledListenerSets(App(p)) = {}
      BY <2>1 DEF Removes, Within, At, App
    <2> QED
      BY <2>2 DEF LabelledRoutes, LabelledCNameRoutes, LabelledListenerSets, Slots
  <1> QED
    BY <1>1, InvariantSerial, PTL
=============================================================================
