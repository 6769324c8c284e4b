---------------------------- MODULE LoadBalancer ----------------------------
(***************************************************************************)
(* The load balancer backend (src/kubernetes/loadbalancer.go): Ensure and  *)
(* Remove of LBService on the Service of one app; the Services of two apps *)
(* are two objects, and LBService keeps nothing between requests.  Every   *)
(* request is a handler of its own, each call to the API server one step,  *)
(* any call may fail.                                                      *)
(*                                                                         *)
(* Abstractions.  The annotations made of the options are the request      *)
(* itself; the marks are the annotations copied from the web Service.      *)
(* Labels are only added to, and of them only the freeze label matters,    *)
(* which no web Service carries.  Of the list of ports the order does not  *)
(* matter, and the policy Nil stands for the one the server defaults to.   *)
(***************************************************************************)
EXTENDS Exposing

CONSTANTS
    Requests,           \* the requests that may arrive
    WebServices,        \* what the web Service of the app may be
    Handlers,
    MaxRequests,        \* bound: requests received
    MaxFaults,          \* bound: API calls that fail
    MaxEvents           \* bound: writes by others

ASSUME RequestsAssumption == Requests \subseteq RequestType /\ Nil \notin Requests
ASSUME WebAssumption ==
    /\ WebServices \subseteq WebService /\ Nil \notin WebServices
    /\ \A w \in WebServices : IF w.ports = {} THEN w.first = Nil ELSE w.first \in w.ports
ASSUME BoundsAssumption ==
    MaxRequests \in Nat /\ MaxFaults \in Nat /\ MaxEvents \in Nat

VARIABLES
    service,            \* the LoadBalancer Service
    version,            \* the last resourceVersion given out to it
    web,                \* the web Service
    handler, received, faults, events

cluster == <<service, version>>
bounds == <<received, faults, events>>
vars == <<cluster, web, handler, bounds>>

\* A port of the Service with its NodePort, Nil when it is sent without one.
NodePort == [port : Port, node : NodePorts]
SentPort == [port : Port, node : NodePorts \cup {Nil}]
Numbered(P, n) == {e \in P : e.port.number = n}

Service ==
    [rv : Nat, terminating : BOOLEAN, frozen : BOOLEAN, ports : SUBSET NodePort,
     selector : Selectors, policy : Policies \cup {Nil},
     opts : Requests, marks : SUBSET Marks]
ASSUME ServiceAssumption == Nil \notin Service

Steps == {"get", "web", "put", "find", "delete"}
Ends == {"idle", "ok", "error"}
Handler ==
    [pc : Steps \cup Ends, req : Requests \cup {Nil},
     seen : Service \cup {Nil},         \* the Service as the Get returned it
     web : WebServices \cup {Nil}]      \* the web Service as read

TypeOK ==
    /\ service \in Service \cup {Nil}
    /\ version \in Nat
    /\ web \in WebServices \cup {Nil}
    /\ handler \in [Handlers -> Handler]
    /\ received \in Nat /\ faults \in Nat /\ events \in Nat

-----------------------------------------------------------------------------
(* The pure functions of the service.                                      *)

IsFrozenSvc(o) == Exists(o) /\ o.frozen

\* The NodePorts of the ports with number n.
NodesOf(o, n) ==
    IF Exists(o) THEN {e.node : e \in Numbered(o.ports, n)} ELSE {}

\* The NodePort a port with number n is sent with: that of a port with this
\* number now, the last one listed when two protocols share it.
KeptNodesNone(o, n) == {Nil}                    \* mutation
KeptNodes(o, n) == IF NodesOf(o, n) = {} THEN {Nil} ELSE NodesOf(o, n)

\* The ports as portsForService sends them, from the Service o: one NodePort for
\* each number.
SentNodes(o, r, w) ==
    {m \in [WantedPorts(r, w) -> NodePorts \cup {Nil}] :
        \A q \in WantedPorts(r, w) :
            /\ m[q] \in KeptNodes(o, q.number)
            /\ \A s \in WantedPorts(r, w) : q.number = s.number => m[q] = m[s]}
WithNodes(m) == {[port |-> q, node |-> m[q]] : q \in DOMAIN m}
SentPorts(o, r, w) == {WithNodes(m) : m \in SentNodes(o, r, w)}

\* The Service Ensure sends: o with what the request and the web Service say.
Manifest(o, r, w, ports) ==
    [rv |-> IF Exists(o) THEN o.rv ELSE 0,
     terminating |-> Exists(o) /\ o.terminating,
     frozen |-> FALSE,
     ports |-> ports,
     selector |-> w.selector,
     policy |-> IF r.policy # Nil THEN r.policy ELSE IF Exists(o) THEN o.policy ELSE Nil,
     opts |-> r,
     marks |-> w.marks]

ServiceHasChangesButPorts(o, m) ==              \* mutation
    m.selector # o.selector \/ m.policy # o.policy \/ ~(m.marks \subseteq o.marks)
\* An annotation that is there and no longer sent is no change.
ServiceHasChanges(o, m) ==
    \/ m.ports # o.ports \/ m.selector # o.selector \/ m.policy # o.policy
    \/ m.opts # o.opts
    \/ ~(m.marks \subseteq o.marks)

-----------------------------------------------------------------------------
(* EXTERNAL: what the API server makes of a Service.                       *)

\* Valid numbers, and names as soon as there are two ports.
ValidPorts(P) ==
    \A e \in P : e.port.number \in 1..MaxPort /\ \A d \in P : e # d => e.port.named

\* The server gives a port sent without NodePort one of its own.
Allocations(P) ==
    {f \in [P -> NodePorts] :
        \A e \in P :
            IF e.node # Nil THEN f[e] = e.node ELSE \A d \in P : e # d => f[e] # f[d]}
Allocated(P, f) == {[port |-> e.port, node |-> f[e]] : e \in P}

Store(m) ==
    /\ \E f \in Allocations(m.ports) :
        service' = [m EXCEPT !.ports = Allocated(m.ports, f), !.rv = version + 1]
    /\ version' = version + 1

-----------------------------------------------------------------------------
Idle == [pc |-> "idle", req |-> Nil, seen |-> Nil, web |-> Nil]
At(p, step) == handler[p].pc = step
\* The handler returns.  Of an Ensure that went through, the request and what it
\* read are kept for the record.
End(p, outcome) == handler' = [handler EXCEPT ![p] = [Idle EXCEPT !.pc = outcome]]
Succeed(p) == handler' = [handler EXCEPT ![p].pc = "ok"]
Local == UNCHANGED <<cluster, web, bounds>>

Init ==
    /\ service = Nil /\ version = 0
    /\ web \in WebServices
    /\ handler = [p \in Handlers |-> Idle]
    /\ received = 0 /\ faults = 0 /\ events = 0

Receive(p) ==
    /\ handler[p].pc \in Ends
    /\ received < MaxRequests
    /\ \E r \in Requests :
        handler' = [handler EXCEPT ![p] =
            [Idle EXCEPT !.pc = IF r.op = "Ensure" THEN "get" ELSE "find", !.req = r]]
    /\ received' = received + 1
    /\ UNCHANGED <<cluster, web, faults, events>>

Fail(p) ==
    /\ handler[p].pc \in Steps
    /\ faults < MaxFaults /\ faults' = faults + 1
    /\ End(p, "error")
    /\ UNCHANGED <<cluster, web, received, events>>

-----------------------------------------------------------------------------
(* Ensure.                                                                 *)

EnsureGet(p) ==
    /\ At(p, "get")
    /\ \/ IsFrozenSvc(service) /\ End(p, "ok")
       \/ /\ ~IsFrozenSvc(service)
          /\ handler' = [handler EXCEPT ![p].pc = "web", ![p].seen = service]
    /\ Local

\* Without a web Service the app is not deployed yet: an error.
GetWebService(p) ==
    /\ At(p, "web")
    /\ \/ ~Exists(web) /\ End(p, "error")
       \/ Exists(web) /\ handler' = [handler EXCEPT ![p].pc = "put", ![p].web = web]
    /\ Local

EnsureCreate(p) ==
    LET h == handler[p] IN
    /\ At(p, "put") /\ ~Exists(h.seen)
    /\ \E ports \in SentPorts(Nil, h.req, h.web) :
        \/ /\ ~Exists(service) /\ ValidPorts(ports)
           /\ Store(Manifest(Nil, h.req, h.web, ports))
           /\ Succeed(p)
        \/ /\ Exists(service) \/ ~ValidPorts(ports)
           /\ End(p, "error")
           /\ UNCHANGED cluster
    /\ UNCHANGED <<web, bounds>>

\* The whole object goes back, with the version that was read.
SentVersionUnset(seen) == 0                     \* mutation
SentVersion(seen) == seen.rv

EnsureUpdate(p) ==
    LET h == handler[p] IN
    /\ At(p, "put") /\ Exists(h.seen)
    /\ \E ports \in SentPorts(h.seen, h.req, h.web) :
        LET m == Manifest(h.seen, h.req, h.web, ports)
            accepted == Accepts(service, SentVersion(h.seen)) /\ ValidPorts(ports)
        IN
        \/ /\ ~ServiceHasChanges(h.seen, m)
           /\ Succeed(p)
           /\ UNCHANGED cluster
        \/ /\ ServiceHasChanges(h.seen, m) /\ accepted
           /\ Store(m)
           /\ Succeed(p)
        \/ /\ ServiceHasChanges(h.seen, m) /\ ~accepted
           /\ End(p, "error")
           /\ UNCHANGED cluster
    /\ UNCHANGED <<web, bounds>>

-----------------------------------------------------------------------------
(* Remove: a Get and a Delete; a Service that is not there is no error.    *)

RemoveGet(p) ==
    /\ At(p, "find")
    /\ \/ ~Exists(service) /\ End(p, "ok")
       \/ Exists(service) /\ handler' = [handler EXCEPT ![p].pc = "delete"]
    /\ Local

\* The Service goes, or is marked while the cloud's controller has a finalizer
\* on it.
RemoveDelete(p) ==
    /\ At(p, "delete")
    /\ \/ service' = Nil /\ UNCHANGED version
       \/ /\ Exists(service)
          /\ service' = Marked(service, version + 1)
          /\ version' = version + 1
    /\ End(p, "ok")
    /\ UNCHANGED <<web, bounds>>

-----------------------------------------------------------------------------
(* EXTERNAL: writes by others.                                             *)

\* The cloud's controller has torn the balancer down and drops its finalizer.
Release ==
    /\ Exists(service) /\ service.terminating
    /\ service' = Nil
    /\ UNCHANGED <<version, web, handler, bounds>>

Event == events < MaxEvents /\ events' = events + 1 /\ UNCHANGED <<received, faults>>

\* It writes the status.
WriteStatus ==
    /\ Exists(service) /\ Event
    /\ service' = [service EXCEPT !.rv = version + 1]
    /\ version' = version + 1
    /\ UNCHANGED <<web, handler>>

\* An operator sets or clears the freeze label.
ToggleFreeze ==
    /\ Exists(service) /\ Event
    /\ service' = [service EXCEPT !.frozen = ~@, !.rv = version + 1]
    /\ version' = version + 1
    /\ UNCHANGED <<web, handler>>

\* The app is deployed anew, or taken down.
Deploy ==
    /\ Event
    /\ web' \in (WebServices \cup {Nil}) \ {web}
    /\ UNCHANGED <<cluster, handler>>

-----------------------------------------------------------------------------
EnsureStep(p) == EnsureGet(p) \/ GetWebService(p) \/ EnsureCreate(p) \/ EnsureUpdate(p)
RemoveStep(p) == RemoveGet(p) \/ RemoveDelete(p)

Next ==
    \/ \E p \in Handlers : Receive(p) \/ Fail(p) \/ EnsureStep(p) \/ RemoveStep(p)
    \/ Release \/ WriteStatus \/ ToggleFreeze \/ Deploy

Spec == Init /\ [][Next]_vars
=============================================================================
