---------------------------- MODULE IstioGateway ----------------------------
(***************************************************************************)
(* The Istio backend (src/kubernetes/istiogateway.go): Ensure and Remove   *)
(* of a Gateway and a VirtualService.  As in IngressService every request  *)
(* is a handler of its own and each call to the Kubernetes API one atomic  *)
(* step; any call may fail, and nothing is undone.                         *)
(*                                                                         *)
(* Abstractions.  A router instance of an app is an id.  Lists of hosts,   *)
(* gateways and destinations are sets; of the routes of a VirtualService   *)
(* only the first exists here, and of its destinations only the host.      *)
(* Labels, and annotations made of options, are left out, and so is the    *)
(* content of a Gateway.                                                   *)
(***************************************************************************)
EXTENDS Naturals, KubeAPI

CONSTANTS
    Ids,                \* apps and their router instances
    Names,              \* names of Gateways and VirtualServices
    AppName,            \* AppName[i]: the name of the app
    ResourceName,       \* ResourceName[i]: hashedResourceName, with the instance
    GatewayHost,        \* GatewayHost[i]: the host under the domain suffix
    CNames,
    Services,           \* the Services a request may expose
    OtherHosts,         \* hosts that operators put into a VirtualService
    Requests,           \* the requests that may arrive, see RequestType
    Handlers,
    MaxRequests,        \* bound: requests received
    MaxFaults,          \* bound: API calls that fail
    MaxEvents           \* bound: writes by operators

Mesh == "mesh"
AppHosts == {GatewayHost[i] : i \in Ids}
Hosts == CNames \cup Services \cup OtherHosts \cup AppHosts

EnsureRequest == [op : {"Ensure"}, id : Ids, cnames : SUBSET CNames, service : Services]
RemoveRequest == [op : {"Remove"}, id : Ids]
RequestType == EnsureRequest \cup RemoveRequest

ASSUME NamesAssumption ==
    /\ AppName \in [Ids -> Names] /\ ResourceName \in [Ids -> Names]
    /\ CNames \cap (Services \cup OtherHosts \cup AppHosts) = {}
ASSUME RequestsAssumption == Requests \subseteq RequestType /\ Nil \notin Requests
ASSUME BoundsAssumption ==
    MaxRequests \in Nat /\ MaxFaults \in Nat /\ MaxEvents \in Nat

VARIABLES
    gateway,            \* the names of the Gateways that are there
    vs,                 \* the VirtualServices, by name
    version,            \* the last resourceVersion given out to one
    handler, received, faults, events

services == <<vs, version>>
bounds == <<received, faults, events>>
vars == <<gateway, services, handler, bounds>>

\* annotated is the tsuru.io/additional-hosts annotation.
VirtualService ==
    [rv : Nat, gateways : SUBSET (Names \cup {Mesh}), hosts : SUBSET Hosts,
     annotated : SUBSET CNames, routes : SUBSET Services]
ASSUME NilAssumption == Nil \notin VirtualService

Steps == {"gateway", "get", "put", "find", "detach", "delete"}
\* "exists": everything is done, and the answer is 409.
Ends == {"idle", "ok", "exists", "error"}
Handler ==
    [pc : Steps \cup Ends, req : Requests \cup {Nil},
     seen : VirtualService \cup {Nil},  \* the VirtualService as read
     answer : {"ok", "exists"}]         \* once all is done: was the Gateway there before?

TypeOK ==
    /\ gateway \subseteq Names
    /\ vs \in [Names -> VirtualService \cup {Nil}]
    /\ version \in [Names -> Nat]
    /\ handler \in [Handlers -> Handler]
    /\ received \in Nat /\ faults \in Nat /\ events \in Nat

-----------------------------------------------------------------------------
(* The VirtualService that Ensure and Remove send.                         *)

New ==
    [rv |-> 0, gateways |-> {Mesh}, hosts |-> {}, annotated |-> {}, routes |-> {}]

CNamesToRemoveNone(annotated, cnames) == {}     \* mutation
CNamesToAdd(annotated, cnames) == cnames \ annotated
CNamesToRemove(annotated, cnames) == annotated \ cnames

\* vsAddHost and vsRemoveHost for every CName to add or to remove: each takes the
\* annotated hosts out and puts those now annotated in.  Without any, the hosts
\* stay as they are.
HostsOfAdded(hosts, annotated, cnames) ==       \* mutation
    (hosts \ (annotated \cup cnames)) \cup CNamesToAdd(annotated, cnames)
HostsOf(hosts, annotated, cnames) ==
    LET add == CNamesToAdd(annotated, cnames)
        remove == CNamesToRemove(annotated, cnames)
        known == annotated \cup add
    IN  IF add \cup remove = {} THEN hosts ELSE (hosts \ known) \cup (known \ remove)

AnnotatedAll(hosts, annotated, cnames) ==       \* mutation
    HostsOf(hosts, annotated, cnames)
AnnotatedOf(hosts, annotated, cnames) ==
    (annotated \ CNamesToRemove(annotated, cnames)) \cup CNamesToAdd(annotated, cnames)

\* The VirtualService o with what the request r says; what else is there stays.
Published(o, r) ==
    LET hosts == o.hosts \cup {GatewayHost[r.id], r.service} IN
    [o EXCEPT !.gateways = @ \cup {ResourceName[r.id]},
              !.hosts = HostsOf(hosts, o.annotated, r.cnames),
              !.annotated = AnnotatedOf(hosts, o.annotated, r.cnames),
              !.routes = @ \cup {r.service}]

DetachedKept(o, id) == o                        \* mutation
Detached(o, id) == [o EXCEPT !.gateways = @ \ {ResourceName[id]}]

-----------------------------------------------------------------------------
(* EXTERNAL: what the API server makes of a VirtualService.  An Update     *)
(* that changes nothing keeps the version.                                 *)

SentVersionUnset(seen) == 0                     \* mutation
SentVersion(seen) == seen.rv

Accepted(o, seen) ==
    IF Exists(seen) THEN Accepts(o, SentVersion(seen)) ELSE ~Exists(o)

Unchanged(o, m) == Exists(o) /\ [m EXCEPT !.rv = o.rv] = o
Write(n, m) ==
    IF Unchanged(vs[n], m) THEN UNCHANGED services
    ELSE /\ vs' = [vs EXCEPT ![n] = [m EXCEPT !.rv = version[n] + 1]]
         /\ version' = [version EXCEPT ![n] = @ + 1]

-----------------------------------------------------------------------------
Idle == [pc |-> "idle", req |-> Nil, seen |-> Nil, answer |-> "ok"]
At(p, step) == handler[p].pc = step
NameOf(p) == ResourceName[handler[p].req.id]
\* The handler returns; its request is kept for the record.
End(p, outcome) ==
    handler' = [handler EXCEPT ![p] = [Idle EXCEPT !.pc = outcome, !.req = handler[p].req]]

Init ==
    /\ gateway = {}
    /\ vs = [n \in Names |-> Nil] /\ version = [n \in Names |-> 0]
    /\ handler = [p \in Handlers |-> Idle]
    /\ received = 0 /\ faults = 0 /\ events = 0

Receive(p) ==
    /\ handler[p].pc \in Ends
    /\ received < MaxRequests
    /\ \E r \in Requests :
        handler' = [handler EXCEPT ![p] =
            [Idle EXCEPT !.pc = IF r.op = "Ensure" THEN "gateway" ELSE "find", !.req = r]]
    /\ received' = received + 1
    /\ UNCHANGED <<gateway, services, faults, events>>

\* A call fails, or finds no web Service.
Fail(p) ==
    /\ handler[p].pc \in Steps
    /\ faults < MaxFaults /\ faults' = faults + 1
    /\ End(p, "error")
    /\ UNCHANGED <<gateway, services, received, events>>

-----------------------------------------------------------------------------
(* Ensure.                                                                 *)

\* The Gateway has the name of the app, whatever the instance; one that is there
\* is no reason to stop.
CreateGateway(p) ==
    LET name == AppName[handler[p].req.id]
        answer == IF name \in gateway THEN "exists" ELSE "ok"
    IN
    /\ At(p, "gateway")
    /\ gateway' = gateway \cup {name}
    /\ handler' = [handler EXCEPT ![p] = [@ EXCEPT !.pc = "get", !.answer = answer]]
    /\ UNCHANGED <<services, bounds>>

GetVS(p) ==
    /\ At(p, "get")
    /\ handler' = [handler EXCEPT ![p] = [@ EXCEPT !.pc = "put", !.seen = vs[NameOf(p)]]]
    /\ UNCHANGED <<gateway, services, bounds>>

\* Create or Update, as the Get found it.
PutVS(p) ==
    LET h == handler[p] IN
    /\ At(p, "put")
    /\ \/ /\ Accepted(vs[NameOf(p)], h.seen)
          /\ Write(NameOf(p), Published(IF Exists(h.seen) THEN h.seen ELSE New, h.req))
          /\ End(p, h.answer)
       \/ /\ ~Accepted(vs[NameOf(p)], h.seen)
          /\ End(p, "error")
          /\ UNCHANGED services
    /\ UNCHANGED <<gateway, bounds>>

-----------------------------------------------------------------------------
(* Remove: what is not there is an error.                                  *)

RemoveGet(p) ==
    /\ At(p, "find")
    /\ \/ ~Exists(vs[NameOf(p)]) /\ End(p, "error")
       \/ /\ Exists(vs[NameOf(p)])
          /\ handler' = [handler EXCEPT ![p] = [@ EXCEPT !.pc = "detach", !.seen = vs[NameOf(p)]]]
    /\ UNCHANGED <<gateway, services, bounds>>

DetachVS(p) ==
    LET h == handler[p] IN
    /\ At(p, "detach")
    /\ \/ /\ Accepted(vs[NameOf(p)], h.seen)
          /\ Write(NameOf(p), Detached(h.seen, h.req.id))
          /\ handler' = [handler EXCEPT ![p] = [@ EXCEPT !.pc = "delete", !.seen = Nil]]
       \/ /\ ~Accepted(vs[NameOf(p)], h.seen)
          /\ End(p, "error")
          /\ UNCHANGED services
    /\ UNCHANGED <<gateway, bounds>>

DeleteGateway(p) ==
    /\ At(p, "delete")
    /\ gateway' = gateway \ {NameOf(p)}
    /\ End(p, IF NameOf(p) \in gateway THEN "ok" ELSE "error")
    /\ UNCHANGED <<services, bounds>>

-----------------------------------------------------------------------------
(* EXTERNAL: operators.                                                    *)

Event == events < MaxEvents /\ events' = events + 1 /\ UNCHANGED <<received, faults>>

\* An operator adds hosts by hand, possibly one that is a CName as well.
AddHost(n, host) ==
    /\ Exists(vs[n]) /\ host \notin vs[n].hosts /\ Event
    /\ vs' = [vs EXCEPT ![n].hosts = @ \cup {host}, ![n].rv = version[n] + 1]
    /\ version' = [version EXCEPT ![n] = @ + 1]
    /\ UNCHANGED <<gateway, handler>>

\* An operator deletes the VirtualService, which Remove never does.
DeleteVS(n) ==
    /\ Exists(vs[n]) /\ Event
    /\ vs' = [vs EXCEPT ![n] = Nil]
    /\ UNCHANGED <<gateway, version, handler>>

-----------------------------------------------------------------------------
EnsureStep(p) == CreateGateway(p) \/ GetVS(p) \/ PutVS(p)
RemoveStep(p) == RemoveGet(p) \/ DetachVS(p) \/ DeleteGateway(p)

Next ==
    \/ \E p \in Handlers : Receive(p) \/ Fail(p) \/ EnsureStep(p) \/ RemoveStep(p)
    \/ \E n \in Names : DeleteVS(n) \/ \E host \in OtherHosts \cup CNames : AddHost(n, host)

Spec == Init /\ [][Next]_vars
=============================================================================
