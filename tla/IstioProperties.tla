--------------------------- MODULE IstioProperties ---------------------------
(***************************************************************************)
(* What the Istio backend promises, stated over IstioGateway.              *)
(***************************************************************************)
EXTENDS IstioGateway

\* The requests came one after the other.
Serial == \E p \in Handlers : \A q \in Handlers \ {p} : At(q, "idle")

\* An id without a router instance: its Gateway is found under its own name, and no
\* other app has come to that name.
Plain(i) == \A j \in Ids : ResourceName[j] = ResourceName[i] => AppName[j] = ResourceName[i]

\* What the Ensure request r asks for is there; a VirtualService that is gone was
\* deleted by an operator.
Fulfilled(r) ==
    LET o == vs[ResourceName[r.id]] IN
    /\ AppName[r.id] \in gateway
    /\ Exists(o) =>
        /\ o.annotated = r.cnames
        /\ r.cnames \cup {GatewayHost[r.id], r.service} \subseteq o.hosts
        /\ ResourceName[r.id] \in o.gateways /\ r.service \in o.routes
        /\ events = 0 => o.hosts \cap CNames = r.cnames

-----------------------------------------------------------------------------
\* Every CName the annotation lists is a host of the VirtualService, however
\* requests and operators interleave: the annotation is all that a later
\* Ensure has to tell its own hosts from those of operators (vsAddHost,
\* vsRemoveHost).
AnnotationServed ==
    \A n \in Names : Exists(vs[n]) => vs[n].annotated \subseteq vs[n].hosts

\* No request takes out of a VirtualService what it did not put in: hosts that are
\* no CNames, destinations, other Gateways; also when they came after it read
\* the object (TestIstioGateway_Create_existingVirtualService).
KeepsOthersStep ==
    \A n \in Names, p \in Handlers :
        Exists(vs[n]) /\ (PutVS(p) \/ DetachVS(p)) =>
            /\ Exists(vs'[n])
            /\ vs[n].hosts \ CNames \subseteq vs'[n].hosts
            /\ vs[n].routes \subseteq vs'[n].routes
            /\ vs[n].gateways \ {n} \subseteq vs'[n].gateways
KeepsOthers == [][KeepsOthersStep]_vars

\* After an Ensure that did its work, whether it answered 200 or 409, the hosts of
\* the VirtualService and the CNames asked for agree, whatever failed before; the
\* Gateway of the app is there.
EnsureApplied ==
    \A p \in Handlers :
        Serial /\ handler[p].pc \in {"ok", "exists"} /\ handler[p].req.op = "Ensure" =>
            Fulfilled(handler[p].req)

\* A VirtualService refers to the Gateway of its app only while that is there, at
\* every step of a sequence of requests and wherever one of them stops: Ensure
\* makes the Gateway first, Remove deletes it last.  (Only for ids without an
\* instance: for the others Ensure makes a Gateway of another name.)
NoDangling ==
    Serial =>
        \A i \in Ids :
            LET n == ResourceName[i] IN
            Plain(i) /\ Exists(vs[n]) /\ n \in vs[n].gateways => n \in gateway

-----------------------------------------------------------------------------
(* Requests as operations on a VirtualService.                             *)

View(o) ==
    IF ~Exists(o) THEN Nil
    ELSE [cnames |-> o.annotated, hosts |-> o.hosts, routes |-> o.routes,
          gateways |-> o.gateways]

Views == [n \in Names |-> View(vs[n])]

\* What an Ensure may ask of the VirtualService n.
Wanted == [n \in Names |->
    {[cnames |-> r.cnames, host |-> GatewayHost[r.id], service |-> r.service] :
        r \in {r \in Requests : r.op = "Ensure" /\ ResourceName[r.id] = n}}]

\* Nil is no record of this kind.
ASSUME ViewAssumption ==
    Nil \notin [cnames : SUBSET CNames, hosts : SUBSET Hosts, routes : SUBSET Services,
                gateways : SUBSET (Names \cup {Mesh})]

Abstract == INSTANCE AtomicVirtualService
    WITH object <- Views, ByHand <- OtherHosts \cup CNames

\* Every request takes effect atomically on the VirtualService it writes
\* (AtomicVirtualService), on the one that is there then: of Ensures at the same time
\* the CNames of one are served, never a mixture, and host by host vsAddHost and
\* vsRemoveHost come to just those that were asked for.
Atomic == Abstract!Spec
=============================================================================
