----------------------- MODULE LoadBalancerProperties -----------------------
(***************************************************************************)
(* What the load balancer backend promises, stated over LoadBalancer.      *)
(***************************************************************************)
EXTENDS LoadBalancer

\* The last request was an Ensure, and it succeeded on a Service that was not frozen;
\* all requests up to it came one after the other.
Applied(p) ==
    /\ At(p, "ok") /\ handler[p].req # Nil
    /\ \A q \in Handlers \ {p} : At(q, "idle")

\* The Get of this Ensure found a Service that Remove had marked and that stood only
\* for the finalizer of the cloud's controller.
FoundMarked(p) == Exists(handler[p].seen) /\ handler[p].seen.terminating

\* The extra port as the options name it: exposed-port where that is the number of a
\* port, the default without it; it leads where the web Service's first port does.
\* A number that is no port is refused by the server or wraps to one in the
\* int32: which one that is, is left open.
IsExtra(x, r, w) ==
    /\ r.exposed \in 1..MaxPort => x.number = r.exposed
    /\ r.exposed \in {Nil, 0} => x.number = DefaultPort
    /\ IF w.first = Nil THEN x.protocol = "TCP" /\ x.target = DefaultTarget
       ELSE x.protocol = w.first.protocol /\ x.target = w.first.target

\* No number is exposed for two protocols.
LoneNumbers(P) == \A q, s \in P : q.number = s.number => q = s

-----------------------------------------------------------------------------
\* What the Service must show for the request r on the web Service w: the extra
\* port, the ports of w whose number it leaves free when all are asked for,
\* nothing else, and each on a NodePort of its own.
ExposesAsked(r, w) ==
    LET P == {e.port : e \in service.ports} IN
    /\ \E x \in P :
        /\ IsExtra(x, r, w)
        /\ P \ {x} = IF r.all THEN {q \in w.ports : q.number # x.number} ELSE {}
    /\ service.selector = w.selector
    /\ w.marks \subseteq service.marks
    /\ r.policy # Nil => service.policy = r.policy
    /\ LoneNumbers(P) => \A e, d \in service.ports : e.node = d.node => e = d

\* A successful Ensure leaves the Service there, and it exposes what the request
\* asks of the web Service that was read, whatever was there before and
\* whatever failed (Ensure, portsForService, serviceHasChanges).  One Ensure is
\* left out of the first half: on a Service that Remove has marked it updates
\* nothing but what is about to vanish, and reports success all the same.
Exposed ==
    \A p \in Handlers : Applied(p) =>
        /\ ~FoundMarked(p) => Exists(service)
        /\ Exists(service) => ExposesAsked(handler[p].req, handler[p].web)

\* The same request once more, for the same web Service, is no change: tsuru may
\* repeat Ensure without the balancer being configured anew each time.  (Two
\* protocols on one number are left out: there the NodePorts are mixed up.)
Settled ==
    \A p \in Handlers : Applied(p) /\ Exists(service) =>
        LET r == handler[p].req
            w == handler[p].web
        IN  LoneNumbers(WantedPorts(r, w)) =>
                \A ports \in SentPorts(service, r, w) :
                    ~ServiceHasChanges(service, Manifest(service, r, w, ports))

-----------------------------------------------------------------------------
View(o) ==
    IF ~Exists(o) THEN Nil
    ELSE [terminating |-> o.terminating, frozen |-> o.frozen, ports |-> o.ports,
          selector |-> o.selector, policy |-> o.policy, marks |-> o.marks]

\* Nil is no record of this kind.
ASSUME ViewAssumption ==
    Nil \notin [terminating : BOOLEAN, frozen : BOOLEAN, ports : SUBSET NodePort,
                selector : Selectors, policy : Policies \cup {Nil}, marks : SUBSET Marks]

Abstract == INSTANCE AtomicService WITH svc <- View(service)

\* Every Ensure takes effect atomically (AtomicService): built from a Service
\* read earlier and sent later, it neither undoes what another request wrote in
\* between nor touches a Service frozen in between, and a port that stays
\* keeps its NodePort (TestLBUpdatePortDiffAndPreserveNodePort).
Atomic == Abstract!Spec
=============================================================================
