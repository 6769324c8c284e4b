---------------------------- MODULE AtomicService ----------------------------
(***************************************************************************)
(* What the load balancer backend promises of a Service: every Ensure      *)
(* takes effect at once, on the Service as it is then, whatever else       *)
(* happens meanwhile.                                                      *)
(***************************************************************************)
EXTENDS Exposing

CONSTANTS Requests, WebServices

VARIABLE svc        \* the Service as the cloud and the operators see it

\* A port alone with its number keeps its NodePort as long as its number is
\* exposed: firewalls and balancers outside the cluster know it.
KeepsNodes(old, new) ==
    \A e \in old, d \in new :
        /\ e.port.number = d.port.number
        /\ \A t \in old : t.port.number = e.port.number => t = e
        => d.node = e.node

\* The Service shows what the request r asks for on the web Service w.
Shows(r, w) ==
    /\ {e.port : e \in svc'.ports} = WantedPorts(r, w)
    /\ svc'.selector = w.selector
    /\ svc'.marks = w.marks
    /\ r.policy # Nil => svc'.policy = r.policy

Init == svc = Nil

Create ==
    /\ svc = Nil /\ svc' # Nil
    /\ \E r \in Requests \cap EnsureRequest, w \in WebServices : Shows(r, w)
    /\ ~svc'.frozen /\ ~svc'.terminating

\* A frozen Service is left alone; the deletion mark is not lifted.
Update ==
    /\ svc # Nil /\ svc' # Nil
    /\ ~svc.frozen /\ ~svc'.frozen
    /\ svc'.terminating = svc.terminating
    /\ \E r \in Requests \cap EnsureRequest, w \in WebServices :
        Shows(r, w) /\ (r.policy = Nil => svc'.policy = svc.policy)
    /\ KeepsNodes(svc.ports, svc'.ports)

Mark == svc # Nil /\ svc' = [svc EXCEPT !.terminating = TRUE]
Vanish == svc' = Nil
ToggleFreeze == svc # Nil /\ svc' = [svc EXCEPT !.frozen = ~@]

Next == Create \/ Update \/ Mark \/ Vanish \/ ToggleFreeze

Spec == Init /\ [][Next]_svc
=============================================================================
