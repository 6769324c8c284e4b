--------------------------- MODULE MCLoadBalancer ---------------------------
(***************************************************************************)
(* A small instance of LoadBalancer for TLC.                               *)
(***************************************************************************)
EXTENDS LoadBalancerProperties, TLC

CONSTANTS t1, t2,       \* target ports
          m1            \* an annotation

PortOf(n, protocol, target, named) ==
    [number |-> n, protocol |-> protocol, target |-> target, named |-> named]

Ensure(n, all) == [op |-> "Ensure", exposed |-> n, all |-> all, policy |-> Nil]

\* With MaxPort = 99 and Width = 256: 344 is in an int32 the 88 of the web
\* Services, 120 is no port.
SomeRequests ==
    {Ensure(Nil, TRUE), Ensure(22, TRUE), Ensure(344, TRUE),
     Ensure(120, FALSE), [Ensure(22, FALSE) EXCEPT !.policy = "Local"],
     [op |-> "Remove"]}

Http == PortOf(88, "TCP", t1, TRUE)
Web(first, ports, selector, marks) ==
    [first |-> first, ports |-> ports, selector |-> selector, marks |-> marks]

\* One port without a name, two ports, two protocols on one number, none.
SomeWebServices ==
    {Web(PortOf(88, "TCP", t1, FALSE), {PortOf(88, "TCP", t1, FALSE)}, "v1", {}),
     Web(Http, {Http, PortOf(22, "TCP", t2, TRUE)}, "v2", {m1}),
     Web(Http, {Http, PortOf(53, "TCP", t2, TRUE), PortOf(53, "UDP", t2, TRUE)}, "v1", {}),
     Web(Nil, {}, "v1", {})}

\* Handlers are alike, and so are NodePorts.
Alike == Permutations(Handlers) \cup Permutations(NodePorts)
=============================================================================
