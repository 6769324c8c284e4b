------------------------------ MODULE Exposing ------------------------------
(***************************************************************************)
(* What the load balancer backend (src/kubernetes/loadbalancer.go) is      *)
(* asked for and which ports that means: data and pure definitions.        *)
(*                                                                         *)
(* The name of a port only matters by being there or not, and of the list  *)
(* of ports of a web Service only the first one has a role of its own.     *)
(* Port numbers are scaled down: MaxPort stands for 65535 and Width for    *)
(* 2^32, so that every port is an int32.                                   *)
(***************************************************************************)
EXTENDS Integers, KubeAPI

CONSTANTS
    Targets,            \* target ports of the containers
    DefaultTarget,      \* defaultServicePort, of a web Service without ports
    DefaultPort,        \* defaultLBPort
    MaxPort,            \* the last valid port number
    Width,              \* the number of values of an int32
    Policies,           \* external traffic policies
    Selectors,          \* pod selectors of web Services
    Marks,              \* annotations of web Services
    NodePorts           \* the NodePorts of the cluster

ASSUME WidthAssumption ==
    /\ Width \in Nat \ {0} /\ MaxPort \in Nat /\ MaxPort < Width \div 2
    /\ DefaultPort \in 1..MaxPort /\ DefaultTarget \in Targets
ASSUME NilAssumption == Nil \notin Policies /\ Nil \notin NodePorts /\ Nil \notin Int

Port == [number : Int, protocol : {"TCP", "UDP"}, target : Targets, named : BOOLEAN]

\* exposed is the exposed-port option as strconv.Atoi reads it: Nil when it is
\* missing or no number.
EnsureRequest ==
    [op : {"Ensure"}, exposed : Int \cup {Nil}, all : BOOLEAN, policy : Policies \cup {Nil}]
RequestType == EnsureRequest \cup [op : {"Remove"}]

\* The web Service of an app; first is Nil when it has no ports.
WebService ==
    [first : Port \cup {Nil}, ports : SUBSET Port, selector : Selectors, marks : SUBSET Marks]

\* int32(n), in two's complement.
Int32(n) == ((n + Width \div 2) % Width) - Width \div 2

ExposedPort(r) == IF r.exposed \in {Nil, 0} THEN DefaultPort ELSE Int32(r.exposed)

ExtraPortUntargeted(r, w) ==                    \* mutation
    [number |-> ExposedPort(r),
     protocol |-> IF w.first = Nil THEN "TCP" ELSE w.first.protocol,
     target |-> IF w.first = Nil THEN Nil ELSE w.first.target,
     named |-> TRUE]

\* The extra port leads to the first port of the web Service.
ExtraPort(r, w) ==
    [number |-> ExposedPort(r),
     protocol |-> IF w.first = Nil THEN "TCP" ELSE w.first.protocol,
     target |-> IF w.first = Nil THEN DefaultTarget ELSE w.first.target,
     named |-> TRUE]

\* The ports of the load balancer: the extra one, and on request those of the web
\* Service whose number it does not take.
WantedPorts(r, w) ==
    {ExtraPort(r, w)} \cup
        (IF r.all THEN {q \in w.ports : q.number # ExposedPort(r)} ELSE {})
=============================================================================
