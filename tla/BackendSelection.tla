-------------------------- MODULE BackendSelection --------------------------
(***************************************************************************)
(* Which router answers a request: the routers that main.go makes of the   *)
(* flag -controller-modes, LocalCluster.Router and MultiCluster.Router     *)
(* (src/backend).  A router is the kind of its service, the ingress class  *)
(* (which stands for the annotations prefix as well: the two are set       *)
(* together) and the cluster its clients talk to.                          *)
(***************************************************************************)
EXTENDS Naturals, Sequences

CONSTANTS
    FlagClass,          \* the value of -ingress-class
    InCluster           \* the cluster the daemon runs in

\* What the daemon is told to run: main.go's switch, without its fallthrough.
LocalKind(mode) ==
    CASE mode = "gateway-api" -> "GatewayAPIService"
      [] mode = "istio-gateway" -> "IstioGateway"
      [] mode \in {"ingress-nginx", "ingress"} -> "IngressService"
      [] mode \in {"service", "loadbalancer"} -> "LBService"
      [] OTHER -> "unknown"

\* The modes of MultiCluster.Router.
RemoteKind(mode) ==
    CASE mode = "gateway-api" -> "GatewayAPIService"
      [] mode = "istio-gateway" -> "IstioGateway"
      [] mode \in {"nginx-ingress", "ingress"} -> "IngressService"
      [] mode \in {"service", "loadbalancer", ""} -> "LBService"
      [] OTHER -> "unknown"

\* mutation: every ingress mode falls through the assignment
ClassAfterAny(mode, class) == IF LocalKind(mode) = "IngressService" THEN "nginx" ELSE class

\* The mode ingress-nginx writes the flag itself, which later modes read.
ClassAfter(mode, class) == IF mode = "ingress-nginx" THEN "nginx" ELSE class

LocalRouter(mode, class) ==
    [kind |-> LocalKind(mode),
     class |-> IF LocalKind(mode) = "IngressService" THEN class ELSE "",
     cluster |-> InCluster]

RemoteRouter(mode, cluster) ==
    [kind |-> RemoteKind(mode),
     class |-> IF mode = "nginx-ingress" THEN "nginx" ELSE "",
     cluster |-> cluster]

\* The clusters file: auth tells which of exec and authProvider are there, ca
\* whether there is one and it is base64.
ClusterConfig ==
    [name : STRING, default : BOOLEAN, address : STRING,
     auth : {"none", "exec", "provider", "both"}, ca : {"none", "good", "bad"}]

\* The zero ClusterConfig.
NoCluster == [name |-> "", default |-> FALSE, address |-> "", auth |-> "none", ca |-> "none"]

\* Where the loop over the clusters stands: the one selected so far, and whether
\* the loop has ended.
Choice == [ended : BOOLEAN, cluster : ClusterConfig \cup {NoCluster}]
NoChoice == [ended |-> FALSE, cluster |-> NoCluster]

\* mutation: the loop goes on after the cluster of the name
ConsiderClusterOn(name, choice, cluster) ==
    IF cluster.name = name \/ cluster.default THEN [choice EXCEPT !.cluster = cluster] ELSE choice

\* One round of the loop: a default cluster is kept, one of the name ends it.
ConsiderCluster(name, choice, cluster) ==
    CASE cluster.name = name -> [ended |-> TRUE, cluster |-> cluster]
      [] cluster.name # name /\ cluster.default -> [choice EXCEPT !.cluster = cluster]
      [] OTHER -> choice

\* getKubeConfigFromSettings: is there a configuration, and which?
SettingsUsable(cluster) ==
    cluster.name # "" /\ cluster.auth # "both" /\ cluster.ca # "bad"
SettingsConfig(cluster, address) ==
    [host |-> IF cluster.address # "" THEN cluster.address ELSE address,
     credentials |-> cluster.name]

\* getKubeConfigFromHeader: host and credentials are those of the header.
HeaderConfig == [host |-> "kubeconfig", credentials |-> "kubeconfig"]
=============================================================================
