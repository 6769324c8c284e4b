--------------------------- MODULE RequestIntake ---------------------------
(***************************************************************************)
(* What happens to a request before a backend sees it: the daemon starts   *)
(* with its flags and its clusters file (cmd/router/main.go), a handler of *)
(* api/api.go decodes the body and asks the backend for a router, and the  *)
(* router is called or the request is answered with an error.  Nothing     *)
(* here is shared between requests: they are taken one after the other.    *)
(*                                                                         *)
(* Every loop over the modes, the headers, the options and the clusters is *)
(* taken round by round.  Go ranges over the map of the options in any     *)
(* order, and each round may overwrite the error of the one before.        *)
(***************************************************************************)
EXTENDS Opts, BackendSelection

CONSTANTS
    Setups,             \* the ways to run the daemon, see SetupType
    Requests,           \* Requests[m]: the requests of the mix m
    Nil,
    Absent, Null, Malformed \* bodies without "opts", with null there, not to be decoded

ModeNames == {"", "service", "loadbalancer", "ingress", "ingress-nginx", "nginx-ingress",
              "istio-gateway", "gateway-api", "other"}

\* The X-Tsuru-Cluster headers of a request: name, address, kube-config.  Info
\* stands for every request without options.
InfoRequest ==
    [op : {"Info"}, mode : ModeNames, name : STRING, address : STRING,
     kubeConfig : {"", "good", "bad"}]
EnsureRequest ==
    [op : {"Ensure"}, mode : ModeNames, name : STRING, address : STRING,
     kubeConfig : {"", "good", "bad"},
     body : Objects \cup {Absent, Null, Malformed}, headers : Seq(HeaderOpt)]
\* Without a clusters file, clusters is Nil.
SetupType ==
    [modes : Seq(ModeNames \ {""}), clusters : Seq(ClusterConfig) \cup {Nil},
     mix : DOMAIN Requests]

ASSUME BodyAssumption == Absent # Null /\ Absent # Malformed /\ Null # Malformed
ASSUME SetupsAssumption == Setups \subseteq SetupType
ASSUME RequestsAssumption ==
    \A mix \in DOMAIN Requests : Requests[mix] \subseteq InfoRequest \cup EnsureRequest

VARIABLES
    setup,              \* the flags, the clusters file and the mix of requests
    started,            \* the modes main.go has gone through
    class,              \* the flag -ingress-class as main.go has left it
    routers,            \* LocalCluster.Routers
    pc, request,
    round,              \* the rounds done of the loop over headers or clusters
    object, todo,       \* the map of UnmarshalJSON, the names yet to come
    opts,
    choice,             \* the cluster selected of the clusters file
    router              \* the router found, or Nil

config == <<setup, started, class, routers>>
decoding == <<object, todo, opts>>
vars == <<config, pc, request, round, decoding, choice, router>>

\* main.go: runModes, and the mode of a request without one.
Enabled == IF setup.modes = <<>> THEN <<"service">> ELSE setup.modes
DefaultMode == Enabled[1]

\* Where a request ends: with a call of the router, or an answer of the API.
Ends == {"served", "notfound", "error", "panic"}

Init ==
    /\ setup \in Setups
    /\ started = 0
    /\ class = FlagClass
    /\ routers = <<>>
    /\ pc = "starting"
    /\ request = Nil /\ round = 0 /\ object = <<>> /\ todo = {} /\ opts = NoOpts
    /\ choice = NoChoice /\ router = Nil

\* main.go, the loop over runModes; an unknown mode ends the daemon.
StartMode ==
    /\ pc = "starting" /\ started < Len(Enabled)
    /\ LET mode == Enabled[started + 1] IN
        /\ class' = ClassAfter(mode, class)
        /\ routers' = IF LocalKind(mode) = "unknown" THEN routers
                      ELSE [m \in DOMAIN routers \cup {mode} |->
                              IF m = mode THEN LocalRouter(mode, class') ELSE routers[m]]
        /\ pc' = IF LocalKind(mode) = "unknown" THEN "fatal" ELSE pc
    /\ started' = started + 1
    /\ UNCHANGED <<setup, request, round, decoding, choice, router>>

\* The clusters file was read; StartDaemon listens.
Listen ==
    /\ pc = "starting" /\ started = Len(Enabled)
    /\ pc' = "idle"
    /\ UNCHANGED <<config, request, round, decoding, choice, router>>

-----------------------------------------------------------------------------
\* A request without a body to decode.
ReceivePlain ==
    /\ pc = "idle"
    /\ \E r \in Requests[setup.mix] :
        /\ r.op = "Info"
        /\ request' = r
    /\ pc' = "select"
    /\ UNCHANGED <<config, round, decoding, choice, router>>

\* ensureBackend: the headers become HeaderOpts, and UnmarshalJSON is called for
\* the "opts" of the body, if any.  A null leaves its map nil, and the first
\* header is stored into it.
ReceiveEnsure ==
    /\ pc = "idle"
    /\ \E r \in Requests[setup.mix] :
        /\ r.op = "Ensure"
        /\ request' = r
        /\ pc' = CASE r.body = Malformed -> "error"
                   [] r.body = Null /\ r.headers # <<>> -> "panic"
                   [] r.body \in {Absent, Null} -> "assign"
                   [] OTHER -> "headers"
        /\ object' = IF r.body \in {Absent, Null, Malformed} THEN <<>> ELSE r.body
    /\ UNCHANGED <<config, round, todo, opts, choice, router>>

\* One round of the loop over HeaderOpts.
MergeHeader ==
    /\ pc = "headers" /\ round < Len(request.headers)
    /\ object' = AddHeader(object, request.headers[round + 1])
    /\ round' = round + 1
    /\ UNCHANGED <<config, pc, request, todo, opts, choice, router>>

\* The map is complete, and the loop over it begins.
Merged ==
    /\ pc = "headers" /\ round = Len(request.headers)
    /\ pc' = "assign"
    /\ todo' = DOMAIN object
    /\ UNCHANGED <<config, request, round, object, opts, choice, router>>

\* One option of the map, in any order.
AssignOption ==
    /\ pc = "assign"
    /\ \E n \in todo :
        /\ opts' = Assigned(opts, n, object[n])
        /\ todo' = todo \ {n}
    /\ UNCHANGED <<config, pc, request, round, object, choice, router>>

\* UnmarshalJSON returns; its error ends the request.
Decoded ==
    /\ pc = "assign" /\ todo = {}
    /\ pc' = IF opts.failed THEN "error" ELSE "select"
    /\ UNCHANGED <<config, request, round, decoding, choice, router>>

-----------------------------------------------------------------------------
Serve(found) == router' = found /\ pc' = "served"
Refuse(answer) == router' = Nil /\ pc' = answer

\* LocalCluster.Router, with ErrBackendNotFound as RouterAPI.router answers it.
SelectLocal(mode) ==
    LET m == IF mode = "" THEN DefaultMode ELSE mode IN
    IF m \in DOMAIN routers THEN Serve(routers[m]) ELSE Refuse("notfound")

\* MultiCluster.Router once it has a configuration; making the client of it
\* may fail.
SelectRemote(mode, cluster) ==
    \/ Refuse("error")
    \/ RemoteKind(mode) # "unknown" /\ Serve(RemoteRouter(mode, cluster))

\* Is the request one for the local cluster?
Local(r) == setup.clusters = Nil \/ (r.kubeConfig = "" /\ r.address = "")

\* Backend.Router, when the clusters file is not needed.
Select ==
    /\ pc = "select"
    /\ \/ Local(request) /\ SelectLocal(request.mode)
       \/ ~Local(request) /\ request.kubeConfig = "bad" /\ Refuse("error")
       \/ ~Local(request) /\ request.kubeConfig = "good"
          /\ SelectRemote(request.mode, HeaderConfig)
    /\ UNCHANGED <<config, request, round, decoding, choice>>

\* getKubeConfigFromSettings begins.
LookUpCluster ==
    /\ pc = "select" /\ ~Local(request) /\ request.kubeConfig = ""
    /\ pc' = "clusters"
    /\ round' = 0 /\ choice' = NoChoice
    /\ UNCHANGED <<config, request, decoding, router>>

\* One round of its loop over the clusters.
Consider ==
    /\ pc = "clusters" /\ ~choice.ended /\ round < Len(setup.clusters)
    /\ choice' = ConsiderCluster(request.name, choice, setup.clusters[round + 1])
    /\ round' = round + 1
    /\ UNCHANGED <<config, pc, request, decoding, router>>

\* After the loop.
SelectSettled ==
    /\ pc = "clusters" /\ (choice.ended \/ round = Len(setup.clusters))
    /\ IF SettingsUsable(choice.cluster)
       THEN SelectRemote(request.mode, SettingsConfig(choice.cluster, request.address))
       ELSE Refuse("error")
    /\ UNCHANGED <<config, request, round, decoding, choice>>

\* The handler returns, and the next request may come.
Return ==
    /\ pc \in Ends
    /\ pc' = "idle"
    /\ request' = Nil /\ round' = 0 /\ object' = <<>> /\ todo' = {} /\ opts' = NoOpts
    /\ choice' = NoChoice /\ router' = Nil
    /\ UNCHANGED config

Next ==
    \/ StartMode \/ Listen
    \/ ReceivePlain \/ ReceiveEnsure
    \/ MergeHeader \/ Merged \/ AssignOption \/ Decoded
    \/ Select \/ LookUpCluster \/ Consider \/ SelectSettled
    \/ Return

Spec == Init /\ [][Next]_vars
=============================================================================
