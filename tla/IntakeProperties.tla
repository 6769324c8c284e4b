-------------------------- MODULE IntakeProperties --------------------------
(***************************************************************************)
(* What holds of a request when it reaches its router, over RequestIntake. *)
(***************************************************************************)
EXTENDS RequestIntake, FiniteSetsExt

Router ==
    [kind : {"GatewayAPIService", "IstioGateway", "IngressService", "LBService"},
     class : {"", "nginx", FlagClass},
     cluster : [host : STRING, credentials : STRING] \cup {HeaderConfig, InCluster}]

TypeOK ==
    /\ DOMAIN routers \subseteq ModeNames \ {""}
    /\ \A mode \in DOMAIN routers : routers[mode] \in Router
    /\ setup \in Setups /\ started \in 0..Len(Enabled) /\ class \in {"nginx", FlagClass}
    /\ pc \in Ends \cup {"starting", "fatal", "idle", "headers", "assign", "select", "clusters"}
    /\ request \in Requests[setup.mix] \cup {Nil}
    /\ round \in Nat /\ choice \in Choice
    /\ todo \subseteq DOMAIN object /\ object \in Objects
    /\ opts \in OptsType
    /\ router \in Router \cup {Nil}

\* The object a body holds; without "opts", and with null there, it says nothing.
Given(r) == IF r.body \in {Absent, Null} THEN <<>> ELSE r.body

\* What a request says of an option: the body before the headers, and of those
\* the first.
HeadersFor(r, n) == {i \in DOMAIN r.headers : r.headers[i].name = n}
Said(r, n) ==
    CASE n \in DOMAIN Given(r) -> r.body[n]
      [] n \notin DOMAIN Given(r) /\ HeadersFor(r, n) # {} ->
            r.headers[Min(HeadersFor(r, n))].value
      [] OTHER -> Unset

Served(op) == pc = "served" /\ request.op = op

\* Are the headers of a request that is served read?  Only UnmarshalJSON reads
\* them, and Go's decoder calls it only where the body has "opts": without,
\* every X-Router-Opt header is dropped in silence.  With null there and a
\* header no request is served, as the header is stored into a nil map.
HeadersRead(r) == r.headers = <<>> \/ r.body \notin {Absent, Null}

\* The backend gets the options the body gives and, where the body is silent, the
\* first header that speaks; a value that is no text counts as given but
\* empty, and only a text for true switches a flag on.  This does not depend on
\* the order in which Go ranges over the map (UnmarshalJSON).  It is what the
\* code keeps where the body has "opts" or there is no header; of a request with
\* headers but without "opts" the property says nothing, as its headers are lost.
OptionsTaken ==
    Served("Ensure") /\ HeadersRead(request) =>
        /\ \A n \in TextOpts :
            opts.text[n] = IF Said(request, n) = NotText THEN Unset ELSE Said(request, n)
        /\ \A n \in BoolOpts : n \in opts.on <=> Said(request, n) \in TrueTexts

\* A flag that does not parse reaches the backend (as false) only together with
\* a flag that does: the round of the one may overwrite the error of the other,
\* whatever the order, but never when there is no other (UnmarshalJSON, where it
\* reads the headers).
LoneBadFlagRefused ==
    Served("Ensure") /\ HeadersRead(request) =>
        LET flags == {n \in BoolOpts : Said(request, n) \in Texts} IN
        (\E n \in flags : ~Parses(Said(request, n))) =>
            \E n \in flags : Parses(Said(request, n))

\* A request for a cluster of the clusters file goes to the first one of that
\* name, whatever defaults come before or after it, with the name's own
\* credentials; one for a cluster not in the file goes to the last default, and
\* is refused when there is none (getKubeConfigFromSettings).
RightCluster ==
    /\ pc = "served" /\ setup.clusters # Nil
    /\ request.kubeConfig = "" /\ request.address # ""
    =>  LET places == DOMAIN setup.clusters
            named == {i \in places : setup.clusters[i].name = request.name}
            defaults == {i \in places : setup.clusters[i].default}
            i == IF named # {} THEN Min(named) ELSE Max(defaults)
            cluster == setup.clusters[i]
        IN  /\ named \cup defaults # {}
            /\ router.cluster.credentials = cluster.name
            /\ router.cluster.host = IF cluster.address = "" THEN request.address
                                     ELSE cluster.address

\* Of the local cluster, every mode that was enabled is served, the first one
\* also for requests without a mode, and by a router of its kind; ingress-nginx has
\* the class nginx.  The flag -ingress-class is the class of ingress, as its
\* text says, where ingress-nginx does not stand before it in the list: main.go
\* stores nginx into the flag there, and an ingress that comes after gets that
\* against the text, of which the property says nothing.
ModeServed ==
    /\ pc \in Ends \ {"panic"} /\ request.kubeConfig = "" /\ request.address = ""
    /\ request.op = "Info"
    =>  LET mode == IF request.mode = "" THEN Enabled[1] ELSE request.mode
            last == Max({i \in DOMAIN Enabled : Enabled[i] = mode} \cup {0})
        IN  IF last = 0 THEN pc = "notfound"
            ELSE /\ pc = "served"
                 /\ router.kind = LocalKind(mode)
                 /\ mode = "ingress-nginx" => router.class = "nginx"
                 /\ mode = "ingress" /\ (\A i \in 1..last : Enabled[i] # "ingress-nginx")
                        => router.class = FlagClass
=============================================================================
