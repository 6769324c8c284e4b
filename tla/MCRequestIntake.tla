-------------------------- MODULE MCRequestIntake --------------------------
(***************************************************************************)
(* A small instance of RequestIntake for TLC: all the ways to choose a     *)
(* router, and with one of them all the ways to give options.              *)
(***************************************************************************)
EXTENDS IntakeProperties

CONSTANTS acme, httpOnly,       \* two flags
          domain                \* a text option

\* The modes of the flag, the last ones end the daemon.
ModeLists ==
    {<<>>, <<"service">>, <<"ingress">>, <<"ingress", "ingress-nginx">>,
     <<"ingress-nginx", "ingress">>, <<"gateway-api", "istio-gateway", "loadbalancer">>,
     <<"ingress", "other">>}

Cluster(name) == [NoCluster EXCEPT !.name = name]
Configs ==
    {Cluster("k1"), [Cluster("k1") EXCEPT !.address = "h1", !.default = TRUE],
     [Cluster("k2") EXCEPT !.default = TRUE, !.auth = "exec"],
     [Cluster("k2") EXCEPT !.auth = "both"], [Cluster("k2") EXCEPT !.ca = "bad"],
     [Cluster("") EXCEPT !.default = TRUE]}
Files == {Nil, <<>>} \cup {<<c>> : c \in Configs} \cup (Configs \X Configs)

Infos ==
    [op : {"Info"}, mode : ModeNames, name : {"", "k1", "k2", "k9"}, address : {"", "h9"},
     kubeConfig : {""}]
    \cup [op : {"Info"}, mode : ModeNames, name : {"k1"}, address : {""},
          kubeConfig : {"good", "bad"}]

Headers ==
    LET one == [name : OptNames, value : {"true", "junk"}] IN
    {<<>>} \cup {<<h>> : h \in one} \cup (one \X one)
Bodies ==
    {Absent, Null, Malformed}
    \cup UNION {[names -> {"true", "false", "junk", NotText}] : names \in SUBSET OptNames}

Ensures ==
    [op : {"Ensure"}, mode : {""}, name : {""}, address : {""}, kubeConfig : {""},
     body : Bodies, headers : Headers]

Mixes == [infos |-> Infos, ensures |-> Ensures]

SmallSetups ==
    [modes : ModeLists, clusters : Files, mix : {"infos"}]
    \cup [modes : {<<"service">>}, clusters : {Nil}, mix : {"ensures"}]
=============================================================================
