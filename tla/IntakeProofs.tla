---------------------------- MODULE IntakeProofs ----------------------------
(***************************************************************************)
(* Proofs about RequestIntake, for any flags, clusters files, bodies and   *)
(* headers.                                                                *)
(*                                                                         *)
(* The argument: what each loop has made of its list so far is a formula   *)
(* over the entries it has gone through.  The routers and the flag are     *)
(* those of the modes started (RoutersRight), the map holds what the body  *)
(* and the headers merged so far say (ObjectRight), the options are those  *)
(* of the names assigned so far, whichever these are (OptsRight), and the  *)
(* cluster is the best of those considered (ChoiceRight).  At the end of a *)
(* list each of these formulas is the property itself.                     *)
(***************************************************************************)
EXTENDS IntakeProperties, SequenceTheorems, TLAPS

\* Is a request being answered?
Asking == pc \notin {"starting", "fatal", "idle"}

HasObject(r) == r.body \notin {Absent, Null, Malformed}

\* What the position in the handler says of the request.
Staged ==
    /\ pc \notin {"starting", "fatal"} => started = Len(Enabled)
    /\ Asking => request \in Requests[setup.mix]
    /\ ~Asking => round = 0 /\ object = <<>>
    /\ ~Asking \/ pc = "headers" => todo = {} /\ opts = NoOpts
    /\ pc \in {"headers", "assign"} => request.op = "Ensure"
    /\ pc \in {"assign", "select", "clusters", "served"} /\ request.op = "Ensure" =>
        request.body # Malformed
    /\ pc = "headers" => HasObject(request) /\ round <= Len(request.headers)
    /\ pc = "clusters" =>
        /\ setup.clusters # Nil /\ request.kubeConfig = "" /\ request.address # ""
        /\ round <= Len(setup.clusters)

\* The flag after the first k modes.
ClassAt(k) ==
    IF \E i \in 1..k : Enabled[i] = "ingress-nginx" THEN "nginx" ELSE FlagClass

\* Mode number k is the last one that made the router of its name.
MadeBy(mode, k) ==
    /\ Enabled[k] = mode
    /\ \A j \in (k + 1)..started : Enabled[j] # mode
    /\ routers[mode] = LocalRouter(mode, ClassAt(k))

RoutersRight ==
    /\ class = ClassAt(started)
    /\ \A mode \in DOMAIN routers : \E k \in 1..started : MadeBy(mode, k)
    /\ pc # "fatal" =>
        \A k \in 1..started :
            Enabled[k] \in DOMAIN routers /\ LocalKind(Enabled[k]) # "unknown"

\* The headers the loop has gone through.
MergedHeaders == IF pc = "headers" THEN round ELSE Len(request.headers)

\* Header number i is the first one of its name.
FirstHeader(r, n, i) ==
    r.headers[i].name = n /\ \A j \in 1..(i - 1) : r.headers[j].name # n

\* What the map o says of the option n after the first k headers of r.
MapSays(r, o, n, k) ==
    /\ n \in DOMAIN Given(r) => n \in DOMAIN o /\ o[n] = r.body[n]
    /\ n \notin DOMAIN Given(r) =>
        \/ n \notin DOMAIN o /\ \A i \in 1..k : r.headers[i].name # n
        \/ \E i \in 1..k :
            FirstHeader(r, n, i) /\ n \in DOMAIN o /\ o[n] = r.headers[i].value

ObjectRight ==
    Asking /\ request.op = "Ensure" =>
        IF HasObject(request)
        THEN \A n \in OptNames : MapSays(request, object, n, MergedHeaders)
        ELSE object = <<>>

\* The options the loop over the map has gone through.
Done == IF pc = "headers" THEN {} ELSE DOMAIN object \ todo

\* What the options op are when the loop has gone through the names done of the
\* map o.
OptsSay(op, o, done) ==
    /\ \A n \in TextOpts :
        op.text[n] = IF n \in done /\ o[n] # NotText THEN o[n] ELSE Unset
    /\ \A n \in BoolOpts : n \in op.on <=> n \in done /\ o[n] \in TrueTexts
    /\ LET flags == {n \in BoolOpts \cap done : o[n] # NotText} IN
        (\E n \in flags : ~Parses(o[n])) /\ (\A n \in flags : ~Parses(o[n])) => op.failed

OptsRight == OptsSay(opts, object, Done)

DecodedRight ==
    pc \in {"select", "clusters", "served"} /\ request.op = "Ensure" =>
        todo = {} /\ ~opts.failed

\* Entry number k decides the choice c among the first n entries of a file.
Decides(clusters, name, c, k, n) ==
    \/ /\ c.ended
       /\ clusters[k].name = name
       /\ \A j \in 1..(k - 1) : clusters[j].name # name
    \/ /\ ~c.ended
       /\ \A j \in 1..n : clusters[j].name # name
       /\ clusters[k].default
       /\ \A j \in (k + 1)..n : ~clusters[j].default

\* What the choice is after the first n entries.
ChoiceSays(clusters, name, c, n) ==
    \/ \E k \in 1..n : Decides(clusters, name, c, k, n) /\ c.cluster = clusters[k]
    \/ /\ c = NoChoice
       /\ \A j \in 1..n : clusters[j].name # name /\ ~clusters[j].default

ChoiceRight ==
    pc = "clusters" => ChoiceSays(setup.clusters, request.name, choice, round)

\* The formula every step preserves.
IInv ==
    /\ TypeOK /\ Staged
    /\ RoutersRight /\ ObjectRight /\ OptsRight /\ DecodedRight /\ ChoiceRight
    /\ RightCluster /\ ModeServed

-----------------------------------------------------------------------------
(* What the lists and requests are.                                        *)

LEMMA MaxIs ==
    ASSUME NEW S \in SUBSET Nat, NEW m \in S, \A x \in S : x <= m
    PROVE  Max(S) = m
  <1>1. Max(S) \in S /\ \A y \in S : Max(S) >= y
    <2>1. \E x \in S : \A y \in S : x >= y
      OBVIOUS
    <2> QED
      BY <2>1 DEF Max
  <1> DEFINE top == Max(S)
  <1>2. top \in Nat /\ m \in Nat /\ top >= m /\ top <= m
    BY <1>1
  <1> HIDE DEF top
  <1>3. top = m
    BY <1>2
  <1> QED
    BY <1>3 DEF top

LEMMA MinIs ==
    ASSUME NEW S \in SUBSET Nat, NEW m \in S, \A x \in S : m <= x
    PROVE  Min(S) = m
  <1>1. Min(S) \in S /\ \A y \in S : Min(S) =< y
    <2>1. \E x \in S : \A y \in S : x =< y
      OBVIOUS
    <2> QED
      BY <2>1 DEF Min
  <1> DEFINE bottom == Min(S)
  <1>2. bottom \in Nat /\ m \in Nat /\ bottom >= m /\ bottom <= m
    BY <1>1
  <1> HIDE DEF bottom
  <1>3. bottom = m
    BY <1>2
  <1> QED
    BY <1>3 DEF bottom

LEMMA EnabledType ==
    ASSUME setup \in Setups
    PROVE  /\ Enabled \in Seq(ModeNames \ {""})
           /\ Len(Enabled) \in Nat \ {0}
           /\ setup.mix \in DOMAIN Requests
           /\ setup.clusters \in Seq(ClusterConfig) \cup {Nil}
  <1>1. setup \in SetupType
    BY SetupsAssumption
  <1>2. setup.modes \in Seq(ModeNames \ {""})
    BY <1>1 DEF SetupType
  <1>3. Enabled \in Seq(ModeNames \ {""}) /\ Enabled # <<>>
    <2>1. "service" \in ModeNames \ {""}
      BY DEF ModeNames
    <2> DEFINE one == <<"service">>
    <2>2. one \in Seq(ModeNames \ {""}) /\ Len(one) = 1
      BY <2>1
    <2>3. one # <<>>
      OBVIOUS
    <2> HIDE DEF one
    <2>4. Enabled = IF setup.modes = <<>> THEN one ELSE setup.modes
      BY DEF Enabled, one
    <2> QED
      BY <1>2, <2>2, <2>3, <2>4
  <1>4. Len(Enabled) \in Nat \ {0}
    BY <1>3, EmptySeq
  <1> QED
    BY <1>1, <1>3, <1>4 DEF SetupType

LEMMA RequestType ==
    ASSUME setup \in Setups, NEW r \in Requests[setup.mix]
    PROVE  /\ r.mode \in ModeNames /\ r.name \in STRING /\ r.address \in STRING
           /\ r.kubeConfig \in {"", "good", "bad"}
           /\ r.op \in {"Info", "Ensure"}
           /\ r.op = "Ensure" => /\ r.headers \in Seq(HeaderOpt)
                                 /\ HasObject(r) => r.body \in Objects
  BY EnabledType, RequestsAssumption DEF InfoRequest, EnsureRequest, HasObject

LEMMA ObjectsAre ==
    ASSUME NEW o
    PROVE  o \in Objects <=>
            /\ o = [n \in DOMAIN o |-> o[n]]
            /\ DOMAIN o \subseteq OptNames
            /\ \A n \in DOMAIN o : o[n] \in Texts \cup {NotText}
  BY DEF Objects

LEMMA EmptyIsObject == <<>> \in Objects /\ DOMAIN <<>> = {}
  <1>1. DOMAIN <<>> = {}
    OBVIOUS
  <1>2. <<>> = [n \in {} |-> n]
    OBVIOUS
  <1> QED
    BY <1>1, <1>2, ObjectsAre

LEMMA AddHeaderType ==
    ASSUME NEW o \in Objects, NEW h \in HeaderOpt
    PROVE  /\ AddHeader(o, h) \in Objects
           /\ DOMAIN AddHeader(o, h) = DOMAIN o \cup {h.name}
           /\ \A n \in DOMAIN o : AddHeader(o, h)[n] = o[n]
           /\ h.name \notin DOMAIN o => AddHeader(o, h)[h.name] = h.value
  <1> DEFINE a == AddHeader(o, h)
  <1>1. a = [n \in DOMAIN o \cup {h.name} |-> IF n \in DOMAIN o THEN o[n] ELSE h.value]
    BY DEF AddHeader
  <1>2. h.name \in OptNames /\ h.value \in Texts
    BY DEF HeaderOpt
  <1> HIDE DEF a
  <1>3. /\ DOMAIN a = DOMAIN o \cup {h.name}
        /\ \A n \in DOMAIN o : a[n] = o[n]
        /\ h.name \notin DOMAIN o => a[h.name] = h.value
    BY <1>1
  <1>4. a \in Objects
    BY <1>1, <1>2, <1>3, ObjectsAre
  <1> QED
    BY <1>3, <1>4 DEF a

LEMMA LocalRouterType ==
    ASSUME NEW mode, LocalKind(mode) # "unknown", NEW c \in {"nginx", FlagClass}
    PROVE  LocalRouter(mode, c) \in Router
  <1>1. LocalKind(mode) \in {"GatewayAPIService", "IstioGateway", "IngressService", "LBService"}
    BY DEF LocalKind
  <1> QED
    BY <1>1 DEF LocalRouter, Router

LEMMA RemoteRouterType ==
    ASSUME NEW mode, RemoteKind(mode) # "unknown",
           NEW cluster \in [host : STRING, credentials : STRING] \cup {HeaderConfig}
    PROVE  RemoteRouter(mode, cluster) \in Router
  <1>1. RemoteKind(mode) \in {"GatewayAPIService", "IstioGateway", "IngressService", "LBService"}
    BY DEF RemoteKind
  <1> QED
    BY <1>1 DEF RemoteRouter, Router

LEMMA ConsiderClusterType ==
    ASSUME NEW name, NEW c \in Choice, NEW cluster \in ClusterConfig
    PROVE  ConsiderCluster(name, c, cluster) \in Choice
  <1>1. CASE cluster.name = name
    BY <1>1 DEF ConsiderCluster, Choice
  <1>2. CASE cluster.name # name /\ cluster.default
    BY <1>2 DEF ConsiderCluster, Choice
  <1>3. CASE cluster.name # name /\ ~cluster.default
    BY <1>3 DEF ConsiderCluster, Choice
  <1> QED
    BY <1>1, <1>2, <1>3 DEF ClusterConfig

LEMMA NoChoiceType == NoChoice \in Choice
  BY DEF NoChoice, Choice

LEMMA AssignedType ==
    ASSUME NEW o \in OptsType, NEW n \in OptNames, NEW value \in Texts \cup {NotText}
    PROVE  Assigned(o, n, value) \in OptsType
  <1>1. CASE value = NotText
    BY <1>1 DEF Assigned
  <1>2. CASE value # NotText /\ n \in BoolOpts
    BY <1>2 DEF Assigned, OptsType, FlagError, Parses
  <1>3. CASE value # NotText /\ n \notin BoolOpts
    BY <1>3 DEF Assigned, OptsType, OptNames
  <1> QED
    BY <1>1, <1>2, <1>3

LEMMA NoOptsType == NoOpts \in OptsType
  BY DEF NoOpts, OptsType

\* The next mode, and the cluster and the header of the next round.
LEMMA NextOfList ==
    ASSUME NEW S, NEW list \in Seq(S), NEW k \in Nat, k < Len(list)
    PROVE  list[k + 1] \in S
  BY LenProperties, ElementOfSeq

-----------------------------------------------------------------------------
(* Types.                                                                  *)

LEMMA TypeInit == Init => TypeOK
  <1> SUFFICES ASSUME Init PROVE TypeOK
    OBVIOUS
  <1>1. Len(Enabled) \in Nat
    BY EnabledType DEF Init
  <1>2. DOMAIN routers = {}
    BY EmptyIsObject DEF Init
  <1> QED
    BY <1>1, <1>2, EmptyIsObject, NoChoiceType, NoOptsType DEF Init, TypeOK, Ends

LEMMA TypeStep == IInv /\ [Next]_vars => TypeOK'
  <1> SUFFICES ASSUME IInv, [Next]_vars PROVE TypeOK'
    OBVIOUS
  <1>t. TypeOK /\ Staged
    BY DEF IInv
  <1>e. setup \in Setups
    BY <1>t DEF TypeOK
  <1>k. setup' = setup => Enabled' = Enabled
    BY DEF Enabled
  <1>n. Len(Enabled) \in Nat /\ started \in 0..Len(Enabled)
    BY <1>t, <1>e, EnabledType DEF TypeOK
  <1>r. round \in Nat /\ object \in Objects /\ todo \subseteq DOMAIN object
    BY <1>t DEF TypeOK
  <1>1. CASE StartMode
    <2> DEFINE mode == Enabled[started + 1]
    <2>1. mode \in ModeNames \ {""}
      <3>1. started \in Nat /\ started < Len(Enabled)
        BY <1>1, <1>n DEF StartMode
      <3> QED
        BY <1>e, <3>1, EnabledType, NextOfList
    <2>2. started' \in 0..Len(Enabled') /\ class' \in {"nginx", FlagClass}
      <3>1. started \in Nat /\ started < Len(Enabled) /\ Len(Enabled) \in Nat
        BY <1>1, <1>n DEF StartMode
      <3>2. started' = started + 1 /\ Enabled' = Enabled
        BY <1>1, <1>k DEF StartMode
      <3>3. class' \in {"nginx", FlagClass}
        BY <1>1, <1>t DEF TypeOK, StartMode, ClassAfter
      <3> QED
        BY <3>1, <3>2, <3>3
    <2> DEFINE made == LocalRouter(mode, class')
    <2>3. LocalKind(mode) # "unknown" => made \in Router
      BY <2>2, LocalRouterType
    <2>4. routers' = IF LocalKind(mode) = "unknown" THEN routers
                     ELSE [m \in DOMAIN routers \cup {mode} |->
                              IF m = mode THEN made ELSE routers[m]]
      BY <1>1 DEF StartMode
    <2> HIDE DEF mode, made
    <2>5. /\ DOMAIN routers' \subseteq ModeNames \ {""}
          /\ \A m \in DOMAIN routers' : routers'[m] \in Router
      <3>1. /\ DOMAIN routers \subseteq ModeNames \ {""}
            /\ \A m \in DOMAIN routers : routers[m] \in Router
        BY <1>t DEF TypeOK
      <3>2. CASE LocalKind(mode) = "unknown"
        BY <2>4, <3>1, <3>2
      <3>3. CASE LocalKind(mode) # "unknown"
        <4>1. DOMAIN routers' = DOMAIN routers \cup {mode}
          BY <2>4, <3>3
        <4>2. \A m \in DOMAIN routers' : routers'[m] = IF m = mode THEN made ELSE routers[m]
          BY <2>4, <3>3
        <4> QED
          BY <4>1, <4>2, <3>1, <3>3, <2>1, <2>3
      <3> QED
        BY <3>2, <3>3
    <2>6. pc' \in {"starting", "fatal"}
      BY <1>1 DEF StartMode
    <2>7. UNCHANGED <<setup, request, round, object, todo, opts, choice, router>>
      BY <1>1 DEF StartMode, decoding
    <2> QED
      BY <1>t, <2>2, <2>5, <2>6, <2>7 DEF TypeOK
  <1>2. CASE Listen \/ Decoded \/ ReceivePlain
    BY <1>2, <1>t, <1>k DEF TypeOK, Listen, Decoded, ReceivePlain, config, decoding, Ends
  <1>3. CASE ReceiveEnsure
    <2>1. object' \in Objects
      BY <1>3, <1>e, RequestType, EmptyIsObject DEF ReceiveEnsure, HasObject
    <2>2. todo' \subseteq DOMAIN object'
      BY <1>3, <1>t DEF ReceiveEnsure, Staged, Asking
    <2> QED
      BY <1>3, <1>t, <1>k, <2>1, <2>2 DEF TypeOK, ReceiveEnsure, config, Ends
  <1>4. CASE MergeHeader
    <2>1. request \in Requests[setup.mix] /\ request.op = "Ensure" /\ round \in Nat
      BY <1>4, <1>t DEF MergeHeader, Staged, Asking, TypeOK
    <2> DEFINE h == request.headers[round + 1]
    <2>2. h \in HeaderOpt
      <3>1. request.headers \in Seq(HeaderOpt) /\ round < Len(request.headers)
        BY <1>4, <1>e, <2>1, RequestType DEF MergeHeader
      <3> QED
        BY <2>1, <3>1, NextOfList
    <2> HIDE DEF h
    <2>3. AddHeader(object, h) \in Objects /\ DOMAIN object \subseteq DOMAIN AddHeader(object, h)
      BY <1>r, <2>2, AddHeaderType
    <2>4. object' = AddHeader(object, h) /\ round' = round + 1
      BY <1>4 DEF MergeHeader, h
    <2>5. UNCHANGED <<config, pc, request, todo, opts, choice, router>>
      BY <1>4 DEF MergeHeader
    <2>6. object' \in Objects /\ todo' \subseteq DOMAIN object' /\ round' \in Nat
      BY <1>r, <2>3, <2>4, <2>5
    <2> QED
      BY <1>t, <1>k, <2>5, <2>6 DEF TypeOK, config
  <1>5. CASE Merged
    BY <1>5, <1>t, <1>k DEF TypeOK, Merged, config, Ends
  <1>6. CASE AssignOption
    <2>1. PICK n \in todo : opts' = Assigned(opts, n, object[n]) /\ todo' = todo \ {n}
      BY <1>6 DEF AssignOption
    <2>2. n \in OptNames /\ object[n] \in Texts \cup {NotText}
      BY <1>t, <2>1, ObjectsAre DEF TypeOK
    <2>3. opts' \in OptsType
      BY <1>t, <2>1, <2>2, AssignedType DEF TypeOK
    <2> QED
      BY <1>6, <1>t, <1>k, <2>1, <2>3 DEF TypeOK, AssignOption, config
  <1>7. CASE Select
    <2>1. router' \in Router \cup {Nil} /\ pc' \in Ends
      <3>1. CASE SelectLocal(request.mode)
        BY <3>1, <1>t DEF SelectLocal, Serve, Refuse, TypeOK, Ends
      <3>2. CASE SelectRemote(request.mode, HeaderConfig)
        BY <3>2, RemoteRouterType DEF SelectRemote, Serve, Refuse, Ends
      <3>3. CASE Refuse("error")
        BY <3>3 DEF Refuse, Ends
      <3> QED
        BY <1>7, <3>1, <3>2, <3>3 DEF Select
    <2> QED
      BY <1>7, <1>t, <1>k, <2>1 DEF TypeOK, Select, config, decoding
  <1>8. CASE LookUpCluster
    BY <1>8, <1>t, <1>k, NoChoiceType DEF TypeOK, LookUpCluster, config, decoding
  <1>9. CASE Consider
    <2>1. setup.clusters[round + 1] \in ClusterConfig
      BY <1>9, <1>t, <1>e, EnabledType, NextOfList DEF TypeOK, Consider, Staged
    <2>2. choice' \in Choice
      BY <1>9, <1>t, <2>1, ConsiderClusterType DEF TypeOK, Consider
    <2>3. UNCHANGED <<config, pc, request, decoding, router>> /\ round' = round + 1
      BY <1>9 DEF Consider
    <2>4. round' \in Nat
      BY <1>r, <2>3
    <2> QED
      BY <1>t, <1>k, <2>2, <2>3, <2>4 DEF TypeOK, config, decoding
  <1>10. CASE SelectSettled
    <2>1. router' \in Router \cup {Nil} /\ pc' \in Ends
      <3>1. CASE SettingsUsable(choice.cluster)
        <4> DEFINE cluster == SettingsConfig(choice.cluster, request.address)
        <4>1. choice.cluster \in ClusterConfig
          <5>1. NoCluster.name = "" /\ choice.cluster.name # ""
            BY <3>1 DEF SettingsUsable, NoCluster
          <5>2. choice.cluster \in ClusterConfig \cup {NoCluster}
            BY <1>t DEF TypeOK, Choice
          <5> QED
            BY <5>1, <5>2
        <4>2. request.address \in STRING
          BY <1>10, <1>t, <1>e, RequestType DEF SelectSettled, Staged, Asking
        <4>3. cluster \in [host : STRING, credentials : STRING]
          BY <4>1, <4>2 DEF SettingsConfig, ClusterConfig
        <4>4. SelectRemote(request.mode, cluster)
          BY <1>10, <3>1 DEF SelectSettled
        <4> HIDE DEF cluster
        <4> QED
          BY <4>3, <4>4, RemoteRouterType DEF SelectRemote, Serve, Refuse, Ends
      <3>2. CASE ~SettingsUsable(choice.cluster)
        BY <1>10, <3>2 DEF SelectSettled, Refuse, Ends
      <3> QED
        BY <3>1, <3>2
    <2> QED
      BY <1>10, <1>t, <1>k, <2>1 DEF TypeOK, SelectSettled, config, decoding
  <1>11. CASE Return
    BY <1>11, <1>t, <1>k, EmptyIsObject, NoChoiceType, NoOptsType
       DEF TypeOK, Return, config, Ends
  <1>12. CASE UNCHANGED vars
    BY <1>12, <1>t, <1>k DEF TypeOK, vars, config, decoding
  <1> QED
    BY <1>1, <1>2, <1>3, <1>4, <1>5, <1>6, <1>7, <1>8, <1>9, <1>10, <1>11, <1>12 DEF Next

-----------------------------------------------------------------------------
(* Where the handler is.                                                   *)

LEMMA StagedStep == IInv /\ [Next]_vars => Staged'
  <1> SUFFICES ASSUME IInv, [Next]_vars PROVE Staged'
    OBVIOUS
  <1>t. TypeOK /\ Staged
    BY DEF IInv
  <1>e. setup \in Setups
    BY <1>t DEF TypeOK
  <1>k. setup' = setup => Enabled' = Enabled
    BY DEF Enabled
  <1>r. round \in Nat
    BY <1>t DEF TypeOK
  <1>c. setup.clusters # Nil => Len(setup.clusters) \in Nat
    <2>1. setup.clusters # Nil => setup.clusters \in Seq(ClusterConfig)
      BY <1>e, EnabledType
    <2> QED
      BY <2>1
  <1>h. pc = "headers" => Len(request.headers) \in Nat
    <2>1. pc = "headers" => request.headers \in Seq(HeaderOpt)
      BY <1>t, <1>e, RequestType DEF Staged, Asking
    <2> QED
      BY <2>1
  <1>1. CASE StartMode
    BY <1>1, <1>t DEF Staged, StartMode, Asking, decoding
  <1>2. CASE Listen
    BY <1>2, <1>t, <1>k DEF Staged, Listen, Asking, config, decoding
  <1>3. CASE ReceivePlain
    BY <1>3, <1>t, <1>k DEF Staged, ReceivePlain, Asking, config, decoding
  <1>4. CASE ReceiveEnsure
    <2>1. PICK r \in Requests[setup.mix] :
            /\ r.op = "Ensure" /\ request' = r
            /\ pc' = CASE r.body = Malformed -> "error"
                       [] r.body = Null /\ r.headers # <<>> -> "panic"
                       [] r.body \in {Absent, Null} -> "assign"
                       [] OTHER -> "headers"
      BY <1>4 DEF ReceiveEnsure
    <2>2. pc' \in {"error", "panic", "assign", "headers"}
      BY <2>1
    <2>3. pc' = "headers" => HasObject(r)
      BY <2>1 DEF HasObject
    <2>6. pc' = "assign" => request'.body # Malformed
      <3>1. r.body = Malformed => pc' = "error"
        BY <2>1, BodyAssumption
      <3> QED
        BY <2>1, <3>1
    <2>4. HasObject(request)' <=> HasObject(r)
      BY <2>1 DEF HasObject
    <2>5. Len(r.headers) \in Nat
      <3>1. r.headers \in Seq(HeaderOpt)
        BY <1>e, <2>1, RequestType
      <3> QED
        BY <3>1
    <2> QED
      BY <1>4, <1>t, <1>k, <2>1, <2>2, <2>3, <2>4, <2>5, <2>6
         DEF Staged, ReceiveEnsure, Asking, config
  <1>5. CASE MergeHeader
    <2>1. round' <= Len(request'.headers)
      <3>1. Len(request.headers) \in Nat /\ round \in Nat
        BY <1>5, <1>h, <1>r DEF MergeHeader
      <3> QED
        BY <1>5, <3>1 DEF MergeHeader
    <2> QED
      BY <1>5, <1>t, <1>k, <2>1 DEF Staged, MergeHeader, Asking, config, HasObject
  <1>6. CASE Merged
    BY <1>6, <1>t, <1>k DEF Staged, Merged, Asking, config, HasObject
  <1>7. CASE AssignOption
    BY <1>7, <1>t, <1>k DEF Staged, AssignOption, Asking, config
  <1>8. CASE Decoded
    BY <1>8, <1>t, <1>k DEF Staged, Decoded, Asking, config
  <1>9. CASE Select
    <2>1. pc' \in Ends
      BY <1>9 DEF Select, SelectLocal, SelectRemote, Serve, Refuse, Ends
    <2> QED
      BY <1>9, <1>t, <1>k, <2>1 DEF Staged, Select, Asking, config, Ends
  <1>10. CASE LookUpCluster
    <2>1. Len(setup.clusters) \in Nat
      BY <1>10, <1>c DEF LookUpCluster, Local
    <2>2. round' <= Len(setup'.clusters)
      <3>1. round' = 0 /\ setup' = setup
        BY <1>10 DEF LookUpCluster, config
      <3> QED
        BY <2>1, <3>1
    <2> QED
      BY <1>10, <1>t, <1>k, <2>2 DEF Staged, LookUpCluster, Asking, config, Local
  <1>11. CASE Consider
    <2>1. Len(setup.clusters) \in Nat /\ round \in Nat
      BY <1>11, <1>c, <1>t, <1>r DEF Consider, Staged
    <2>2. round' <= Len(setup'.clusters)
      BY <1>11, <2>1 DEF Consider, config
    <2> QED
      BY <1>11, <1>t, <1>k, <2>2 DEF Staged, Consider, Asking, config
  <1>12. CASE SelectSettled
    <2>1. pc' \in Ends
      BY <1>12 DEF SelectSettled, SelectRemote, Serve, Refuse, Ends
    <2> QED
      BY <1>12, <1>t, <1>k, <2>1 DEF Staged, SelectSettled, Asking, config, Ends
  <1>13. CASE Return
    BY <1>13, <1>t, <1>k DEF Staged, Return, Asking, config, Ends
  <1>14. CASE UNCHANGED vars
    BY <1>14, <1>t, <1>k DEF Staged, vars, Asking, config, decoding, HasObject
  <1> QED
    BY <1>1, <1>2, <1>3, <1>4, <1>5, <1>6, <1>7, <1>8, <1>9, <1>10, <1>11, <1>12, <1>13, <1>14
       DEF Next

-----------------------------------------------------------------------------
(* The modes.                                                              *)

\* main has gone through one more mode.
LEMMA RoutersStart == IInv /\ StartMode => RoutersRight'
  <1> SUFFICES ASSUME IInv, StartMode PROVE RoutersRight'
    OBVIOUS
  <1>t. RoutersRight /\ setup \in Setups /\ started \in 0..Len(Enabled) /\ pc = "starting"
    BY DEF IInv, TypeOK, StartMode
  <1>k. Enabled' = Enabled
    BY DEF Enabled, StartMode
  <1>l. Len(Enabled) \in Nat
    BY <1>t, EnabledType
  <1>p. PICK k : k = started + 1
    OBVIOUS
  <1>m. PICK mode : mode = Enabled[k]
    OBVIOUS
  <1>n. started \in Nat /\ k \in Nat /\ k = started + 1 /\ started' = k
    BY <1>t, <1>l, <1>p DEF StartMode
  <1> DEFINE known == LocalKind(mode) # "unknown"
  <1>1. /\ class' = ClassAfter(mode, class)
        /\ routers' = IF known THEN [m \in DOMAIN routers \cup {mode} |->
                                        IF m = mode THEN LocalRouter(mode, class') ELSE routers[m]]
                      ELSE routers
        /\ pc' = IF known THEN pc ELSE "fatal"
    BY <1>p, <1>m DEF StartMode
  <1>2. \A i : (ClassAt(i))' = ClassAt(i)
    BY <1>k DEF ClassAt
  <1>3. class' = ClassAt(k)
    <2>1. class = ClassAt(started)
      BY <1>t DEF RoutersRight
    <2>2. 1..k = (1..started) \cup {k}
      BY <1>n
    <2> QED
      BY <1>1, <1>m, <2>1, <2>2 DEF ClassAt, ClassAfter
  <1>5. ASSUME NEW m \in DOMAIN routers, m # mode
        PROVE  m \in DOMAIN routers' /\ \E i \in 1..k : MadeBy(m, i)'
    <2>1. PICK i \in 1..started : MadeBy(m, i)
      BY <1>t DEF RoutersRight
    <2>2. routers'[m] = routers[m] /\ m \in DOMAIN routers'
      BY <1>1, <1>5
    <2>3. \A j \in (i + 1)..k : Enabled[j] # m
      BY <2>1, <1>5, <1>m, <1>n DEF MadeBy
    <2>4. MadeBy(m, i)'
      BY <2>1, <2>2, <2>3, <1>k, <1>n, <1>2 DEF MadeBy
    <2> QED
      BY <2>2, <2>4, <1>n
  <1>6. known => mode \in DOMAIN routers' /\ MadeBy(mode, k)'
    <2>1. known => mode \in DOMAIN routers' /\ routers'[mode] = LocalRouter(mode, ClassAt(k))
      BY <1>1, <1>3
    <2>2. \A j \in (k + 1)..started' : Enabled[j] # mode
      BY <1>n
    <2> QED
      BY <2>1, <2>2, <1>k, <1>2, <1>m, <1>n DEF MadeBy
  <1>7. ~known => mode \notin DOMAIN routers
    <2>1. \A m \in DOMAIN routers : \E i \in 1..started : Enabled[i] = m
      BY <1>t DEF RoutersRight, MadeBy
    <2>2. \A i \in 1..started : LocalKind(Enabled[i]) # "unknown"
      BY <1>t DEF RoutersRight
    <2> QED
      BY <2>1, <2>2
  <1>8. ASSUME NEW m \in DOMAIN routers'
        PROVE  \E i \in 1..started' : MadeBy(m, i)'
    <2>1. k \in 1..started'
      BY <1>n
    <2>2. m = mode => known
      BY <1>1, <1>7, <1>8
    <2>3. m # mode => m \in DOMAIN routers
      BY <1>1, <1>8
    <2> QED
      BY <2>1, <2>2, <2>3, <1>5, <1>6, <1>n
  <1>9. pc' # "fatal" =>
            \A i \in 1..k : Enabled[i] \in DOMAIN routers' /\ LocalKind(Enabled[i]) # "unknown"
    <2>1. pc' # "fatal" => known /\ DOMAIN routers' = DOMAIN routers \cup {mode}
      BY <1>1
    <2>2. \A i \in 1..started : Enabled[i] \in DOMAIN routers /\ LocalKind(Enabled[i]) # "unknown"
      BY <1>t DEF RoutersRight
    <2>3. \A i \in 1..k : i \in 1..started \/ i = k
      BY <1>n
    <2> QED
      BY <2>1, <2>2, <2>3, <1>m
  <1> QED
    BY <1>2, <1>3, <1>8, <1>9, <1>k, <1>n DEF RoutersRight

\* Afterwards the routers stay as they are.
LEMMA RoutersStay ==
    ASSUME RoutersRight, UNCHANGED config,
           pc' # "fatal" \/ UNCHANGED pc, pc # "fatal" \/ UNCHANGED pc
    PROVE  RoutersRight'
  BY DEF RoutersRight, config, ClassAt, MadeBy, Enabled

LEMMA RoutersStep == IInv /\ [Next]_vars => RoutersRight'
  <1> SUFFICES ASSUME IInv, [Next]_vars PROVE RoutersRight'
    OBVIOUS
  <1>1. CASE StartMode
    BY <1>1, RoutersStart
  <1>2. CASE ~StartMode
    <2>1. UNCHANGED config
      BY <1>2 DEF Next, vars, Listen, ReceivePlain, ReceiveEnsure, MergeHeader, Merged,
                  AssignOption, Decoded, Select, LookUpCluster, Consider, SelectSettled, Return
    <2>2. (pc # "fatal" /\ pc' # "fatal") \/ UNCHANGED pc
      BY <1>2 DEF Next, vars, Listen, ReceivePlain, ReceiveEnsure, MergeHeader, Merged,
                  AssignOption, Decoded, Select, LookUpCluster, Consider, SelectSettled, Return,
                  SelectLocal, SelectRemote, Serve, Refuse, Ends
    <2> QED
      BY <2>1, <2>2, RoutersStay DEF IInv
  <1> QED
    BY <1>1, <1>2

-----------------------------------------------------------------------------
(* The headers.                                                            *)

LEMMA MergeOne ==
    ASSUME NEW r, r.headers \in Seq(HeaderOpt), NEW o \in Objects,
           NEW k \in Nat, k < Len(r.headers), NEW n, MapSays(r, o, n, k)
    PROVE  MapSays(r, AddHeader(o, r.headers[k + 1]), n, k + 1)
  <1>1. PICK h : h = r.headers[k + 1]
    OBVIOUS
  <1>2. h \in HeaderOpt
    BY <1>1, NextOfList
  <1>3. PICK p : p = AddHeader(o, h)
    OBVIOUS
  <1>4. /\ DOMAIN p = DOMAIN o \cup {h.name}
        /\ \A m \in DOMAIN o : p[m] = o[m]
        /\ h.name \notin DOMAIN o => p[h.name] = h.value
    BY <1>2, <1>3, AddHeaderType
  <1>5. CASE n \in DOMAIN Given(r)
    BY <1>5, <1>1, <1>3, <1>4 DEF MapSays
  <1>6. CASE n \notin DOMAIN Given(r) /\ n \in DOMAIN o
    <2>1. PICK i \in 1..k : FirstHeader(r, n, i) /\ o[n] = r.headers[i].value
      BY <1>6 DEF MapSays
    <2> QED
      BY <2>1, <1>6, <1>1, <1>3, <1>4 DEF MapSays
  <1>7. CASE n \notin DOMAIN Given(r) /\ n \notin DOMAIN o
    <2>1. \A i \in 1..k : r.headers[i].name # n
      BY <1>7 DEF MapSays
    <2>2. CASE h.name = n
      <3>1. FirstHeader(r, n, k + 1)
        BY <1>1, <2>1, <2>2 DEF FirstHeader
      <3>2. n \in DOMAIN p /\ p[n] = r.headers[k + 1].value
        BY <1>1, <1>4, <1>7, <2>2
      <3> QED
        BY <3>1, <3>2, <1>1, <1>3, <1>7 DEF MapSays
    <2>3. CASE h.name # n
      <3>1. \A i \in 1..(k + 1) : r.headers[i].name # n
        BY <1>1, <2>1, <2>3
      <3>2. n \notin DOMAIN p
        BY <1>4, <1>7, <2>3
      <3> QED
        BY <3>1, <3>2, <1>1, <1>3, <1>7 DEF MapSays
    <2> QED
      BY <2>2, <2>3
  <1> QED
    BY <1>5, <1>6, <1>7

LEMMA ObjectStep == IInv /\ [Next]_vars => ObjectRight'
  <1> SUFFICES ASSUME IInv, [Next]_vars, (Asking /\ request.op = "Ensure")'
               PROVE  IF HasObject(request)'
                      THEN (\A n \in OptNames : MapSays(request, object, n, MergedHeaders))'
                      ELSE object' = <<>>
    BY DEF ObjectRight
  <1>t. TypeOK /\ Staged /\ ObjectRight
    BY DEF IInv
  <1>1. CASE StartMode \/ Listen \/ Return \/ ReceivePlain
    <2>1. pc' \in {"starting", "fatal", "idle"} \/ request'.op = "Info"
      BY <1>1 DEF StartMode, Listen, Return, ReceivePlain
    <2> QED
      BY <2>1 DEF Asking
  <1>2. CASE ReceiveEnsure
    <2>1. PICK r \in Requests[setup.mix] :
            /\ r.op = "Ensure" /\ request' = r
            /\ pc' = CASE r.body = Malformed -> "error"
                       [] r.body = Null /\ r.headers # <<>> -> "panic"
                       [] r.body \in {Absent, Null} -> "assign"
                       [] OTHER -> "headers"
            /\ object' = IF r.body \in {Absent, Null, Malformed} THEN <<>> ELSE r.body
      BY <1>2 DEF ReceiveEnsure
    <2>2. CASE HasObject(r)
      <3>1. pc' = "headers" /\ object' = r.body
        BY <2>1, <2>2 DEF HasObject
      <3>2. round' = 0
        BY <1>2, <1>t DEF ReceiveEnsure, Staged, Asking
      <3>3. \A n \in OptNames : MapSays(r, r.body, n, 0)
        BY <2>2 DEF MapSays, Given, HasObject
      <3>4. MergedHeaders' = 0
        BY <3>1, <3>2 DEF MergedHeaders
      <3> QED
        BY <2>1, <2>2, <3>1, <3>3, <3>4
    <2>3. CASE ~HasObject(r)
      BY <2>1, <2>3 DEF HasObject
    <2> QED
      BY <2>2, <2>3
  <1>3. CASE MergeHeader
    <2>1. PICK r \in Requests[setup.mix] : r = request
      BY <1>3, <1>t DEF MergeHeader, Staged, Asking
    <2>2. PICK k \in Nat : k = round
      BY <1>t DEF TypeOK
    <2>3. PICK o \in Objects : o = object
      BY <1>t DEF TypeOK
    <2>4. r.op = "Ensure" /\ HasObject(r) /\ k < Len(r.headers)
      BY <1>3, <1>t, <2>1, <2>2 DEF MergeHeader, Staged
    <2>5. /\ request' = r /\ object' = AddHeader(o, r.headers[k + 1])
          /\ pc' = "headers" /\ round' = k + 1
      BY <1>3, <2>1, <2>2, <2>3 DEF MergeHeader
    <2>6. \A n \in OptNames : MapSays(r, o, n, k)
      BY <1>3, <1>t, <2>1, <2>2, <2>3, <2>4 DEF MergeHeader, ObjectRight, MergedHeaders, Asking
    <2>7. r.headers \in Seq(HeaderOpt)
      BY <1>t, <2>4, RequestType DEF TypeOK
    <2>8. \A n \in OptNames : MapSays(r, AddHeader(o, r.headers[k + 1]), n, k + 1)
      BY <2>4, <2>6, <2>7, MergeOne
    <2>9. MergedHeaders' = k + 1
      BY <2>5 DEF MergedHeaders
    <2>10. HasObject(request)'
      BY <2>4, <2>5 DEF HasObject
    <2> QED
      BY <2>5, <2>8, <2>9, <2>10
  <1>4. CASE ~(StartMode \/ Listen \/ Return \/ ReceivePlain \/ ReceiveEnsure \/ MergeHeader)
    <2>1. UNCHANGED <<request, object>>
      BY <1>4 DEF Next, vars, decoding, Merged, AssignOption, Decoded, Select, LookUpCluster,
                  Consider, SelectSettled
    <2>2. \/ pc' # "headers" /\ pc # "headers"
          \/ pc' # "headers" /\ round = Len(request.headers)
          \/ UNCHANGED <<pc, round>>
      BY <1>4 DEF Next, vars, Merged, AssignOption, Decoded, Select, LookUpCluster,
                  Consider, SelectSettled, SelectLocal, SelectRemote, Serve, Refuse
    <2>3. MergedHeaders' = MergedHeaders
      BY <2>1, <2>2 DEF MergedHeaders
    <2>4. Asking' => Asking
      BY <1>4 DEF Next, vars, Merged, AssignOption, Decoded, Select, LookUpCluster,
                  Consider, SelectSettled, Asking
    <2> QED
      BY <1>t, <2>1, <2>3, <2>4 DEF ObjectRight, HasObject
  <1> QED
    BY <1>1, <1>2, <1>3, <1>4

-----------------------------------------------------------------------------
(* The loop over the map.                                                  *)

LEMMA AssignOne ==
    ASSUME NEW op \in OptsType, NEW o, NEW done, NEW n \in OptNames, n \notin done,
           o[n] \in Texts \cup {NotText}, OptsSay(op, o, done)
    PROVE  OptsSay(Assigned(op, n, o[n]), o, done \cup {n})
  <1>1. CASE o[n] = NotText
    <2>1. Assigned(op, n, o[n]) = op
      BY <1>1 DEF Assigned
    <2>2. NotText \notin TrueTexts
      BY OptsAssumption
    <2>3. {m \in BoolOpts \cap (done \cup {n}) : o[m] # NotText}
            = {m \in BoolOpts \cap done : o[m] # NotText}
      BY <1>1
    <2> QED
      BY <1>1, <2>1, <2>2, <2>3 DEF OptsSay
  <1>2. CASE o[n] # NotText /\ n \in BoolOpts
    <2>1. PICK q : q = Assigned(op, n, o[n])
      OBVIOUS
    <2>2. /\ q.on = IF o[n] \in TrueTexts THEN op.on \cup {n} ELSE op.on \ {n}
          /\ q.failed = ~Parses(o[n])
          /\ q.text = op.text
      BY <1>2, <2>1 DEF Assigned, OptsType, FlagError
    <2>3. n \notin TextOpts
      BY <1>2, OptsAssumption
    <2>4. \A m \in TextOpts :
            q.text[m] = IF m \in done \cup {n} /\ o[m] # NotText THEN o[m] ELSE Unset
      BY <2>2, <2>3 DEF OptsSay
    <2>5. \A m \in BoolOpts : m \in q.on <=> m \in done \cup {n} /\ o[m] \in TrueTexts
      BY <2>2 DEF OptsSay
    <2>6. n \in {m \in BoolOpts \cap (done \cup {n}) : o[m] # NotText}
      BY <1>2
    <2> QED
      BY <2>1, <2>2, <2>4, <2>5, <2>6 DEF OptsSay
  <1>3. CASE o[n] # NotText /\ n \notin BoolOpts
    <2>1. PICK q : q = Assigned(op, n, o[n])
      OBVIOUS
    <2>2. n \in TextOpts
      BY <1>3 DEF OptNames
    <2>3. /\ q.on = op.on /\ q.failed = op.failed
          /\ q.text = [op.text EXCEPT ![n] = o[n]]
      BY <1>3, <2>1 DEF Assigned, OptsType
    <2>4. \A m \in TextOpts : q.text[m] = IF m = n THEN o[n] ELSE op.text[m]
      BY <2>2, <2>3 DEF OptsType
    <2>5. \A m \in TextOpts :
            q.text[m] = IF m \in done \cup {n} /\ o[m] # NotText THEN o[m] ELSE Unset
      BY <1>3, <2>4 DEF OptsSay
    <2>6. {m \in BoolOpts \cap (done \cup {n}) : o[m] # NotText}
            = {m \in BoolOpts \cap done : o[m] # NotText}
      BY <1>3
    <2> QED
      BY <1>3, <2>1, <2>3, <2>5, <2>6 DEF OptsSay
  <1> QED
    BY <1>1, <1>2, <1>3

LEMMA NoOptsSay == ASSUME NEW o PROVE OptsSay(NoOpts, o, {})
  BY DEF OptsSay, NoOpts

LEMMA OptsStep == IInv /\ [Next]_vars => OptsRight'
  <1> SUFFICES ASSUME IInv, [Next]_vars PROVE OptsSay(opts', object', Done')
    BY DEF OptsRight
  <1>t. TypeOK /\ Staged /\ OptsRight
    BY DEF IInv
  <1>1. CASE StartMode \/ Listen \/ ReceivePlain
    <2>1. UNCHANGED <<object, todo, opts>> /\ pc # "headers" /\ pc' # "headers"
      BY <1>1 DEF StartMode, Listen, ReceivePlain, decoding
    <2>2. Done' = Done
      BY <2>1 DEF Done
    <2> QED
      BY <1>t, <2>1, <2>2 DEF OptsRight
  <1>2. CASE ReceiveEnsure
    <2>1. opts' = NoOpts /\ todo' = {}
      BY <1>2, <1>t DEF ReceiveEnsure, Staged, Asking
    <2>2. pc' # "headers" => object' = <<>>
      BY <1>2 DEF ReceiveEnsure
    <2>3. Done' = {}
      BY <2>1, <2>2, EmptyIsObject DEF Done
    <2> QED
      BY <2>1, <2>3, NoOptsSay
  <1>3. CASE MergeHeader \/ Merged
    <2>1. opts' = NoOpts
      BY <1>3, <1>t DEF MergeHeader, Merged, Staged
    <2>2. Done' = {}
      BY <1>3 DEF MergeHeader, Merged, Done
    <2> QED
      BY <2>1, <2>2, NoOptsSay
  <1>4. CASE AssignOption
    <2>1. PICK n \in todo : opts' = Assigned(opts, n, object[n]) /\ todo' = todo \ {n}
      BY <1>4 DEF AssignOption
    <2>2. pc = "assign" /\ pc' = "assign" /\ object' = object
      BY <1>4 DEF AssignOption
    <2>3. n \in DOMAIN object /\ n \notin Done /\ Done' = Done \cup {n}
      BY <1>t, <2>1, <2>2 DEF Done, TypeOK
    <2>4. n \in OptNames /\ object[n] \in Texts \cup {NotText}
      BY <1>t, <2>3, ObjectsAre DEF TypeOK
    <2>5. opts \in OptsType /\ OptsSay(opts, object, Done)
      BY <1>t DEF TypeOK, OptsRight
    <2> HIDE DEF Done
    <2>6. OptsSay(Assigned(opts, n, object[n]), object, Done \cup {n})
      BY <2>3, <2>4, <2>5, AssignOne
    <2> QED
      BY <2>1, <2>2, <2>3, <2>6
  <1>5. CASE Return
    <2>1. opts' = NoOpts /\ Done' = {}
      BY <1>5, EmptyIsObject DEF Return, Done
    <2> QED
      BY <2>1, NoOptsSay
  <1>6. CASE Decoded \/ Select \/ LookUpCluster \/ Consider \/ SelectSettled
    <2>1. UNCHANGED <<object, todo, opts>> /\ pc # "headers" /\ pc' # "headers"
      BY <1>6 DEF Decoded, Select, LookUpCluster, Consider, SelectSettled, decoding,
                  SelectLocal, SelectRemote, Serve, Refuse
    <2>2. Done' = Done
      BY <2>1 DEF Done
    <2> QED
      BY <1>t, <2>1, <2>2 DEF OptsRight
  <1>7. CASE UNCHANGED vars
    BY <1>7, <1>t DEF vars, decoding, OptsRight, Done
  <1> QED
    BY <1>1, <1>2, <1>3, <1>4, <1>5, <1>6, <1>7 DEF Next

LEMMA DecodedStep == IInv /\ [Next]_vars => DecodedRight'
  <1> SUFFICES ASSUME IInv, [Next]_vars,
                      pc' \in {"select", "clusters", "served"}, request'.op = "Ensure"
               PROVE  todo' = {} /\ ~opts'.failed
    BY DEF DecodedRight
  <1>t. Staged /\ DecodedRight
    BY DEF IInv
  <1>1. CASE StartMode \/ Listen \/ ReceivePlain \/ ReceiveEnsure \/ MergeHeader \/ Merged
                \/ AssignOption \/ Return
    <2>1. ReceivePlain => request'.op = "Info"
      BY DEF ReceivePlain
    <2> QED
      BY <1>1, <2>1 DEF StartMode, Listen, ReceiveEnsure, MergeHeader, Merged, AssignOption,
                  Return
  <1>2. CASE Decoded
    BY <1>2 DEF Decoded, decoding
  <1>3. CASE Select \/ LookUpCluster \/ Consider \/ SelectSettled \/ UNCHANGED vars
    <2>1. UNCHANGED <<request, todo, opts>>
      BY <1>3 DEF Select, LookUpCluster, Consider, SelectSettled, vars, decoding
    <2>2. pc \in {"select", "clusters", "served"}
      BY <1>3 DEF Select, LookUpCluster, Consider, SelectSettled, vars
    <2> QED
      BY <1>t, <2>1, <2>2 DEF DecodedRight
  <1> QED
    BY <1>1, <1>2, <1>3 DEF Next

-----------------------------------------------------------------------------
(* The clusters file.                                                      *)

LEMMA ConsiderOne ==
    ASSUME NEW clusters \in Seq(ClusterConfig), NEW name, NEW c \in Choice, ~c.ended,
           NEW n \in Nat, n < Len(clusters), ChoiceSays(clusters, name, c, n)
    PROVE  ChoiceSays(clusters, name, ConsiderCluster(name, c, clusters[n + 1]), n + 1)
  <1>1. PICK cluster : cluster = clusters[n + 1]
    OBVIOUS
  <1>2. PICK d : d = ConsiderCluster(name, c, cluster)
    OBVIOUS
  <1>3. \A j \in 1..n : clusters[j].name # name
    BY DEF ChoiceSays, Decides
  <1>4. CASE cluster.name = name
    <2>1. d.ended /\ d.cluster = cluster
      BY <1>2, <1>4 DEF ConsiderCluster
    <2>2. Decides(clusters, name, d, n + 1, n + 1)
      BY <1>1, <1>3, <1>4, <2>1 DEF Decides
    <2> QED
      BY <1>1, <1>2, <2>1, <2>2 DEF ChoiceSays
  <1>5. CASE cluster.name # name /\ cluster.default
    <2>1. ~d.ended /\ d.cluster = cluster
      BY <1>2, <1>5 DEF ConsiderCluster, Choice
    <2>2. Decides(clusters, name, d, n + 1, n + 1)
      BY <1>1, <1>3, <1>5, <2>1 DEF Decides
    <2> QED
      BY <1>1, <1>2, <2>1, <2>2 DEF ChoiceSays
  <1>6. CASE cluster.name # name /\ ~cluster.default
    <2>1. d = c
      BY <1>2, <1>6 DEF ConsiderCluster
    <2>2. ASSUME NEW k \in 1..n, Decides(clusters, name, c, k, n)
          PROVE  Decides(clusters, name, c, k, n + 1)
      BY <1>1, <1>6, <2>2 DEF Decides
    <2> QED
      BY <1>1, <1>2, <1>3, <1>6, <2>1, <2>2 DEF ChoiceSays
  <1> QED
    BY <1>4, <1>5, <1>6

LEMMA ChoiceStep == IInv /\ [Next]_vars => ChoiceRight'
  <1> SUFFICES ASSUME IInv, [Next]_vars, pc' = "clusters"
               PROVE  ChoiceSays(setup'.clusters, request'.name, choice', round')
    BY DEF ChoiceRight
  <1>t. TypeOK /\ Staged /\ ChoiceRight
    BY DEF IInv
  <1>1. CASE LookUpCluster
    <2>1. choice' = NoChoice /\ round' = 0
      BY <1>1 DEF LookUpCluster
    <2>2. \A clusters, name : ChoiceSays(clusters, name, NoChoice, 0)
      BY DEF ChoiceSays
    <2> QED
      BY <2>1, <2>2
  <1>2. CASE Consider
    <2>1. PICK clusters \in Seq(ClusterConfig) : clusters = setup.clusters
      BY <1>2, <1>t, EnabledType DEF Consider, Staged, TypeOK
    <2>2. PICK n \in Nat : n = round
      BY <1>t DEF TypeOK
    <2>3. PICK c \in Choice : c = choice
      BY <1>t DEF TypeOK
    <2>4. PICK name : name = request.name
      OBVIOUS
    <2>5. ChoiceSays(clusters, name, c, n)
      BY <1>2, <1>t, <2>1, <2>2, <2>3, <2>4 DEF Consider, ChoiceRight
    <2>6. ~c.ended /\ n < Len(clusters)
      BY <1>2, <2>1, <2>2, <2>3 DEF Consider
    <2>7. /\ choice' = ConsiderCluster(name, c, clusters[n + 1]) /\ round' = n + 1
          /\ setup' = setup /\ request' = request
      BY <1>2, <2>1, <2>2, <2>3, <2>4 DEF Consider, config
    <2>8. ChoiceSays(clusters, name, ConsiderCluster(name, c, clusters[n + 1]), n + 1)
      BY <2>5, <2>6, ConsiderOne
    <2> QED
      BY <2>1, <2>4, <2>7, <2>8
  <1>3. CASE ~(LookUpCluster \/ Consider)
    <2>1. UNCHANGED vars
      BY <1>3 DEF Next, StartMode, Listen, ReceivePlain, ReceiveEnsure, MergeHeader, Merged,
                  AssignOption, Decoded, Select, SelectSettled, SelectLocal, SelectRemote,
                  Serve, Refuse, Return
    <2> QED
      BY <1>t, <2>1 DEF vars, config, ChoiceRight
  <1> QED
    BY <1>1, <1>2, <1>3

\* A usable choice after the whole file is the cluster RightCluster names.
LEMMA ChosenIsRight ==
    ASSUME NEW clusters \in Seq(ClusterConfig), NEW name, NEW c \in Choice,
           NEW n \in Nat, ~c.ended => n = Len(clusters), n <= Len(clusters),
           ChoiceSays(clusters, name, c, n), c # NoChoice
    PROVE  LET named == {i \in DOMAIN clusters : clusters[i].name = name}
               defaults == {i \in DOMAIN clusters : clusters[i].default}
           IN  /\ named \cup defaults # {}
               /\ c.cluster = clusters[IF named # {} THEN Min(named) ELSE Max(defaults)]
  <1> DEFINE named == {i \in DOMAIN clusters : clusters[i].name = name}
             defaults == {i \in DOMAIN clusters : clusters[i].default}
  <1>1. PICK len \in Nat : len = Len(clusters) /\ DOMAIN clusters = 1..len
    OBVIOUS
  <1>2. named \in SUBSET Nat /\ defaults \in SUBSET Nat
    BY <1>1
  <1>4. PICK k \in 1..n : Decides(clusters, name, c, k, n) /\ c.cluster = clusters[k]
    BY DEF ChoiceSays
  <1>5. k \in Nat /\ n <= len /\ k \in 1..len
    BY <1>1
  <1>6. CASE c.ended
    <2>1. clusters[k].name = name /\ \A j \in 1..(k - 1) : clusters[j].name # name
      BY <1>4, <1>6 DEF Decides
    <2>2. k \in named /\ \A i \in named : k <= i
      <3>1. \A i \in 1..len : i < k => clusters[i].name # name
        BY <1>5, <2>1
      <3> QED
        BY <1>1, <1>5, <2>1, <3>1
    <2> HIDE DEF named
    <2>3. Min(named) = k
      BY <1>2, <2>2, MinIs
    <2> QED
      BY <1>4, <2>2, <2>3 DEF named
  <1>7. CASE ~c.ended
    <2>1. /\ n = Len(clusters)
          /\ \A j \in 1..n : clusters[j].name # name
          /\ clusters[k].default
          /\ \A j \in (k + 1)..n : ~clusters[j].default
      BY <1>4, <1>7 DEF Decides
    <2>2. named = {} /\ k \in defaults /\ \A i \in defaults : i <= k
      <3>1. \A i \in 1..len : clusters[i].name # name /\ (i > k => ~clusters[i].default)
        BY <1>1, <1>5, <2>1
      <3> QED
        BY <1>1, <1>5, <2>1, <3>1
    <2> HIDE DEF named, defaults
    <2>3. Max(defaults) = k
      BY <1>2, <2>2, MaxIs
    <2> QED
      BY <1>4, <2>2, <2>3 DEF named, defaults
  <1> QED
    BY <1>6, <1>7

LEMMA RightClusterStep == IInv /\ [Next]_vars => RightCluster'
  <1> SUFFICES ASSUME IInv, [Next]_vars,
                      (/\ pc = "served" /\ setup.clusters # Nil
                       /\ request.kubeConfig = "" /\ request.address # "")'
               PROVE  RightCluster'
    BY DEF RightCluster
  <1>t. TypeOK /\ Staged /\ ChoiceRight /\ RightCluster
    BY DEF IInv
  <1>1. CASE SelectSettled
    <2>1. UNCHANGED <<setup, request, choice>>
      BY <1>1 DEF SelectSettled, config
    <2>2. PICK clusters \in Seq(ClusterConfig) : clusters = setup.clusters
      BY <1>1, <1>t, EnabledType DEF SelectSettled, Staged, TypeOK
    <2>3. PICK n \in Nat : n = round
      BY <1>t DEF TypeOK
    <2>4. PICK c \in Choice : c = choice
      BY <1>t DEF TypeOK
    <2>5. PICK name : name = request.name
      OBVIOUS
    <2>6. ChoiceSays(clusters, name, c, n) /\ n <= Len(clusters)
      BY <1>1, <1>t, <2>2, <2>3, <2>4, <2>5 DEF SelectSettled, ChoiceRight, Staged
    <2>7. ~c.ended => n = Len(clusters)
      BY <1>1, <2>2, <2>3, <2>4 DEF SelectSettled
    <2>8. SettingsUsable(c.cluster) /\ c # NoChoice
      <3>1. SettingsUsable(c.cluster)
        BY <1>1, <2>4 DEF SelectSettled, Refuse
      <3>2. ~SettingsUsable(NoChoice.cluster)
        BY DEF SettingsUsable, NoChoice, NoCluster
      <3> QED
        BY <3>1, <3>2
    <2>9. router'.cluster = SettingsConfig(c.cluster, request.address)
      <3> DEFINE kubeConfig == SettingsConfig(c.cluster, request.address)
      <3>1. SelectRemote(request.mode, kubeConfig)
        BY <1>1, <2>4, <2>8 DEF SelectSettled
      <3> HIDE DEF kubeConfig
      <3>2. router' = RemoteRouter(request.mode, kubeConfig)
        BY <3>1 DEF SelectRemote, Serve, Refuse
      <3> QED
        BY <3>2 DEF RemoteRouter, kubeConfig
    <2> DEFINE named == {i \in DOMAIN clusters : clusters[i].name = name}
               defaults == {i \in DOMAIN clusters : clusters[i].default}
               best == IF named # {} THEN Min(named) ELSE Max(defaults)
    <2>10. named \cup defaults # {} /\ c.cluster = clusters[best]
      BY <2>6, <2>7, <2>8, ChosenIsRight
    <2>11. /\ router'.cluster.credentials = clusters[best].name
           /\ router'.cluster.host = IF clusters[best].address = "" THEN request.address
                                     ELSE clusters[best].address
      <3>1. PICK b : b = clusters[best]
        OBVIOUS
      <3>2. router'.cluster = SettingsConfig(b, request.address)
        BY <2>9, <2>10, <3>1
      <3>3. /\ router'.cluster.credentials = b.name
            /\ router'.cluster.host = IF b.address = "" THEN request.address ELSE b.address
        <4>1. PICK host, id, given : host = b.address /\ id = b.name /\ given = request.address
          OBVIOUS
        <4>2. SettingsConfig(b, given) =
                [host |-> IF host # "" THEN host ELSE given, credentials |-> id]
          BY <4>1 DEF SettingsConfig
        <4>3. PICK found : found = router'.cluster
          OBVIOUS
        <4>4. found = [host |-> IF host # "" THEN host ELSE given, credentials |-> id]
          BY <3>2, <4>1, <4>2, <4>3
        <4>5. found.credentials = id /\ found.host = IF host = "" THEN given ELSE host
          BY <4>4
        <4> QED
          BY <4>1, <4>3, <4>5
      <3> QED
        BY <3>1, <3>3
    <2>12. setup'.clusters = clusters /\ request'.name = name /\ request' = request
      BY <2>1, <2>2, <2>5
    <2> QED
      BY <2>10, <2>11, <2>12 DEF RightCluster
  <1>2. CASE Select
    <2>1. Local(request) \/ request.kubeConfig # ""
      BY <1>2 DEF Select
    <2>2. UNCHANGED <<setup, request>>
      BY <1>2 DEF Select, config
    <2> QED
      BY <2>1, <2>2 DEF Local
  <1>3. CASE ~(SelectSettled \/ Select)
    <2>1. UNCHANGED vars
      BY <1>3 DEF Next, StartMode, Listen, ReceivePlain, ReceiveEnsure, MergeHeader, Merged,
                  AssignOption, Decoded, LookUpCluster, Consider, Return
    <2> QED
      BY <1>t, <2>1 DEF vars, config, RightCluster
  <1> QED
    BY <1>1, <1>2, <1>3

-----------------------------------------------------------------------------
(* The local cluster.                                                      *)

\* The router found is that of the mode, of which number last is the last one.
OfMode(found, mode, last) ==
    /\ found.kind = LocalKind(mode)
    /\ mode = "ingress-nginx" => found.class = "nginx"
    /\ mode = "ingress" /\ (\A i \in 1..last : Enabled[i] # "ingress-nginx")
        => found.class = FlagClass

LEMMA ServedLocally ==
    ASSUME IInv, pc = "select", NEW mode,
           NEW last, last = Max({i \in DOMAIN Enabled : Enabled[i] = mode} \cup {0})
    PROVE  /\ last = 0 <=> mode \notin DOMAIN routers
           /\ last # 0 => OfMode(routers[mode], mode, last)
  <1>1. /\ RoutersRight /\ setup \in Setups /\ started = Len(Enabled)
        /\ Enabled \in Seq(ModeNames \ {""})
    BY EnabledType DEF IInv, TypeOK, Staged
  <1>2. started \in Nat /\ DOMAIN Enabled = 1..started
    <2>1. DOMAIN Enabled = 1..Len(Enabled) /\ Len(Enabled) \in Nat
      BY <1>1, LenProperties
    <2> QED
      BY <1>1, <2>1
  <1> DEFINE places == {i \in DOMAIN Enabled : Enabled[i] = mode} \cup {0}
  <1>3. places \in SUBSET Nat
    BY <1>2
  <1>4. CASE mode \in DOMAIN routers
    <2>1. PICK k \in 1..started : MadeBy(mode, k)
      BY <1>1, <1>4 DEF RoutersRight
    <2>6. Enabled[k] = mode /\ \A j \in (k + 1)..started : Enabled[j] # mode
      BY <2>1 DEF MadeBy
    <2>7. routers[mode] = LocalRouter(mode, ClassAt(k))
      BY <2>1 DEF MadeBy
    <2>2. k \in places /\ \A i \in places : i <= k
      <3>1. \A i \in DOMAIN Enabled : Enabled[i] = mode => i <= k
        BY <1>2, <2>6
      <3>2. k \in DOMAIN Enabled /\ k > 0
        BY <1>2
      <3> QED
        BY <1>2, <2>6, <3>1, <3>2
    <2>3. last = k
      <3> HIDE DEF places
      <3>1. Max(places) = k
        BY <1>3, <2>2, MaxIs
      <3> QED
        BY <3>1 DEF places
    <2>4. LocalKind(mode) = "IngressService" => routers[mode].class = ClassAt(k)
      BY <2>7 DEF LocalRouter
    <2>5. /\ routers[mode].kind = LocalKind(mode)
          /\ mode \in {"ingress-nginx", "ingress"} => LocalKind(mode) = "IngressService"
      <3>1. routers[mode].kind = LocalKind(mode)
        <4>1. \A m, c : LocalRouter(m, c).kind = LocalKind(m)
          BY DEF LocalRouter
        <4> QED
          BY <2>7, <4>1
      <3>2. mode \in {"ingress-nginx", "ingress"} => LocalKind(mode) = "IngressService"
        BY DEF LocalKind
      <3> QED
        BY <3>1, <3>2
    <2>8. mode = "ingress-nginx" => ClassAt(k) = "nginx"
      <3>1. k \in 1..k
        BY <1>2
      <3> QED
        BY <2>6, <3>1 DEF ClassAt
    <2>9. k # 0
      BY <1>2
    <2> QED
      BY <1>4, <2>3, <2>4, <2>5, <2>8, <2>9 DEF ClassAt, OfMode
  <1>5. CASE mode \notin DOMAIN routers
    <2>1. \A i \in 1..started : Enabled[i] # mode
      BY <1>1, <1>5 DEF RoutersRight
    <2>2. places = {0}
      BY <1>2, <2>1
    <2>3. Max(places) = 0
      <3>1. 0 \in places /\ \A i \in places : i <= 0
        BY <2>2
      <3> HIDE DEF places
      <3> QED
        BY <1>3, <3>1, MaxIs
    <2> QED
      BY <1>5, <2>3
  <1> QED
    BY <1>4, <1>5

LEMMA ModeServedStep == IInv /\ [Next]_vars => ModeServed'
  <1> SUFFICES ASSUME IInv, [Next]_vars,
                      (/\ pc \in Ends \ {"panic"}
                       /\ request.kubeConfig = "" /\ request.address = ""
                       /\ request.op = "Info")'
               PROVE  ModeServed'
    BY DEF ModeServed
  <1>t. TypeOK /\ Staged /\ ModeServed
    BY DEF IInv
  <1>1. CASE Select
    <2>1. UNCHANGED <<setup, request, routers>> /\ pc = "select"
      BY <1>1 DEF Select, config
    <2>2. Local(request) /\ SelectLocal(request.mode)
      BY <1>1, <2>1 DEF Select, Local
    <2>3. Enabled' = Enabled
      BY <2>1 DEF Enabled
    <2>4. PICK mode : mode = IF request.mode = "" THEN Enabled[1] ELSE request.mode
      OBVIOUS
    <2>5. PICK last : last = Max({i \in DOMAIN Enabled : Enabled[i] = mode} \cup {0})
      OBVIOUS
    <2>6. IF mode \in DOMAIN routers THEN router' = routers[mode] /\ pc' = "served"
          ELSE pc' = "notfound"
      BY <2>2, <2>4 DEF SelectLocal, DefaultMode, Serve, Refuse
    <2>7. /\ last = 0 <=> mode \notin DOMAIN routers
          /\ last # 0 => OfMode(routers[mode], mode, last)
      BY <2>1, <2>5, ServedLocally
    <2>9. /\ last = 0 => pc' = "notfound"
          /\ last # 0 => pc' = "served" /\ OfMode(router', mode, last)
      BY <2>6, <2>7
    <2>8. /\ mode = IF request'.mode = "" THEN Enabled'[1] ELSE request'.mode
          /\ last = Max({i \in DOMAIN Enabled' : Enabled'[i] = mode} \cup {0})
      BY <2>1, <2>3, <2>4, <2>5
    <2> QED
      BY <2>3, <2>9, <2>8 DEF ModeServed, OfMode
  <1>2. CASE ReceiveEnsure \/ Decoded \/ SelectSettled
    <2>1. ReceiveEnsure => request'.op = "Ensure"
      BY DEF ReceiveEnsure
    <2>2. Decoded => request'.op = "Ensure"
      BY <1>t DEF Decoded, Staged
    <2>3. SelectSettled => request'.address # ""
      BY <1>t DEF SelectSettled, Staged
    <2> QED
      BY <1>2, <2>1, <2>2, <2>3
  <1>3. CASE ~(Select \/ ReceiveEnsure \/ Decoded \/ SelectSettled)
    <2>1. UNCHANGED vars
      BY <1>3, <1>t DEF Next, StartMode, Listen, ReceivePlain, MergeHeader, Merged,
                  AssignOption, LookUpCluster, Consider, Return, Ends
    <2>2. UNCHANGED <<setup, routers, pc, request, router, Enabled>>
      BY <2>1 DEF vars, config, Enabled
    <2> QED
      BY <1>t, <2>2 DEF ModeServed
  <1> QED
    BY <1>1, <1>2, <1>3

-----------------------------------------------------------------------------
(* The options.                                                            *)

\* Once the headers are merged, the map holds what the request says.
LEMMA MapIsSaid ==
    ASSUME NEW r, r.headers \in Seq(HeaderOpt), NEW o, NEW n,
           MapSays(r, o, n, Len(r.headers))
    PROVE  /\ n \in DOMAIN o => Said(r, n) = o[n]
           /\ n \notin DOMAIN o => Said(r, n) = Unset
  <1>1. PICK hs \in Seq(HeaderOpt) : hs = r.headers
    OBVIOUS
  <1>2. PICK len \in Nat : len = Len(hs) /\ DOMAIN hs = 1..len
    OBVIOUS
  <1> DEFINE places == HeadersFor(r, n)
  <1>3. places = {i \in 1..len : hs[i].name = n}
    BY <1>1, <1>2 DEF HeadersFor
  <1>4. CASE n \in DOMAIN Given(r)
    BY <1>4 DEF MapSays, Said
  <1>5. CASE n \notin DOMAIN Given(r) /\ n \in DOMAIN o
    <2>1. PICK i \in 1..len : FirstHeader(r, n, i) /\ o[n] = hs[i].value
      BY <1>1, <1>2, <1>5 DEF MapSays
    <2>2. hs[i].name = n /\ \A j \in 1..(i - 1) : hs[j].name # n
      BY <1>1, <2>1 DEF FirstHeader
    <2>3. i \in Nat /\ i \in 1..len
      BY <1>2
    <2> HIDE DEF places
    <2>4. \A j \in places : j \in 1..len /\ i <= j
      BY <1>2, <1>3, <2>2, <2>3
    <2>5. i \in places /\ places \in SUBSET Nat
      BY <1>3, <2>2, <2>3
    <2>6. Min(places) = i
      BY <2>4, <2>5, MinIs
    <2>7. Said(r, n) = hs[i].value
      BY <1>1, <1>5, <2>5, <2>6 DEF Said, places
    <2> QED
      BY <1>5, <2>1, <2>7
  <1>6. CASE n \notin DOMAIN Given(r) /\ n \notin DOMAIN o
    <2>1. \A i \in 1..len : hs[i].name # n
      BY <1>1, <1>2, <1>6 DEF MapSays
    <2>2. places = {}
      BY <1>3, <2>1
    <2> QED
      BY <1>6, <2>2 DEF Said
  <1> QED
    BY <1>4, <1>5, <1>6

\* What an Ensure that is served has made of its options.
LEMMA ServedOptions ==
    ASSUME IInv, Served("Ensure"), HeadersRead(request)
    PROVE  /\ \A n \in OptNames :
                /\ n \in DOMAIN object => Said(request, n) = object[n]
                /\ n \notin DOMAIN object => Said(request, n) = Unset
           /\ OptsSay(opts, object, DOMAIN object) /\ ~opts.failed
           /\ object \in Objects
  <1>1. /\ TypeOK /\ Staged /\ ObjectRight /\ OptsRight /\ DecodedRight
        /\ pc = "served" /\ request.op = "Ensure"
    BY DEF IInv, Served
  <1>2. request \in Requests[setup.mix] /\ request.body # Malformed
    BY <1>1 DEF Staged, Asking
  <1>4. request.headers \in Seq(HeaderOpt)
    BY <1>1, <1>2, RequestType DEF TypeOK
  <1>5. \A n \in OptNames : MapSays(request, object, n, Len(request.headers))
    <2>1. CASE HasObject(request)
      BY <1>1, <2>1 DEF ObjectRight, Asking, MergedHeaders
    <2>2. CASE ~HasObject(request)
      <3>1. request.body \in {Absent, Null} /\ request.headers = <<>> /\ object = <<>>
        BY <1>1, <1>2, <2>2 DEF ObjectRight, Asking, HasObject, HeadersRead
      <3>2. Given(request) = <<>> /\ Len(request.headers) = 0
        BY <3>1 DEF Given
      <3> QED
        BY <3>1, <3>2, EmptyIsObject DEF MapSays
    <2> QED
      BY <2>1, <2>2
  <1>6. todo = {} /\ ~opts.failed
    BY <1>1 DEF DecodedRight
  <1>7. Done = DOMAIN object
    BY <1>1, <1>6 DEF Done
  <1>8. OptsSay(opts, object, DOMAIN object)
    BY <1>1, <1>7 DEF OptsRight
  <1> QED
    BY <1>1, <1>4, <1>5, <1>6, <1>8, MapIsSaid DEF TypeOK

LEMMA TakenInv == IInv => OptionsTaken
  <1> SUFFICES ASSUME IInv, Served("Ensure"), HeadersRead(request)
               PROVE  /\ \A n \in TextOpts :
                            opts.text[n] = IF Said(request, n) = NotText THEN Unset
                                           ELSE Said(request, n)
                      /\ \A n \in BoolOpts : n \in opts.on <=> Said(request, n) \in TrueTexts
    BY DEF OptionsTaken
  <1>1. /\ \A n \in OptNames :
            /\ n \in DOMAIN object => Said(request, n) = object[n]
            /\ n \notin DOMAIN object => Said(request, n) = Unset
        /\ OptsSay(opts, object, DOMAIN object)
    BY ServedOptions
  <1>2. Unset \notin TrueTexts
    BY OptsAssumption
  <1>3. ASSUME NEW n \in TextOpts
        PROVE  opts.text[n] = IF Said(request, n) = NotText THEN Unset ELSE Said(request, n)
    <2>1. n \in OptNames
      BY DEF OptNames
    <2>2. opts.text[n] = IF n \in DOMAIN object /\ object[n] # NotText THEN object[n] ELSE Unset
      BY <1>1 DEF OptsSay
    <2> QED
      BY <1>1, <2>1, <2>2
  <1>4. ASSUME NEW n \in BoolOpts
        PROVE  n \in opts.on <=> Said(request, n) \in TrueTexts
    <2>1. n \in OptNames
      BY DEF OptNames
    <2>2. n \in opts.on <=> n \in DOMAIN object /\ object[n] \in TrueTexts
      BY <1>1 DEF OptsSay
    <2> QED
      BY <1>1, <1>2, <2>1, <2>2
  <1> QED
    BY <1>3, <1>4

LEMMA LoneInv == IInv => LoneBadFlagRefused
  <1> DEFINE said(n) == Said(request, n)
             flags == {n \in BoolOpts : said(n) \in Texts}
  <1> SUFFICES ASSUME IInv, Served("Ensure"), HeadersRead(request),
                      NEW bad \in flags, ~Parses(said(bad))
               PROVE  \E n \in flags : Parses(said(n))
    BY DEF LoneBadFlagRefused
  <1>1. /\ \A n \in OptNames :
            /\ n \in DOMAIN object => said(n) = object[n]
            /\ n \notin DOMAIN object => said(n) = Unset
        /\ OptsSay(opts, object, DOMAIN object) /\ ~opts.failed
        /\ object \in Objects
    BY ServedOptions
  <1>2. Unset \notin Texts /\ NotText \notin Texts
    BY OptsAssumption
  <1>3. BoolOpts \subseteq OptNames
    BY DEF OptNames
  <1>4. \A n \in DOMAIN object : object[n] \in Texts \cup {NotText}
    BY <1>1, ObjectsAre
  <1> HIDE DEF said
  <1>5. \A n \in BoolOpts :
            n \in flags <=> n \in DOMAIN object /\ object[n] # NotText /\ said(n) = object[n]
    BY <1>1, <1>2, <1>3, <1>4
  <1> DEFINE given == {n \in BoolOpts \cap DOMAIN object : object[n] # NotText}
  <1>6. (\E n \in given : ~Parses(object[n])) /\ (\A n \in given : ~Parses(object[n]))
            => opts.failed
    BY <1>1 DEF OptsSay
  <1>7. bad \in given /\ ~Parses(object[bad])
    BY <1>5
  <1>8. PICK good \in given : Parses(object[good])
    BY <1>1, <1>6, <1>7
  <1>9. said(good) = object[good]
    BY <1>1, <1>3, <1>8
  <1> QED
    BY <1>5, <1>8, <1>9

-----------------------------------------------------------------------------
(* The theorems.                                                           *)

LEMMA InvInit == Init => IInv
  <1> SUFFICES ASSUME Init PROVE IInv
    OBVIOUS
  <1>1. TypeOK
    BY TypeInit
  <1>2. /\ pc = "starting" /\ started = 0 /\ class = FlagClass /\ routers = <<>>
        /\ round = 0 /\ object = <<>> /\ todo = {} /\ opts = NoOpts
    BY DEF Init
  <1>3. Staged /\ ObjectRight /\ DecodedRight /\ ChoiceRight
    BY <1>2 DEF Staged, Asking, ObjectRight, DecodedRight, ChoiceRight
  <1>4. RoutersRight
    BY <1>2, EmptyIsObject DEF RoutersRight, ClassAt
  <1>5. OptsRight
    <2>1. Done = {}
      BY <1>2, EmptyIsObject DEF Done
    <2> QED
      BY <1>2, <2>1, NoOptsSay DEF OptsRight
  <1>6. RightCluster /\ ModeServed
    BY <1>2 DEF RightCluster, ModeServed, Ends
  <1> QED
    BY <1>1, <1>3, <1>4, <1>5, <1>6 DEF IInv

LEMMA InvStep == IInv /\ [Next]_vars => IInv'
  <1> SUFFICES ASSUME IInv, [Next]_vars PROVE IInv'
    OBVIOUS
  <1>1. TypeOK' /\ Staged'
    BY TypeStep, StagedStep
  <1>2. RoutersRight' /\ ObjectRight' /\ OptsRight' /\ DecodedRight' /\ ChoiceRight'
    BY RoutersStep, ObjectStep, OptsStep, DecodedStep, ChoiceStep
  <1>3. RightCluster' /\ ModeServed'
    BY RightClusterStep, ModeServedStep
  <1> QED
    BY <1>1, <1>2, <1>3 DEF IInv

LEMMA Invariant == Spec => []IInv
  BY InvInit, InvStep, PTL DEF Spec

\* Every reachable state is well typed; in particular a router that is found is one
\* of the four services, with a class and a cluster it was given on purpose.
THEOREM TypeCorrect == Spec => []TypeOK
  <1>1. IInv => TypeOK
    BY DEF IInv
  <1> QED
    BY <1>1, Invariant, PTL

\* Whatever the modes, in whatever order and however often they are listed, each
\* is served from the local cluster by a router of its kind; ingress-nginx has
\* the class nginx, and ingress that of the flag unless an ingress-nginx stands
\* before the last place it has in the list (main.go).
THEOREM ModesAreServed == Spec => []ModeServed
  <1>1. IInv => ModeServed
    BY DEF IInv
  <1> QED
    BY <1>1, Invariant, PTL

\* Whatever the clusters file, a request that is served from it gets the first
\* cluster of its name, else the last default, with its own credentials
\* (getKubeConfigFromSettings).
THEOREM ClusterIsRight == Spec => []RightCluster
  <1>1. IInv => RightCluster
    BY DEF IInv
  <1> QED
    BY <1>1, Invariant, PTL

\* Whatever the headers and the order in which Go ranges over the map, a served
\* Ensure whose body has "opts" has the options of the body, then of the first
\* header that speaks; without "opts" and without headers it has none
\* (UnmarshalJSON).
THEOREM OptionsAreTaken == Spec => []OptionsTaken
  BY TakenInv, Invariant, PTL

\* Of a body with "opts", or without headers, no flag that does not parse gets
\* through without one that does, in no order of the map (UnmarshalJSON).
THEOREM LoneBadFlagIsRefused == Spec => []LoneBadFlagRefused
  BY LoneInv, Invariant, PTL
=============================================================================
