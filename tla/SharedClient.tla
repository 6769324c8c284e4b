---------------------------- MODULE SharedClient ----------------------------
(***************************************************************************)
(* The client of the Kubernetes API that a BaseService creates when it is  *)
(* first needed (src/kubernetes/service.go, getClient and getConfig).      *)
(* getTsuruClient and getExtensionsClient have the same code and use the   *)
(* same RestConfig; getSigsClient stores nil when New fails, and           *)
(* getCertManagerClient, whose receiver is a copy, stores nothing.         *)
(* The goroutines of all requests that use one service read and write its  *)
(* fields RestConfig and Client without synchronisation: each access to a  *)
(* field is one step.                                                      *)
(*                                                                         *)
(* A configuration is an object of its own, which getConfig first stores   *)
(* and then completes; it is known by a number, and timed holds those that *)
(* have their Timeout.  WrapTransport, set by the next statement, only     *)
(* traces.  A client copies the Timeout of its configuration.  The field   *)
(* Client is an interface, two words: once the first one is written it is  *)
(* no longer nil, and until the second one is it holds a nil pointer, as   *)
(* it does after NewForConfig failed ("empty").                            *)
(***************************************************************************)
EXTENDS Naturals

CONSTANTS
    Handlers,           \* the HTTP requests that may be under way at a time
    Local               \* the service of -controller-modes, for all of them

\* A handler works in its own goroutine or, for a status, in the two of an
\* errgroup.  With a cluster in its headers it has a service of its own.
Parts == {"main", "check", "status"}
Goroutines == Handlers \X Parts
Services == Handlers \cup {Local}

ASSUME LocalAssumption == Local \notin Handlers

VARIABLES
    restConfig,         \* RestConfig of each service: a configuration, or 0
    client,             \* Client of each service
    configs,            \* the number of configurations created
    timed,              \* those that have a Timeout
    call                \* where each goroutine is in a method of its router

fields == <<restConfig, client, configs, timed>>
clientVars == <<fields, call>>

Clients == {"none", "empty", "untimed", "timed"}

\* The steps of getClient, of the call it is for, and how the method ends.
CallSteps == {"client", "config", "load", "complete", "take", "build", "store", "stored",
              "read", "calling"}
CallEnds == {"ok", "error", "panic"}
Call ==
    [pc : {"idle"} \cup CallSteps \cup CallEnds, service : Services,
     config : Nat,      \* what getConfig returned
     client : Clients,  \* what NewForConfig, then what getClient returned
     failed : {"no", "yes"}]  \* did NewForConfig fail?
NoCall == [pc |-> "idle", service |-> Local, config |-> 0, client |-> "none", failed |-> "no"]

ClientTypeOK ==
    /\ restConfig \in [Services -> Nat]
    /\ client \in [Services -> Clients]
    /\ configs \in Nat /\ timed \in SUBSET Nat
    /\ call \in [Goroutines -> Call]

\* The memory of a process that has just started.
NoConfigs == [s \in Services |-> 0]
NoClients == [s \in Services |-> "none"]
NoCalls == [g \in Goroutines |-> NoCall]

ClientInit ==
    /\ restConfig = NoConfigs /\ client = NoClients
    /\ configs = 0 /\ timed = {}
    /\ call = NoCalls

AtCall(g, pc) == call[g].pc = pc
\* The goroutine calls a method of the service s.
Begun(s) == [NoCall EXCEPT !.pc = "client", !.service = s]
GoTo(g, pc) == call' = [call EXCEPT ![g].pc = pc]
EndWith(g, pc) == call' = [call EXCEPT ![g] = [NoCall EXCEPT !.pc = pc]]

-----------------------------------------------------------------------------
\* getClient: if k.Client != nil, return k.Client.
CheckClient(g) ==
    /\ AtCall(g, "client")
    /\ LET found == client[call[g].service] IN
        IF found # "none"
        THEN call' = [call EXCEPT ![g] = [@ EXCEPT !.pc = "calling", !.client = found]]
        ELSE GoTo(g, "config")
    /\ UNCHANGED fields

\* getConfig: if k.RestConfig != nil, return k.RestConfig, complete or not.
CheckConfig(g) ==
    /\ AtCall(g, "config")
    /\ LET found == restConfig[call[g].service] IN
        IF found # 0
        THEN call' = [call EXCEPT ![g] = [@ EXCEPT !.pc = "build", !.config = found]]
        ELSE GoTo(g, "load")
    /\ UNCHANGED fields

\* k.RestConfig, err = rest.InClusterConfig(): a new configuration without a
\* Timeout.
LoadConfig(g) ==
    /\ AtCall(g, "load")
    /\ configs' = configs + 1
    /\ restConfig' = [restConfig EXCEPT ![call[g].service] = configs']
    /\ GoTo(g, "complete")
    /\ UNCHANGED <<client, timed>>

\* The same with an error: nil is stored, whatever was there.
LoadFails(g) ==
    /\ AtCall(g, "load")
    /\ restConfig' = [restConfig EXCEPT ![call[g].service] = 0]
    /\ EndWith(g, "error")
    /\ UNCHANGED <<client, configs, timed>>

\* mutation: the Timeout is not set
CompletedNot(t, config) == t

Completed(t, config) == t \cup {config}

\* k.RestConfig.Timeout = k.Timeout: of the configuration that is there now.
SetTimeout(g) ==
    /\ AtCall(g, "complete")
    /\ LET there == restConfig[call[g].service] IN
        IF there = 0
        THEN EndWith(g, "panic") /\ UNCHANGED timed
        ELSE GoTo(g, "take") /\ timed' = Completed(timed, there)
    /\ UNCHANGED <<restConfig, client, configs>>

\* return k.RestConfig, the one that is there now; nil panics in NewForConfig.
TakeConfig(g) ==
    /\ AtCall(g, "take")
    /\ LET there == restConfig[call[g].service] IN
        IF there = 0 THEN EndWith(g, "panic")
        ELSE call' = [call EXCEPT ![g] = [@ EXCEPT !.pc = "build", !.config = there]]
    /\ UNCHANGED fields

\* NewForConfig copies the configuration.
BuildClient(g) ==
    /\ AtCall(g, "build")
    /\ LET built == IF call[g].config \in timed THEN "timed" ELSE "untimed" IN
        call' = [call EXCEPT ![g] = [@ EXCEPT !.pc = "store", !.client = built]]
    /\ UNCHANGED fields

\* NewForConfig fails and returns a nil pointer.
BuildFails(g) ==
    /\ AtCall(g, "build")
    /\ call' = [call EXCEPT ![g] = [@ EXCEPT !.pc = "store", !.client = "empty", !.failed = "yes"]]
    /\ UNCHANGED fields

\* k.Client = ...: first the word of the type, then that of the pointer.
StoreType(g) ==
    /\ AtCall(g, "store")
    /\ LET s == call[g].service IN
        client' = [client EXCEPT ![s] = IF @ = "none" THEN "empty" ELSE @]
    /\ GoTo(g, "stored")
    /\ UNCHANGED <<restConfig, configs, timed>>

StorePointer(g) ==
    /\ AtCall(g, "stored")
    /\ client' = [client EXCEPT ![call[g].service] = call[g].client]
    /\ GoTo(g, "read")
    /\ UNCHANGED <<restConfig, configs, timed>>

\* return k.Client, err: the client that is there now.
ReadClient(g) ==
    /\ AtCall(g, "read")
    /\ IF call[g].failed = "yes" THEN EndWith(g, "error")
       ELSE LET found == client[call[g].service] IN
            call' = [call EXCEPT ![g] = [@ EXCEPT !.pc = "calling", !.client = found]]
    /\ UNCHANGED fields

\* A method called on a nil pointer.
CallPanics(g) ==
    /\ AtCall(g, "calling") /\ call[g].client = "empty"
    /\ EndWith(g, "panic")
    /\ UNCHANGED fields

\* The API server answers or refuses, or the connection breaks.
CallReturns(g) ==
    /\ AtCall(g, "calling") /\ call[g].client # "empty"
    /\ \E how \in {"ok", "error"} : EndWith(g, how)
    /\ UNCHANGED fields

\* What ends a call when the server is silent: the client's Timeout, or the
\* context of the request.
CallGivesUp(g, cancelled) ==
    /\ AtCall(g, "calling")
    /\ call[g].client = "timed" \/ (call[g].client = "untimed" /\ cancelled)
    /\ EndWith(g, "error")
    /\ UNCHANGED fields

\* The steps a goroutine takes by itself.
ClientStep(g) ==
    \/ CheckClient(g) \/ CheckConfig(g)
    \/ LoadConfig(g) \/ SetTimeout(g) \/ TakeConfig(g)
    \/ BuildClient(g) \/ StoreType(g) \/ StorePointer(g) \/ ReadClient(g)
    \/ CallPanics(g)

\* Waits for an answer that nothing but the API server can end.
Hangs(g) == AtCall(g, "calling") /\ call[g].client = "untimed"
=============================================================================
